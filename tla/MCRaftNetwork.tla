--------------------------- MODULE MCRaftNetwork ---------------------------
(* Addresses for the run of RaftNetwork. *)
EXTENDS RaftNetwork

CONSTANTS a1, a2, a3, a4

MCAddrs == {a1, a2, a3, a4}
MCFirstAddr == <<a1, a2, a3>>
=============================================================================
