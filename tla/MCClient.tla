------------------------------ MODULE MCClient ------------------------------
(* Model values and bounds for the runs of Client. *)
EXTENDS Client, TLC

CONSTANTS n1, n2, n3, a1, a2, a3, a4, a5

MCNodes == {n1, n2, n3}
MCAddrs == {a1, a2, a3, a4, a5}
MCInvalid == {a5}
MCFirstAddr == (n1 :> a1) @@ (n2 :> a2) @@ (n3 :> a3)
=============================================================================
