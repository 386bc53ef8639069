----------------------------- MODULE MCRaftLog -----------------------------
(* Model values and bounds for the runs of RaftLog and LogReader. *)
EXTENDS LogReader, TLC

CONSTANTS l1, l2

MCLeaderIds == {l1, l2}

\* The store never compares leader ids.
Symmetry == Permutations(MCLeaderIds)
=============================================================================
