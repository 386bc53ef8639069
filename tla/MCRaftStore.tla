---------------------------- MODULE MCRaftStore ----------------------------
(* The log and bounds for the runs of RaftStore. *)
EXTENDS RaftStore

\* Every kind of payload, the first entry being the initial membership.
MCPayload == <<"membership", "normal", "normal", "blank">>

MCShortPayload == <<"membership", "normal", "membership">>

\* An entry whose SQL is refused, between one that ran and one behind it.
MCRejected == {3}

\* The meta row that is written with mark n.
MetaAt(n) == [last |-> n, memb |-> MembershipAt(n), build |-> Peer]

\* A snapshot sent with mark n whose applied row is m and whose tables are
\* those after k.  A file that is older than its mark holds an older meta row.
Sends(n, m, k) ==
    [meta |-> MetaAt(n),
     image |-> [applied |-> m, memb |-> MembershipAt(m),
                meta |-> MetaAt(IF m < n THEN m ELSE n), rows |-> RowsAt(k)]]

\* An exact one, one that is ahead of its mark, one without the entry that its
\* mark names, and one whose file is older than its meta.
MCSent == {Sends(2, 2, 2), Sends(1, 2, 2), Sends(2, 2, 1), Sends(3, 1, 1)}
=============================================================================
