--------------------------- MODULE MCStateMachine ---------------------------
(* The log for the runs of StateMachine on its own. *)
EXTENDS StateMachine

\* Every kind of payload, the first entry being the initial membership.
MCPayload == <<"membership", "normal", "normal", "blank">>

\* A snapshot that another node built at entry 3, and built exactly.
MCSent ==
    LET meta == [last |-> 3, memb |-> 1, build |-> Peer]
    IN  {[meta |-> meta,
          image |-> [applied |-> 3, memb |-> 1, meta |-> meta, rows |-> RowsAt(3)]]}
=============================================================================
