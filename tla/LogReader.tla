----------------------------- MODULE LogReader -----------------------------
(***************************************************************************)
(* try_get_log_entries and logs_query (src/src/storage/raft.rs): what a    *)
(* read of the log answers.  The query names the first and the last index  *)
(* in u64 arithmetic and has no ORDER BY, so SQLite may go through an      *)
(* index or through the table, whose order is that of the rowids.  RaftLog *)
(* is extended with that order.                                            *)
(***************************************************************************)
EXTENDS RaftLog, FiniteSetsExt

CONSTANT Bits  \* bound: the width of u64

ASSUME BitsAssumption ==
    /\ MaxIndex + 1 < 2^(Bits - 1)
    /\ 2^(Bits - 1) \in Nat /\ 2^Bits = 2 * 2^(Bits - 1)

VARIABLES
    rowid,       \* the rowids of replicat_raft_logs, 0 where there is no row
    durableRowid \* the same as of the last sync

readVars == <<vars, rowid, durableRowid>>

Bound == [kind : {"included", "excluded", "unbounded"}, at : 0..MaxIndex + 1]

\* The indexes that `range.contains` accepts.
InRange(start, end) ==
    {i \in 0..MaxIndex + 1 :
       /\ start.kind = "included" => start.at <= i
       /\ start.kind = "excluded" => start.at < i
       /\ end.kind = "included" => i <= end.at
       /\ end.kind = "excluded" => i < end.at}

QueryStart(start) ==
    CASE start.kind = "included" -> start.at
      [] start.kind = "excluded" -> (start.at + 1) % 2^Bits
      [] start.kind = "unbounded" -> 0

\* Faulty variant: an excluded end is selected too.
QueryEnd_Inclusive(end) ==
    CASE end.kind = "included" -> end.at
      [] end.kind = "excluded" -> end.at
      [] end.kind = "unbounded" -> 2^(Bits - 1) - 1

\* A release build wraps, so `..0` selects every row.
QueryEnd(end) ==
    CASE end.kind = "included" -> end.at
      [] end.kind = "excluded" -> (end.at - 1) % 2^Bits
      [] end.kind = "unbounded" -> 2^(Bits - 1) - 1

\* SELECT entry ... WHERE log_index >= start AND log_index <= end
LogsQuery(start, end) ==
    {i \in Index : logs[i] # NoRow /\ QueryStart(start) <= i /\ i <= QueryEnd(end)}

NoRowid == [i \in Index |-> 0]
ReadInit == Init /\ rowid = NoRowid /\ durableRowid = NoRowid

\* A new row gets the largest rowid plus one, an upsert keeps the row's own.
Rowids ==
    LET largest == Max({rowid[i] : i \in Index})
    IN  /\ rowid' = [i \in Index |-> IF logs'[i] = NoRow THEN 0
                                    ELSE IF logs[i] = NoRow THEN largest + 1
                                    ELSE rowid[i]]
        /\ UNCHANGED durableRowid

ReadNext ==
    \/ /\ \/ \E v \in 1..MaxVote : SaveVote(v)
          \/ \E entries \in Batch : AppendToLog(entries)
          \/ AppendRow
          \/ \E i \in Index : DeleteConflictLogsSince(i) \/ PurgeLogsUpto(i)
          \/ PurgeRows
          \/ Crash \/ Open
       /\ Rowids
    \/ Checkpoint /\ durableRowid' = rowid /\ UNCHANGED rowid
    \/ PowerLoss /\ rowid' = durableRowid /\ UNCHANGED durableRowid

ReadSpec == ReadInit /\ [][ReadNext]_readVars

-----------------------------------------------------------------------------
\* Between two calls a read of any range that openraft may ask for, which is
\* not empty and begins behind the purge mark, selects exactly the entries
\* that openraft has there, whatever kind of bounds the range has.
ReadsExact ==
    CanCall =>
        \A start, end \in Bound :
            /\ InRange(start, end) # {}
            /\ \A i \in InRange(start, end) : i > raft.purged
            => LogsQuery(start, end)
                 = {i \in InRange(start, end) \cap Index : raft.log[i] # NoRow}

\* The missing ORDER BY does no harm: after any truncations, appends, purges
\* and failures, at any statement, the rowids rise with the log index, so an
\* index search and a table scan answer in the same order.
ScanInOrder ==
    \A i, j \in Index :
        i < j /\ logs[i] # NoRow /\ logs[j] # NoRow => rowid[i] < rowid[j]
=============================================================================
