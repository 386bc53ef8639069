------------------------------ MODULE RaftLog ------------------------------
(***************************************************************************)
(* The persistent half of RaftStore (src/src/storage/raft.rs): the table   *)
(* replicat_raft_logs, the rows "last_purged_id" and "vote" of             *)
(* replicat_kv_states, and the store calls that change them.  Every call   *)
(* is a sequence of StorageHandle::execute calls and each of those commits *)
(* a transaction of its own, so a call with several of them is several     *)
(* actions here and the process may stop between any two.                  *)
(*                                                                         *)
(* The caller is openraft's core, one call at a time.  raft is its         *)
(* in-memory idea of the log, which it changes before it makes the call.   *)
(* An entry is reduced to its leader id, which tells an entry apart from   *)
(* one that was truncated at the same index.                               *)
(***************************************************************************)
EXTENDS Integers, Sequences

CONSTANTS
    MaxIndex,          \* bound: the largest log index
    LeaderIds,         \* leader ids (term, node id) of entries
    NoRow,             \* "there is no row at this index"
    MaxVote,           \* bound: the largest vote (votes are totally ordered)
    MaxBatch,          \* bound: entries in one append_to_log
    PowerLossPossible  \* whether the machine, not just the process, may fail

ASSUME RaftLogAssumption ==
    /\ MaxIndex \in Nat
    /\ NoRow \notin LeaderIds
    /\ MaxVote \in Nat
    /\ MaxBatch \in Nat \ {0}
    /\ PowerLossPossible \in BOOLEAN

VARIABLES
    logs,     \* replicat_raft_logs: log_index -> leader id, or NoRow
    purged,   \* row last_purged_id
    vote,     \* row vote; 0 when there is none
    durable,  \* the three above as the last sync of the WAL left them
    up,       \* whether the process runs
    op,       \* the store call in progress
    raft      \* openraft's view: its log, last index, purge mark and vote

vars == <<logs, purged, vote, durable, up, op, raft>>

Index == 0..MaxIndex
None == -1
Row == LeaderIds \cup {NoRow}

Idle == [kind |-> "none", at |-> None, todo |-> <<>>]

Committed == [logs |-> logs, purged |-> purged, vote |-> vote]

\* The rows a purge mark does not cover.
Live(rows, mark) == [i \in Index |-> IF i <= mark THEN NoRow ELSE rows[i]]

\* Faulty variant: the purge mark alone.
IsLastLogId_MarkOnly(i) ==
    i = purged

\* get_log_state: the last row of the table, whatever the mark says, and the
\* mark itself only when the table is empty (`last_log_id.or(last_purged)`).
IsLastLogId(i) ==
    \/ /\ i \in Index
       /\ logs[i] # NoRow
       /\ \A j \in Index : j > i => logs[j] = NoRow
    \/ /\ i = purged
       /\ \A j \in Index : logs[j] = NoRow

Init ==
    /\ logs = [i \in Index |-> NoRow]
    /\ purged = None
    /\ vote = 0
    /\ durable = Committed
    /\ up = TRUE
    /\ op = Idle
    /\ raft = [log |-> logs, last |-> None, purged |-> None, vote |-> 0]

CanCall == up /\ op = Idle

\* openraft works on a log whose last id is not behind its purge mark.
SoundView == raft.last >= raft.purged

\* It purges further than before, or again at start-up when it finds rows
\* that a crash kept from being deleted and no row behind the mark.
CanPurge(i) == i > raft.purged \/ (i = raft.purged /\ ~SoundView)

-----------------------------------------------------------------------------
SaveVote(v) ==
    /\ CanCall
    /\ v > raft.vote
    /\ vote' = v
    /\ raft' = [raft EXCEPT !.vote = v]
    /\ UNCHANGED <<logs, purged, durable, up, op>>

\* append_to_log is called with the entries that follow the last one.
AppendToLog(entries) ==
    /\ CanCall
    /\ SoundView
    /\ raft.last + Len(entries) <= MaxIndex
    /\ op' = [kind |-> "append", at |-> raft.last + 1, todo |-> entries]
    /\ raft' = [raft EXCEPT
                  !.last = @ + Len(entries),
                  !.log = [i \in Index |->
                             IF i \in raft.last + 1 .. raft.last + Len(entries)
                             THEN entries[i - raft.last] ELSE @[i]]]
    /\ UNCHANGED <<logs, purged, vote, durable, up>>

\* Faulty variant: the loop runs from the last entry to the first.
AppendRow_Backwards ==
    /\ up
    /\ op.kind = "append"
    /\ logs' = [logs EXCEPT ![op.at + Len(op.todo) - 1] = op.todo[Len(op.todo)]]
    /\ op' = IF Len(op.todo) = 1
             THEN Idle
             ELSE [op EXCEPT !.todo = SubSeq(@, 1, Len(@) - 1)]
    /\ UNCHANGED <<purged, vote, durable, up, raft>>

\* One turn of its loop: an upsert of one row, committed on its own.
AppendRow ==
    /\ up
    /\ op.kind = "append"
    /\ logs' = [logs EXCEPT ![op.at] = Head(op.todo)]
    /\ op' = IF Len(op.todo) = 1
             THEN Idle
             ELSE [op EXCEPT !.at = @ + 1, !.todo = Tail(@)]
    /\ UNCHANGED <<purged, vote, durable, up, raft>>

\* Faulty variant: the conflicting entry itself stays.
DeleteConflictLogsSince_After(i) ==
    /\ CanCall
    /\ raft.purged < i /\ i <= raft.last
    /\ logs' = [j \in Index |-> IF j > i THEN NoRow ELSE logs[j]]
    /\ raft' = [raft EXCEPT
                  !.last = i - 1,
                  !.log = [j \in Index |-> IF j >= i THEN NoRow ELSE @[j]]]
    /\ UNCHANGED <<purged, vote, durable, up, op>>

DeleteConflictLogsSince(i) ==
    /\ CanCall
    /\ raft.purged < i /\ i <= raft.last
    /\ logs' = [j \in Index |-> IF j >= i THEN NoRow ELSE logs[j]]
    /\ raft' = [raft EXCEPT
                  !.last = i - 1,
                  !.log = [j \in Index |-> IF j >= i THEN NoRow ELSE @[j]]]
    /\ UNCHANGED <<purged, vote, durable, up, op>>

\* Faulty variant: the rows go first and the mark is left for later.
PurgeLogsUpto_RowsFirst(i) ==
    /\ CanCall
    /\ CanPurge(i)
    /\ logs' = Live(logs, i)
    /\ op' = [kind |-> "purge", at |-> i, todo |-> <<>>]
    /\ raft' = [raft EXCEPT
                  !.purged = i,
                  !.last = IF @ < i THEN i ELSE @,
                  !.log = Live(@, i)]
    /\ UNCHANGED <<purged, vote, durable, up>>

\* Faulty variant: the mark is taken for exclusive.
PurgeLogsUpto_Exclusive(i) ==
    /\ CanCall
    /\ CanPurge(i)
    /\ purged' = i + 1
    /\ op' = [kind |-> "purge", at |-> i, todo |-> <<>>]
    /\ raft' = [raft EXCEPT
                  !.purged = i,
                  !.last = IF @ < i THEN i ELSE @,
                  !.log = Live(@, i)]
    /\ UNCHANGED <<logs, vote, durable, up>>

\* purge_logs_upto, also behind the end of the log when a snapshot was
\* installed: the mark is set first ...
PurgeLogsUpto(i) ==
    /\ CanCall
    /\ CanPurge(i)
    /\ purged' = i
    /\ op' = [kind |-> "purge", at |-> i, todo |-> <<>>]
    /\ raft' = [raft EXCEPT
                  !.purged = i,
                  !.last = IF @ < i THEN i ELSE @,
                  !.log = Live(@, i)]
    /\ UNCHANGED <<logs, vote, durable, up>>

\* ... and the rows are deleted by a second statement.
PurgeRows ==
    /\ up
    /\ op.kind = "purge"
    /\ logs' = Live(logs, op.at)
    /\ op' = Idle
    /\ UNCHANGED <<purged, vote, durable, up, raft>>

-----------------------------------------------------------------------------
\* The process stops (a crash, or a store error that openraft treats as
\* fatal).  SQLite keeps every committed statement.
Crash ==
    /\ up
    /\ up' = FALSE
    /\ op' = Idle
    /\ UNCHANGED <<logs, purged, vote, durable, raft>>

\* With `synchronous = normal` in WAL mode a commit is not synced: SQLite
\* syncs when it checkpoints, at any moment ...
Checkpoint ==
    /\ PowerLossPossible
    /\ durable' = Committed
    /\ UNCHANGED <<logs, purged, vote, up, op, raft>>

\* ... and a power loss drops the commits made since.
PowerLoss ==
    /\ PowerLossPossible
    /\ logs' = durable.logs
    /\ purged' = durable.purged
    /\ vote' = durable.vote
    /\ up' = FALSE
    /\ op' = Idle
    /\ UNCHANGED <<durable, raft>>

\* RaftStore::open creates the missing tables only; openraft then loads the
\* vote, the log state and the log ids.
Open ==
    /\ ~up
    /\ up' = TRUE
    /\ \E last \in Index \cup {None} :
         /\ IsLastLogId(last)
         /\ raft' = [log |-> Live(logs, purged), last |-> last,
                     purged |-> purged, vote |-> vote]
    /\ UNCHANGED <<logs, purged, vote, durable, op>>

Batch == UNION {[1..n -> LeaderIds] : n \in 1..MaxBatch}

Next ==
    \/ \E v \in 1..MaxVote : SaveVote(v)
    \/ \E entries \in Batch : AppendToLog(entries)
    \/ AppendRow
    \/ \E i \in Index : DeleteConflictLogsSince(i) \/ PurgeLogsUpto(i)
    \/ PurgeRows
    \/ Crash \/ Checkpoint \/ PowerLoss \/ Open

Spec == Init /\ [][Next]_vars

-----------------------------------------------------------------------------
TypeOK ==
    /\ logs \in [Index -> Row]
    /\ purged \in Index \cup {None}
    /\ vote \in 0..MaxVote
    /\ durable \in [logs : [Index -> Row], purged : Index \cup {None},
                    vote : 0..MaxVote]
    /\ up \in BOOLEAN
    /\ op \in [kind : {"none", "append", "purge"}, at : Index \cup {None},
               todo : Batch \cup {<<>>}]
    /\ raft \in [log : [Index -> Row], last : Index \cup {None},
                 purged : Index \cup {None}, vote : 0..MaxVote]

\* No log entry is lost in the middle: whatever statement a crash or a power
\* loss falls behind, an index below a stored row is stored too or is covered
\* by the purge mark.  This is what the order of the two statements of
\* purge_logs_upto and the order of the loop of append_to_log are for.
NoHole ==
    \A i, j \in Index :
        purged < i /\ i < j /\ logs[j] # NoRow => logs[i] # NoRow

\* Between two calls the tables hold exactly the log, purge mark and vote
\* that openraft believes it has, also right after a restart.
AgreesWithRaft ==
    CanCall => /\ Live(logs, purged) = raft.log
               /\ purged = raft.purged
               /\ vote = raft.vote

\* The store calls, cut off by a crash or a power loss at any statement,
\* implement the promise of PersistentLog: a half-done append is a shorter
\* append, a half-done purge is a finished one, and a process crash is no
\* change at all.
Promised == INSTANCE PersistentLog WITH
    entries <- Live(logs, purged),
    synced <- [entries |-> Live(durable.logs, durable.purged),
               purged |-> durable.purged, vote |-> durable.vote]

ImplementsPersistentLog == Promised!Spec

=============================================================================
