--------------------------- MODULE RaftLogProofs ---------------------------
(***************************************************************************)
(* Theorems about RaftLog for every bound, proved from one inductive       *)
(* invariant: above the purge mark the stored rows are exactly those up to *)
(* an end that openraft's view and the call in progress determine.         *)
(***************************************************************************)
EXTENDS RaftLog, SequenceTheorems, TLAPS

\* Rows above the mark form a run without a hole.
Contiguous(rows, mark) ==
    \A i, j \in Index : mark < i /\ i < j /\ rows[j] # NoRow => rows[i] # NoRow

\* The index of the last row that is already written.
Written == IF op.kind = "append" THEN op.at - 1 ELSE raft.last

\* The rows above the purge mark are those up to Written.
Tracked ==
    up => /\ purged = raft.purged
          /\ vote = raft.vote
          /\ \A i \in Index : i > purged => (logs[i] # NoRow <=> i <= Written)

\* The call in progress is consistent with the view that started it.
OpSound ==
    /\ up /\ op.kind = "append" =>
          /\ op.at > purged
          /\ op.todo \in Batch
          /\ op.at + Len(op.todo) = raft.last + 1
    /\ op.kind = "purge" => up /\ op.at = purged
    /\ op.kind = "append" => up
    /\ op.kind = "none" => op = Idle

IInv ==
    /\ TypeOK
    /\ NoHole
    /\ Contiguous(durable.logs, durable.purged)
    /\ Tracked
    /\ OpSound

-----------------------------------------------------------------------------
LEMMA BatchIsSeq ==
    ASSUME NEW s \in Batch
    PROVE  /\ s \in Seq(LeaderIds)
           /\ Len(s) \in Nat \ {0}
           /\ Len(s) <= MaxBatch
           /\ \A k \in 1..Len(s) : s[k] \in LeaderIds
<1>1. PICK n \in 1..MaxBatch : s \in [1..n -> LeaderIds]
  BY DEF Batch
<1>2. n \in Nat /\ MaxBatch \in Nat
  BY <1>1, RaftLogAssumption
<1>3. s \in Seq(LeaderIds)
  BY <1>1, <1>2, SeqDef
<1>4. Len(s) = n
  BY <1>1, <1>2, <1>3, LenProperties
<1> QED
  BY <1>1, <1>2, <1>3, <1>4

LEMMA SeqIsBatch ==
    ASSUME NEW s \in Seq(LeaderIds), Len(s) \in 1..MaxBatch
    PROVE  s \in Batch
<1>1. s \in [1..Len(s) -> LeaderIds]
  BY LenProperties
<1> QED
  BY <1>1 DEF Batch

LEMMA TailOfBatch ==
    ASSUME NEW s \in Batch, Len(s) # 1
    PROVE  /\ Tail(s) \in Batch
           /\ Len(Tail(s)) = Len(s) - 1
           /\ \A k \in 1..Len(s) - 1 : Tail(s)[k] = s[k + 1]
<1>1. s \in Seq(LeaderIds) /\ s # <<>> /\ Len(s) \in Nat /\ Len(s) > 1
      /\ Len(s) <= MaxBatch
  <2>1. s \in Seq(LeaderIds) /\ Len(s) \in Nat \ {0} /\ Len(s) <= MaxBatch
    BY BatchIsSeq, Zenon
  <2>2. s # <<>>
    BY <2>1, EmptySeq
  <2>3. \A n \in Nat \ {0} : n # 1 => n > 1
    OBVIOUS
  <2>4. Len(s) > 1
    BY <2>1, <2>3, Zenon
  <2> QED
    BY <2>1, <2>2, <2>4, Zenon
<1>2. Tail(s) \in Seq(LeaderIds) /\ Len(Tail(s)) = Len(s) - 1
  BY <1>1, HeadTailProperties
<1>3. \A k \in 1..Len(s) - 1 : Tail(s)[k] = s[k + 1]
  BY <1>1, HeadTailProperties
<1>4. Tail(s) \in Batch
  <2>1. Len(Tail(s)) \in 1..MaxBatch
    BY <1>1, <1>2, RaftLogAssumption
  <2> QED
    BY <1>2, <2>1, SeqIsBatch
<1> QED
  BY <1>2, <1>3, <1>4
-----------------------------------------------------------------------------
LEMMA InitIInv == Init => IInv
<1> SUFFICES ASSUME Init PROVE IInv
  OBVIOUS
<1> USE RaftLogAssumption DEF Init, Index, None, Row, Idle, Committed
<1>1. TypeOK
  BY DEF TypeOK
<1>2. NoHole /\ Contiguous(durable.logs, durable.purged)
  BY DEF NoHole, Contiguous
<1>3. Tracked /\ OpSound
  BY DEF Tracked, OpSound, Written
<1> QED
  BY <1>1, <1>2, <1>3 DEF IInv

LEMMA SaveVoteKeepsIInv ==
    ASSUME IInv, NEW v \in 1..MaxVote, SaveVote(v)
    PROVE  IInv'
<1> USE RaftLogAssumption DEF IInv, SaveVote, CanCall, None
<1>1. TypeOK'
  BY DEF TypeOK
<1>2. NoHole' /\ Contiguous(durable.logs, durable.purged)'
  BY DEF NoHole, Contiguous, Index
<1>3. Tracked'
  BY DEF Tracked, Written, TypeOK, Index
<1>4. OpSound'
  BY DEF OpSound, TypeOK, Idle, Batch
<1> QED
  BY <1>1, <1>2, <1>3, <1>4

LEMMA AppendToLogKeepsIInv ==
    ASSUME IInv, NEW entries \in Batch, AppendToLog(entries)
    PROVE  IInv'
<1> DEFINE n == Len(entries)
<1>1. n \in Nat \ {0} /\ \A k \in 1..n : entries[k] \in LeaderIds
  BY BatchIsSeq, Zenon
<1> HIDE DEF n
<1>2. /\ up /\ op.kind = "none"
      /\ raft.last \in Int /\ raft.last >= -1
      /\ raft.last >= raft.purged /\ purged = raft.purged
      /\ raft.last + n <= MaxIndex
      /\ op' = [kind |-> "append", at |-> raft.last + 1, todo |-> entries]
      /\ raft'.last = raft.last + n
      /\ raft'.purged = raft.purged
      /\ raft'.vote = raft.vote
  BY DEF IInv, AppendToLog, CanCall, Idle, SoundView, TypeOK, Index, None,
         Tracked, n
<1>3. TypeOK'
  <2>1. op' \in [kind : {"none", "append", "purge"}, at : Index \cup {None},
                 todo : Batch \cup {<<>>}]
    <3>1. raft.last + 1 \in Index
      BY <1>1, <1>2, RaftLogAssumption DEF Index
    <3> QED
      BY <1>2, <3>1
  <2>2. raft' \in [log : [Index -> Row], last : Index \cup {None},
                   purged : Index \cup {None}, vote : 0..MaxVote]
    <3> DEFINE newLog == [i \in Index |->
                            IF i \in raft.last + 1 .. raft.last + n
                            THEN entries[i - raft.last] ELSE raft.log[i]]
    <3>1. newLog \in [Index -> Row]
      <4> SUFFICES ASSUME NEW i \in Index
                   PROVE  newLog[i] \in Row
        OBVIOUS
      <4>1. CASE i \in raft.last + 1 .. raft.last + n
        <5>1. i - raft.last \in 1..n
          BY <4>1, <1>1, <1>2 DEF Index
        <5> QED
          BY <4>1, <5>1, <1>1 DEF Row
      <4>2. CASE i \notin raft.last + 1 .. raft.last + n
        BY <4>2 DEF IInv, TypeOK
      <4> QED
        BY <4>1, <4>2
    <3> HIDE DEF newLog
    <3>2. raft' = [raft EXCEPT !.last = raft.last + n, !.log = newLog]
      BY DEF AppendToLog, n, newLog
    <3>3. raft.last + n \in Index
      BY <1>1, <1>2, RaftLogAssumption DEF Index
    <3> QED
      BY <3>1, <3>2, <3>3 DEF IInv, TypeOK
  <2> QED
    BY <2>1, <2>2 DEF IInv, TypeOK, AppendToLog
<1>4. NoHole' /\ Contiguous(durable.logs, durable.purged)'
  BY DEF IInv, AppendToLog, NoHole, Contiguous, Index
<1>5. Tracked'
  <2>1. Written = raft.last /\ Written' = raft.last
    BY <1>2 DEF Written
  <2> QED
    BY <1>2, <2>1 DEF IInv, AppendToLog, Tracked, Index
<1>6. OpSound'
  <2>1. Len(op'.todo) = n
    BY <1>2 DEF n
  <2>2. op'.at > purged'
    BY <1>2, RaftLogAssumption DEF AppendToLog, IInv, TypeOK, Index, None
  <2>3. op'.at + n = raft'.last + 1
    BY <1>1, <1>2
  <2> QED
    BY <1>2, <2>1, <2>2, <2>3 DEF AppendToLog, OpSound
<1> QED
  BY <1>3, <1>4, <1>5, <1>6 DEF IInv

LEMMA AppendRowKeepsIInv ==
    ASSUME IInv, AppendRow
    PROVE  IInv'
<1> DEFINE n == Len(op.todo)
<1>1. op.todo \in Batch
  BY DEF IInv, OpSound, AppendRow
<1>2. n \in Nat \ {0} /\ Head(op.todo) \in LeaderIds
  <2>1. op.todo \in Seq(LeaderIds) /\ n \in Nat \ {0}
    BY <1>1, BatchIsSeq, Zenon
  <2>2. op.todo # <<>>
    BY <2>1, EmptySeq
  <2> QED
    BY <2>1, <2>2, HeadTailProperties
<1>3. /\ up /\ up' /\ op.kind = "append"
      /\ op.at \in Index /\ op.at > purged
      /\ op.at + n = raft.last + 1
      /\ purged = raft.purged /\ vote = raft.vote
      /\ \A i \in Index : i > purged => (logs[i] # NoRow <=> i < op.at)
  BY DEF IInv, OpSound, Tracked, Written, AppendRow, TypeOK, Index, None
<1>4. n # 1 => /\ Tail(op.todo) \in Batch
               /\ Len(Tail(op.todo)) = n - 1
  BY <1>1, TailOfBatch, Zenon
<1> HIDE DEF n
<1>5. n # 1 => op.at + 1 \in Index
  BY <1>2, <1>3, RaftLogAssumption DEF IInv, TypeOK, Index, None
<1>6. op' = IF n = 1 THEN Idle
            ELSE [op EXCEPT !.at = op.at + 1, !.todo = Tail(op.todo)]
  BY DEF AppendRow, n
<1>7. TypeOK'
  <2>1. logs' \in [Index -> Row]
    BY <1>2, <1>3 DEF IInv, TypeOK, AppendRow, Row
  <2>2. op' \in [kind : {"none", "append", "purge"}, at : Index \cup {None},
                 todo : Batch \cup {<<>>}]
    BY <1>4, <1>5, <1>6 DEF IInv, TypeOK, Idle
  <2> QED
    BY <2>1, <2>2 DEF IInv, TypeOK, AppendRow
<1>8. \A i \in Index : i > purged => (logs'[i] # NoRow <=> i <= op.at)
  BY <1>2, <1>3, RaftLogAssumption DEF AppendRow, IInv, TypeOK, Index
<1>9. NoHole'
  BY <1>3, <1>8 DEF NoHole, AppendRow, Index, IInv, TypeOK, None
<1>10. Contiguous(durable.logs, durable.purged)'
  BY DEF IInv, AppendRow, Contiguous
<1>11. Tracked'
  <2>1. Written' = op.at
    <3>1. CASE n = 1
      BY <1>3, <1>6, <3>1, RaftLogAssumption
         DEF Written, Idle, AppendRow, IInv, TypeOK, Index, None
    <3>2. CASE n # 1
      <4>1. op'.kind = "append" /\ op'.at = op.at + 1
        BY <1>3, <1>6, <3>2 DEF IInv, TypeOK
      <4>2. op.at \in Int
        BY <1>3, RaftLogAssumption DEF Index
      <4> QED
        BY <4>1, <4>2 DEF Written
    <3> QED
      BY <3>1, <3>2
  <2> QED
    BY <1>3, <1>8, <2>1 DEF Tracked, AppendRow
<1>12. OpSound'
  <2>1. CASE n = 1
    BY <1>6, <2>1 DEF OpSound, Idle
  <2>2. CASE n # 1
    <3>1. /\ op'.kind = "append"
          /\ op'.at = op.at + 1
          /\ op'.todo = Tail(op.todo)
      BY <1>3, <1>6, <2>2 DEF IInv, TypeOK
    <3>2. Len(op'.todo) = n - 1 /\ op'.todo \in Batch
      BY <1>4, <2>2, <3>1
    <3>3. op.at \in Int /\ purged \in Int /\ raft.last \in Int
      BY <1>3, RaftLogAssumption DEF IInv, TypeOK, Index, None
    <3>4. op.at + 1 > purged /\ op.at + 1 + (n - 1) = raft.last + 1
      BY <1>2, <1>3, <3>3
    <3>5. op'.at > purged' /\ op'.at + Len(op'.todo) = raft'.last + 1
      BY <3>1, <3>2, <3>4 DEF AppendRow
    <3> QED
      BY <1>3, <3>1, <3>2, <3>5 DEF OpSound
  <2> QED
    BY <2>1, <2>2
<1> QED
  BY <1>7, <1>9, <1>10, <1>11, <1>12 DEF IInv

LEMMA DeleteKeepsIInv ==
    ASSUME IInv, NEW i \in Index, DeleteConflictLogsSince(i)
    PROVE  IInv'
<1> USE DEF DeleteConflictLogsSince, CanCall, Idle
<1>1. /\ up /\ op = Idle /\ Written = raft.last /\ Written' = i - 1
      /\ purged = raft.purged /\ vote = raft.vote
      /\ i - 1 \in Index \cup {None}
      /\ raft'.last = i - 1 /\ raft'.purged = raft.purged
      /\ raft'.vote = raft.vote
  BY RaftLogAssumption DEF IInv, Written, Tracked, TypeOK, Index, None
<1>2. TypeOK'
  BY <1>1 DEF IInv, TypeOK, Row
<1>3. NoHole' /\ Contiguous(durable.logs, durable.purged)'
  BY DEF IInv, NoHole, Contiguous, Index
<1>4. Tracked'
  BY <1>1 DEF IInv, Tracked, TypeOK, Index, None
<1>5. OpSound'
  BY <1>1 DEF OpSound, Batch
<1> QED
  BY <1>2, <1>3, <1>4, <1>5 DEF IInv

LEMMA PurgeLogsUptoKeepsIInv ==
    ASSUME IInv, NEW i \in Index, PurgeLogsUpto(i)
    PROVE  IInv'
<1> USE DEF PurgeLogsUpto, CanCall, CanPurge
<1>1. /\ up /\ op = Idle /\ Written = raft.last
      /\ purged = raft.purged /\ vote = raft.vote
      /\ raft'.last = IF raft.last < i THEN i ELSE raft.last
      /\ raft'.purged = i /\ raft'.vote = raft.vote
      /\ Written' = raft'.last
      /\ i >= purged
      /\ op'.kind = "purge" /\ op'.at = i
  BY DEF IInv, Written, Tracked, TypeOK, Index, None, Idle
<1>2. TypeOK'
  <2>1. Live(raft.log, i) \in [Index -> Row]
    BY DEF IInv, TypeOK, Live, Row
  <2>2. raft' \in [log : [Index -> Row], last : Index \cup {None},
                   purged : Index \cup {None}, vote : 0..MaxVote]
    BY <1>1, <2>1 DEF IInv, TypeOK
  <2> QED
    BY <2>2 DEF IInv, TypeOK
<1>3. NoHole' /\ Contiguous(durable.logs, durable.purged)'
  BY <1>1 DEF IInv, NoHole, Contiguous, TypeOK, Index, None
<1>4. Tracked'
  BY <1>1 DEF IInv, Tracked, TypeOK, Index, None
<1>5. OpSound'
  BY <1>1 DEF OpSound
<1> QED
  BY <1>2, <1>3, <1>4, <1>5 DEF IInv

LEMMA PurgeRowsKeepsIInv ==
    ASSUME IInv, PurgeRows
    PROVE  IInv'
<1> USE DEF PurgeRows, Live
<1>1. op.at = purged /\ up /\ Written = raft.last /\ Written' = raft.last
  BY DEF IInv, OpSound, Written, Idle
<1>2. TypeOK'
  BY DEF IInv, TypeOK, Row, Idle
<1>3. NoHole' /\ Contiguous(durable.logs, durable.purged)'
  BY <1>1 DEF IInv, NoHole, Contiguous, TypeOK, Index, None
<1>4. Tracked'
  BY <1>1 DEF IInv, Tracked, TypeOK, Index, None
<1>5. OpSound'
  BY DEF OpSound, Idle
<1> QED
  BY <1>2, <1>3, <1>4, <1>5 DEF IInv

LEMMA FailuresKeepIInv ==
    ASSUME IInv, Crash \/ Checkpoint \/ PowerLoss
    PROVE  IInv'
<1>1. CASE Crash
  BY <1>1 DEF Crash, IInv, TypeOK, NoHole, Contiguous, Tracked, OpSound, Idle
<1>2. CASE Checkpoint
  <2>1. TypeOK'
    BY <1>2 DEF Checkpoint, Committed, IInv, TypeOK
  <2>2. NoHole' /\ Contiguous(durable.logs, durable.purged)'
    BY <1>2 DEF Checkpoint, Committed, IInv, NoHole, Contiguous
  <2>3. Tracked' /\ OpSound'
    BY <1>2 DEF Checkpoint, IInv, Tracked, Written, OpSound, Idle, Batch
  <2> QED
    BY <2>1, <2>2, <2>3 DEF IInv
<1>3. CASE PowerLoss
  <2>1. TypeOK'
    BY <1>3 DEF PowerLoss, IInv, TypeOK, Idle
  <2>2. NoHole' /\ Contiguous(durable.logs, durable.purged)'
    BY <1>3 DEF PowerLoss, IInv, NoHole, Contiguous
  <2>3. Tracked' /\ OpSound'
    BY <1>3 DEF PowerLoss, Tracked, OpSound, Idle
  <2> QED
    BY <2>1, <2>2, <2>3 DEF IInv
<1> QED
  BY <1>1, <1>2, <1>3

LEMMA OpenKeepsIInv ==
    ASSUME IInv, Open
    PROVE  IInv'
<1>1. PICK last \in Index \cup {None} :
        /\ IsLastLogId(last)
        /\ raft' = [log |-> Live(logs, purged), last |-> last,
                    purged |-> purged, vote |-> vote]
  BY DEF Open
<1>2. op = Idle /\ op' = Idle
  BY DEF Open, IInv, OpSound, TypeOK
<1>3. TypeOK'
  BY <1>1 DEF Open, IInv, TypeOK, Live, Row
<1>4. NoHole' /\ Contiguous(durable.logs, durable.purged)'
  BY DEF Open, IInv, NoHole, Contiguous
<1>5. Tracked'
  <2>1. Written' = last
    BY <1>1, <1>2 DEF Written, Idle
  <2>2. \A i \in Index : i > purged => (logs[i] # NoRow <=> i <= last)
    <3> SUFFICES ASSUME NEW i \in Index, i > purged
                 PROVE  logs[i] # NoRow <=> i <= last
      OBVIOUS
    <3>1. CASE last \in Index /\ logs[last] # NoRow
               /\ \A j \in Index : j > last => logs[j] = NoRow
      BY <3>1 DEF IInv, NoHole, Index
    <3>2. CASE last = purged /\ \A j \in Index : logs[j] = NoRow
      BY <3>2 DEF IInv, TypeOK, Index, None
    <3> QED
      BY <1>1, <3>1, <3>2 DEF IsLastLogId
  <2> QED
    BY <1>1, <2>1, <2>2 DEF Open, Tracked
<1>6. OpSound'
  BY <1>2 DEF OpSound, Idle
<1> QED
  BY <1>3, <1>4, <1>5, <1>6 DEF IInv

LEMMA NextKeepsIInv == IInv /\ [Next]_vars => IInv'
<1> SUFFICES ASSUME IInv, [Next]_vars PROVE IInv'
  OBVIOUS
<1>1. ASSUME NEW v \in 1..MaxVote, SaveVote(v) PROVE IInv'
  BY <1>1, SaveVoteKeepsIInv
<1>2. ASSUME NEW entries \in Batch, AppendToLog(entries) PROVE IInv'
  BY <1>2, AppendToLogKeepsIInv
<1>3. CASE AppendRow
  BY <1>3, AppendRowKeepsIInv
<1>4. ASSUME NEW i \in Index, DeleteConflictLogsSince(i) PROVE IInv'
  BY <1>4, DeleteKeepsIInv
<1>5. ASSUME NEW i \in Index, PurgeLogsUpto(i) PROVE IInv'
  BY <1>5, PurgeLogsUptoKeepsIInv
<1>6. CASE PurgeRows
  BY <1>6, PurgeRowsKeepsIInv
<1>7. CASE Crash \/ Checkpoint \/ PowerLoss
  BY <1>7, FailuresKeepIInv
<1>8. CASE Open
  BY <1>8, OpenKeepsIInv
<1>9. CASE UNCHANGED vars
  BY <1>9 DEF vars, IInv, TypeOK, NoHole, Contiguous, Tracked, Written,
              OpSound, Idle, Batch
<1> QED
  BY <1>1, <1>2, <1>3, <1>4, <1>5, <1>6, <1>7, <1>8, <1>9 DEF Next

LEMMA SpecKeepsIInv == Spec => []IInv
<1> QED
  BY InitIInv, NextKeepsIInv, PTL DEF Spec

\* Every variable keeps its type: no purge mark, index or batch leaves its
\* range, whatever call is cut off by a failure.
THEOREM TypeCorrect == Spec => []TypeOK
<1>1. IInv => TypeOK
  BY DEF IInv
<1> QED
  BY <1>1, SpecKeepsIInv, PTL

\* Whatever statement of append_to_log or purge_logs_upto a crash or a power
\* loss falls behind, no index between the purge mark and the last row lacks
\* its row.
THEOREM LogHasNoHole == Spec => []NoHole
<1>1. IInv => NoHole
  BY DEF IInv
<1> QED
  BY <1>1, SpecKeepsIInv, PTL
-----------------------------------------------------------------------------
\* openraft's log is the stored one above the purge mark, continued by the
\* rows that append_to_log has still to write.
ViewSound ==
    up => raft.log = [i \in Index |->
                        IF i <= purged THEN NoRow
                        ELSE IF op.kind = "append" /\ op.at <= i /\ i <= raft.last
                             THEN op.todo[i - op.at + 1]
                             ELSE logs[i]]

LEMMA IdleView ==
    ASSUME IInv, ViewSound, CanCall
    PROVE  raft.log = Live(logs, purged)
BY DEF ViewSound, CanCall, Live, Idle

LEMMA AppendToLogKeepsView ==
    ASSUME IInv, ViewSound, NEW entries \in Batch, AppendToLog(entries)
    PROVE  ViewSound'
<1> DEFINE n == Len(entries)
<1>1. n \in Nat \ {0}
  BY BatchIsSeq, Zenon
<1>2. raft.log = Live(logs, purged)
  BY IdleView DEF AppendToLog
<1> HIDE DEF n
<1>3. /\ raft.last \in Int /\ purged \in Int /\ raft.last >= purged
      /\ \A i \in Index : i > purged => (logs[i] # NoRow <=> i <= raft.last)
  BY RaftLogAssumption DEF IInv, AppendToLog, CanCall, SoundView, Tracked,
     Written, Idle, TypeOK, Index, None
<1>4. /\ op'.kind = "append" /\ op'.at = raft.last + 1 /\ op'.todo = entries
      /\ raft'.last = raft.last + n
      /\ logs' = logs /\ purged' = purged
  BY DEF AppendToLog, IInv, TypeOK, n
<1>5. raft'.log = [i \in Index |->
                     IF i \in raft.last + 1 .. raft.last + n
                     THEN entries[i - raft.last] ELSE raft.log[i]]
  BY DEF AppendToLog, IInv, TypeOK, n
<1> DEFINE view(i) == IF i <= purged THEN NoRow
                      ELSE IF raft.last + 1 <= i /\ i <= raft.last + n
                           THEN entries[i - (raft.last + 1) + 1]
                           ELSE logs[i]
<1>6. \A i \in Index : raft'.log[i] = view(i)
  <2> SUFFICES ASSUME NEW i \in Index PROVE raft'.log[i] = view(i)
    OBVIOUS
  <2>1. i \in Int
    BY RaftLogAssumption DEF Index
  <2>2. CASE raft.last + 1 <= i /\ i <= raft.last + n
    <3>1. i - (raft.last + 1) + 1 = i - raft.last /\ ~(i <= purged)
          /\ i \in raft.last + 1 .. raft.last + n
      BY <1>1, <1>3, <2>1, <2>2
    <3> QED
      BY <1>5, <2>2, <3>1
  <2>3. CASE ~(raft.last + 1 <= i /\ i <= raft.last + n)
    <3>1. i \notin raft.last + 1 .. raft.last + n
      BY <1>1, <1>3, <2>1, <2>3
    <3> QED
      BY <1>2, <1>5, <2>3, <3>1 DEF Live
  <2> QED
    BY <2>2, <2>3
<1>7. raft'.log = [i \in Index |-> view(i)]
  BY <1>5, <1>6
<1> QED
  BY <1>4, <1>7 DEF ViewSound

LEMMA AppendRowKeepsView ==
    ASSUME IInv, ViewSound, AppendRow
    PROVE  ViewSound'
<1> DEFINE n == Len(op.todo)
<1>1. op.todo \in Batch
  BY DEF IInv, OpSound, AppendRow
<1>2. /\ n \in Nat \ {0}
      /\ Head(op.todo) = op.todo[1]
      /\ n # 1 => \A k \in 1..n - 1 : Tail(op.todo)[k] = op.todo[k + 1]
  <2>1. op.todo \in Seq(LeaderIds) /\ n \in Nat \ {0}
    BY <1>1, BatchIsSeq, Zenon
  <2>2. Head(op.todo) = op.todo[1]
    BY <2>1, EmptySeq
  <2>3. n # 1 => \A k \in 1..n - 1 : Tail(op.todo)[k] = op.todo[k + 1]
    BY <1>1, TailOfBatch, Zenon
  <2> QED
    BY <2>1, <2>2, <2>3
<1> HIDE DEF n
<1>3. /\ up /\ op.kind = "append" /\ op.at \in Index
      /\ op.at > purged /\ op.at + n = raft.last + 1
      /\ purged \in Int /\ raft.last \in Int /\ op.at \in Int
  BY RaftLogAssumption DEF IInv, OpSound, AppendRow, TypeOK, Index, None, n
<1>4. op' = IF n = 1 THEN Idle
            ELSE [op EXCEPT !.at = op.at + 1, !.todo = Tail(op.todo)]
  BY DEF AppendRow, n
<1>5. /\ raft' = raft /\ purged' = purged
      /\ logs' = [logs EXCEPT ![op.at] = op.todo[1]]
  BY <1>2 DEF AppendRow
<1>6. \A i \in Index :
        raft.log[i] = IF i <= purged THEN NoRow
                      ELSE IF op.at <= i /\ i <= raft.last
                           THEN op.todo[i - op.at + 1] ELSE logs[i]
  BY <1>3 DEF ViewSound
<1>7. raft.log = [i \in Index |-> raft.log[i]]
  BY DEF IInv, TypeOK
<1>8. \A i \in Index :
        raft.log[i] = IF i <= purged THEN NoRow
                      ELSE IF op'.kind = "append" /\ op'.at <= i /\ i <= raft.last
                           THEN op'.todo[i - op'.at + 1] ELSE logs'[i]
  <2> SUFFICES ASSUME NEW i \in Index, ~(i <= purged)
               PROVE  raft.log[i] =
                        IF op'.kind = "append" /\ op'.at <= i /\ i <= raft.last
                        THEN op'.todo[i - op'.at + 1] ELSE logs'[i]
    BY <1>6
  <2>1. i \in Int
    BY RaftLogAssumption DEF Index
  <2>2. CASE i = op.at
    <3>1. i <= raft.last /\ i - op.at + 1 = 1
      BY <1>2, <1>3, <2>2
    <3>2. raft.log[i] = op.todo[1]
      BY <1>6, <2>2, <3>1, <2>1
    <3>3. logs'[i] = op.todo[1]
      BY <1>5, <1>3, <2>2 DEF IInv, TypeOK
    <3>4. ~(op'.kind = "append" /\ op'.at <= i)
      <4>1. CASE n = 1
        BY <1>4, <4>1 DEF Idle
      <4>2. CASE n # 1
        <5>1. op'.at = op.at + 1
          BY <1>4, <4>2 DEF IInv, TypeOK
        <5> QED
          BY <5>1, <2>1, <2>2
      <4> QED
        BY <4>1, <4>2
    <3> QED
      BY <3>2, <3>3, <3>4
  <2>3. CASE i # op.at
    <3>1. logs'[i] = logs[i]
      BY <1>5, <2>3 DEF IInv, TypeOK
    <3>2. CASE n = 1
      <4>1. ~(op.at <= i /\ i <= raft.last)
        BY <1>3, <2>1, <2>3, <3>2
      <4>2. op'.kind # "append"
        BY <1>4, <3>2 DEF Idle
      <4> QED
        BY <1>6, <3>1, <4>1, <4>2
    <3>3. CASE n # 1
      <4>1. /\ op'.kind = "append" /\ op'.at = op.at + 1
            /\ op'.todo = Tail(op.todo)
        BY <1>3, <1>4, <3>3 DEF IInv, TypeOK
      <4>2. CASE op.at <= i /\ i <= raft.last
        <5>1. /\ op.at + 1 <= i
              /\ i - (op.at + 1) + 1 \in 1..n - 1
              /\ i - (op.at + 1) + 1 + 1 = i - op.at + 1
          BY <1>2, <1>3, <2>1, <2>3, <3>3, <4>2
        <5>2. Tail(op.todo)[i - (op.at + 1) + 1] = op.todo[i - op.at + 1]
          BY <1>2, <3>3, <5>1
        <5>3. raft.log[i] = op.todo[i - op.at + 1]
          BY <1>6, <4>2
        <5> QED
          BY <4>1, <4>2, <5>1, <5>2, <5>3
      <4>3. CASE ~(op.at <= i /\ i <= raft.last)
        <5>1. ~(op.at + 1 <= i /\ i <= raft.last)
          BY <1>3, <2>1, <4>3
        <5> QED
          BY <1>6, <3>1, <4>1, <4>3, <5>1
      <4> QED
        BY <4>2, <4>3
    <3> QED
      BY <3>2, <3>3
  <2> QED
    BY <2>2, <2>3
<1> QED
  BY <1>5, <1>7, <1>8 DEF ViewSound

LEMMA NextKeepsView == IInv /\ ViewSound /\ [Next]_vars => ViewSound'
<1> SUFFICES ASSUME IInv, ViewSound, [Next]_vars PROVE ViewSound'
  OBVIOUS
<1> USE RaftLogAssumption
<1>1. ASSUME NEW v \in 1..MaxVote, SaveVote(v) PROVE ViewSound'
  BY <1>1 DEF SaveVote, ViewSound, IInv, TypeOK
<1>2. ASSUME NEW entries \in Batch, AppendToLog(entries) PROVE ViewSound'
  BY <1>2, AppendToLogKeepsView
<1>3. CASE AppendRow
  BY <1>3, AppendRowKeepsView
<1>4. ASSUME NEW i \in Index, DeleteConflictLogsSince(i) PROVE ViewSound'
  BY <1>4, IdleView DEF DeleteConflictLogsSince, ViewSound, IInv, TypeOK,
     CanCall, Idle, Live, Index, None, Tracked
<1>5. ASSUME NEW i \in Index, PurgeLogsUpto(i) PROVE ViewSound'
  BY <1>5, IdleView DEF PurgeLogsUpto, CanPurge, ViewSound, IInv, TypeOK,
     CanCall, Idle, Live, Index, None, Tracked
<1>6. CASE PurgeRows
  BY <1>6 DEF PurgeRows, ViewSound, IInv, TypeOK, OpSound, Idle, Live
<1>7. CASE Crash \/ Checkpoint \/ PowerLoss
  BY <1>7 DEF Crash, Checkpoint, PowerLoss, ViewSound
<1>8. CASE Open
  <2>1. op = Idle
    BY <1>8 DEF Open, IInv, OpSound, TypeOK
  <2> QED
    BY <1>8, <2>1 DEF Open, ViewSound, Live, Idle
<1>9. CASE UNCHANGED vars
  BY <1>9 DEF vars, ViewSound
<1> QED
  BY <1>1, <1>2, <1>3, <1>4, <1>5, <1>6, <1>7, <1>8, <1>9 DEF Next

\* Between two store calls, also right after a restart, the tables hold
\* exactly the log, purge mark and vote that openraft works with.
THEOREM StoreAgreesWithRaft == Spec => []AgreesWithRaft
<1>1. Init => ViewSound
  BY DEF Init, ViewSound, Idle
<1>2. IInv /\ ViewSound => AgreesWithRaft
  BY IdleView DEF AgreesWithRaft, IInv, Tracked, CanCall
<1> QED
  BY <1>1, <1>2, SpecKeepsIInv, NextKeepsView, PTL DEF Spec

-----------------------------------------------------------------------------
LEMMA StepImplements ==
    ASSUME IInv, [Next]_vars
    PROVE  [Promised!Next]_Promised!vars
<1> USE RaftLogAssumption DEF Promised!vars, Promised!Index, Promised!None
<1>0. MaxIndex \in Nat /\ purged \in Int
  BY DEF IInv, TypeOK, Index, None
<1>1. ASSUME NEW v \in 1..MaxVote, SaveVote(v) PROVE Promised!SaveVote(v)
  BY <1>1 DEF SaveVote, CanCall, IInv, Tracked, Promised!SaveVote
<1>2. ASSUME NEW entries \in Batch, AppendToLog(entries)
      PROVE  UNCHANGED Promised!vars
  BY <1>2 DEF AppendToLog
<1>3. ASSUME AppendRow
      PROVE  Promised!AppendEntry(op.at, Head(op.todo))
  <2>1. /\ op.at \in Index /\ op.at > purged
        /\ \A i \in Index : i > purged => (logs[i] # NoRow <=> i < op.at)
    BY <1>3 DEF IInv, OpSound, Tracked, Written, AppendRow, TypeOK, Index, None
  <2>2. Promised!IsNext(op.at)
    BY <1>0, <2>1 DEF Promised!IsNext, Live, Index
  <2>3. Live(logs, purged)' = [Live(logs, purged) EXCEPT ![op.at] = Head(op.todo)]
    <3>1. /\ logs \in [Index -> Row] /\ purged' = purged
          /\ logs' = [logs EXCEPT ![op.at] = Head(op.todo)]
      BY <1>3 DEF AppendRow, IInv, TypeOK
    <3>2. Live(logs, purged)' =
            [i \in Index |-> IF i <= purged THEN NoRow ELSE logs'[i]]
      BY <3>1 DEF Live
    <3>3. ~(op.at <= purged)
      BY <1>0, <2>1 DEF Index
    <3> QED
      BY <2>1, <3>1, <3>2, <3>3 DEF Live
  <2> QED
    BY <1>3, <2>2, <2>3 DEF AppendRow, Promised!AppendEntry
<1>4. ASSUME AppendRow PROVE op.at \in Index /\ Head(op.todo) \in LeaderIds
  <2>1. op.todo \in Seq(LeaderIds) /\ Len(op.todo) \in Nat \ {0}
    BY <1>4, BatchIsSeq DEF IInv, OpSound, AppendRow
  <2>2. Head(op.todo) \in LeaderIds
    BY <2>1, EmptySeq, HeadTailProperties
  <2> QED
    BY <1>4, <2>2 DEF IInv, OpSound, AppendRow, TypeOK, Index, None
<1>5. ASSUME NEW i \in Index, DeleteConflictLogsSince(i)
      PROVE  Promised!TruncateSince(i)
  BY <1>5 DEF DeleteConflictLogsSince, CanCall, IInv, Tracked, Live, Index,
              Promised!TruncateSince
<1>6. ASSUME NEW i \in Index, PurgeLogsUpto(i)
      PROVE  Promised!PurgeUpto(i) \/ UNCHANGED Promised!vars
  BY <1>0, <1>6 DEF PurgeLogsUpto, CanPurge, CanCall, IInv, Tracked, Live,
              Index, Promised!PurgeUpto
<1>7. ASSUME PurgeRows PROVE UNCHANGED Promised!vars
  BY <1>7 DEF PurgeRows, IInv, OpSound, Live
<1>8. ASSUME Crash \/ Open PROVE UNCHANGED Promised!vars
  BY <1>8 DEF Crash, Open
<1>9. ASSUME Checkpoint PROVE Promised!Sync
  BY <1>9 DEF Checkpoint, Committed, Promised!Sync
<1>10. ASSUME PowerLoss PROVE Promised!PowerLoss
  BY <1>10 DEF PowerLoss, Promised!PowerLoss, Live
<1>11. ASSUME UNCHANGED vars PROVE UNCHANGED Promised!vars
  BY <1>11 DEF vars
<1> QED
  BY <1>1, <1>2, <1>3, <1>4, <1>5, <1>6, <1>7, <1>8, <1>9, <1>10, <1>11
     DEF Next, Promised!Next, Index

\* The store calls, interrupted at any statement by a crash or a power loss,
\* implement the promise of PersistentLog for every bound.
THEOREM KeepsThePromise == Spec => ImplementsPersistentLog
<1>1. Init => Promised!Init
  BY DEF Init, Committed, Promised!Init, Promised!Index, Promised!None, Index,
         None, Live
<1>2. IInv /\ [Next]_vars => [Promised!Next]_Promised!vars
  BY StepImplements
<1> QED
  BY <1>1, <1>2, SpecKeepsIInv, PTL
     DEF Spec, ImplementsPersistentLog, Promised!Spec
=============================================================================
