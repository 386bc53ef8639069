-------------------------- MODULE LogReaderProofs --------------------------
(***************************************************************************)
(* Theorems about LogReader for every bound: what a query selects follows  *)
(* from the agreement of the tables with openraft, and the order of the    *)
(* rowids from where append_to_log puts its rows.                          *)
(***************************************************************************)
EXTENDS LogReader, RaftLogProofs, WellFoundedInduction

\* The rowids rise with the log index, and so a row's is at most its place.
Ordered(rows, ids) ==
    /\ \A i \in Index : /\ ids[i] \in 0..i + 1
                        /\ ids[i] = 0 <=> rows[i] = NoRow
    /\ \A i, j \in Index :
         i < j /\ rows[i] # NoRow /\ rows[j] # NoRow => ids[i] < ids[j]

RowidInv == Ordered(logs, rowid) /\ Ordered(durable.logs, durableRowid)

-----------------------------------------------------------------------------
LEMMA ReadIsStep ==
    /\ ReadInit => Init
    /\ [ReadNext]_readVars => [Next]_vars
BY DEF ReadInit, ReadNext, readVars, Next

LEMMA ReadSpecIsSpec == ReadSpec => Spec
BY ReadIsStep, PTL DEF ReadSpec, Spec

LEMMA QueryFacts ==
    ASSUME NEW start \in Bound, NEW end \in Bound, InRange(start, end) # {}
    PROVE  \A i \in Index : i \in InRange(start, end)
                              <=> QueryStart(start) <= i /\ i <= QueryEnd(end)
<1> DEFINE Half == 2^(Bits - 1)
           Whole == 2^Bits
<1>1. /\ MaxIndex \in Nat /\ Half \in Nat /\ Whole \in Nat
      /\ MaxIndex + 1 < Half /\ MaxIndex + 2 < Whole
  BY RaftLogAssumption, BitsAssumption
<1>2. /\ start.at \in 0..MaxIndex + 1 /\ end.at \in 0..MaxIndex + 1
      /\ start.kind \in {"included", "excluded", "unbounded"}
      /\ end.kind \in {"included", "excluded", "unbounded"}
  BY DEF Bound
<1> HIDE DEF Half, Whole
<1>3. ASSUME NEW n \in 0..Whole - 1
      PROVE  n % Whole = n
  BY <1>1, <1>3
<1>4. \A i \in Index : QueryStart(start) <= i <=>
        /\ start.kind = "included" => start.at <= i
        /\ start.kind = "excluded" => start.at < i
  <2>1. CASE start.kind = "included"
    <3>1. QueryStart(start) = start.at
      BY <2>1 DEF QueryStart
    <3>2. start.kind # "excluded"
      BY <2>1
    <3> QED
      BY <1>1, <1>2, <2>1, <3>1, <3>2 DEF Index
  <2>2. CASE start.kind = "excluded"
    <3>1. start.at + 1 \in 0..Whole - 1
      BY <1>1, <1>2
    <3>2. QueryStart(start) = start.at + 1
      <4>1. QueryStart(start) = (start.at + 1) % Whole
        BY <2>2 DEF QueryStart, Whole
      <4> QED
        BY <1>3, <3>1, <4>1
    <3> QED
      BY <1>1, <1>2, <2>2, <3>2 DEF Index
  <2>3. CASE start.kind = "unbounded"
    BY <2>3 DEF QueryStart, Index
  <2> QED
    BY <1>2, <2>1, <2>2, <2>3
<1>5. \A i \in Index : i <= QueryEnd(end) <=>
        /\ end.kind = "included" => i <= end.at
        /\ end.kind = "excluded" => i < end.at
  <2>1. CASE end.kind = "included"
    BY <2>1 DEF QueryEnd
  <2>2. CASE end.kind = "excluded"
    <3>1. PICK i \in 0..MaxIndex + 1 : i < end.at
      BY <2>2 DEF InRange
    <3>2. end.at - 1 \in 0..Whole - 1
      BY <1>1, <1>2, <3>1
    <3>3. QueryEnd(end) = end.at - 1
      <4>1. QueryEnd(end) = (end.at - 1) % Whole
        BY <2>2 DEF QueryEnd, Whole
      <4> QED
        BY <1>3, <3>2, <4>1
    <3> QED
      BY <1>1, <1>2, <2>2, <3>3 DEF Index
  <2>3. CASE end.kind = "unbounded"
    <3>1. QueryEnd(end) = Half - 1
      BY <2>3 DEF QueryEnd, Half
    <3> QED
      BY <1>1, <2>3, <3>1 DEF Index
  <2> QED
    BY <1>2, <2>1, <2>2, <2>3
<1>6. \A i \in Index : i \in 0..MaxIndex + 1
  BY <1>1 DEF Index
<1> QED
  BY <1>4, <1>5, <1>6 DEF InRange

LEMMA AgreeingReads == TypeOK /\ AgreesWithRaft => ReadsExact
<1> SUFFICES ASSUME TypeOK, AgreesWithRaft, CanCall,
                    NEW start \in Bound, NEW end \in Bound,
                    InRange(start, end) # {},
                    \A i \in InRange(start, end) : i > raft.purged
             PROVE  LogsQuery(start, end)
                      = {i \in InRange(start, end) \cap Index : raft.log[i] # NoRow}
  BY DEF ReadsExact
<1>1. Live(logs, purged) = raft.log /\ purged = raft.purged
  BY DEF AgreesWithRaft
<1>2. \A i \in Index : i > purged => raft.log[i] = logs[i]
  <2> TAKE i \in Index
  <2>1. raft.log[i] = IF i <= purged THEN NoRow ELSE logs[i]
    BY <1>1 DEF Live
  <2>2. i \in Int /\ purged \in Int
    BY RaftLogAssumption DEF TypeOK, Index, None
  <2> QED
    BY <2>1, <2>2
<1>3. \A i \in InRange(start, end) \cap Index : raft.log[i] = logs[i]
  BY <1>1, <1>2
<1> QED
  BY <1>3, QueryFacts DEF LogsQuery

\* try_get_log_entries answers exactly the entries of the range that openraft
\* has, for every kind of bounds and every width of the index.
THEOREM ReadsAreExact == ReadSpec => []ReadsExact
<1>1. Spec => []ReadsExact
  BY TypeCorrect, StoreAgreesWithRaft, AgreeingReads, PTL
<1> QED
  BY <1>1, ReadSpecIsSpec, PTL

-----------------------------------------------------------------------------
LEMMA LargestExists ==
    ASSUME NEW n \in Nat, NEW S \in SUBSET (0..n), S # {}
    PROVE  Max(S) \in S /\ \A y \in S : Max(S) >= y
<1> DEFINE T == {n - x : x \in S}
<1>1. T \subseteq Nat /\ T # {}
  <2>1. \A x \in S : n - x \in Nat
    OBVIOUS
  <2>2. PICK x \in S : TRUE
    OBVIOUS
  <2> QED
    BY <2>1, <2>2
<1>2. PICK t \in T : \A u \in T : ~(<<u, t>> \in OpToRel(<, Nat))
  BY <1>1, NatLessThanWellFounded, WFMin, Zenon
<1>3. \A u \in T : ~(u < t)
  BY <1>1, <1>2 DEF OpToRel
<1>4. PICK x \in S : t = n - x
  OBVIOUS
<1>5. \A y \in S : x >= y
  <2> TAKE y \in S
  <2>1. ~(n - y < n - x)
    BY <1>3, <1>4
  <2> QED
    BY <2>1
<1> QED
  BY <1>5 DEF Max

LEMMA LargestRowid ==
    ASSUME NEW rows, NEW ids, Ordered(rows, ids)
    PROVE  LET largest == Max({ids[i] : i \in Index})
           IN  /\ largest \in Nat /\ \A i \in Index : ids[i] <= largest
               /\ \E i \in Index : ids[i] = largest
<1> DEFINE S == {ids[i] : i \in Index}
<1>1. MaxIndex \in Nat
  BY RaftLogAssumption
<1>2. S \in SUBSET (0..MaxIndex + 1) /\ S # {}
  BY <1>1 DEF Ordered, Index
<1>3. Max(S) \in S /\ \A y \in S : Max(S) >= y
  <2>1. MaxIndex + 1 \in Nat
    BY <1>1
  <2> HIDE DEF S
  <2> QED
    BY <1>2, <2>1, LargestExists
<1>4. Max(S) \in Nat
  BY <1>1, <1>2, <1>3
<1>5. \A i \in Index : ids[i] \in S
  OBVIOUS
<1>6. \A i \in Index : ids[i] \in Nat
  BY <1>1 DEF Ordered
<1>7. \A i \in Index : ids[i] <= Max(S)
  BY <1>3, <1>4, <1>5, <1>6
<1>8. \E i \in Index : ids[i] = Max(S)
  BY <1>3
<1> QED
  BY <1>4, <1>7, <1>8

\* A step that only deletes rows.
LEMMA DeletedRows ==
    ASSUME RowidInv, Rowids, UNCHANGED durable,
           \A i \in Index : logs'[i] \in {logs[i], NoRow}
    PROVE  RowidInv'
<1>1. \A i \in Index : rowid'[i] = IF logs'[i] = NoRow THEN 0 ELSE rowid[i]
  BY DEF Rowids
<1>2. Ordered(logs', rowid')
  BY <1>1 DEF RowidInv, Ordered, Index
<1> QED
  BY <1>2 DEF RowidInv, Rowids

\* append_to_log puts its row behind all others.
LEMMA AppendedRow ==
    ASSUME IInv, RowidInv, AppendRow, Rowids
    PROVE  RowidInv'
<1> DEFINE largest == Max({rowid[i] : i \in Index})
<1>1. /\ up /\ op.kind = "append" /\ logs' = [logs EXCEPT ![op.at] = Head(op.todo)]
      /\ UNCHANGED durable
  BY DEF AppendRow
<1>2. /\ logs \in [Index -> Row] /\ purged \in Index \cup {None} /\ MaxIndex \in Nat
      /\ op.at \in Index \cup {None}
  BY RaftLogAssumption DEF IInv, TypeOK
<1>3. op.at > purged /\ op.at \in Index /\ op.todo \in Batch
  BY <1>1, <1>2 DEF IInv, OpSound, None, Index
<1>4. Head(op.todo) # NoRow
  <2>1. op.todo \in Seq(LeaderIds) /\ Len(op.todo) \in Nat \ {0} /\ op.todo[1] \in LeaderIds
    BY <1>3, BatchIsSeq
  <2> QED
    BY <2>1, RaftLogAssumption
<1>5. \A i \in Index : logs[i] # NoRow => i < op.at
  <2> TAKE i \in Index
  <2> HAVE logs[i] # NoRow
  <2>1. CASE i > purged
    BY <1>1, <1>2, <1>3, <2>1 DEF IInv, Tracked, Written, Index
  <2>2. CASE ~(i > purged)
    BY <1>2, <1>3, <2>2 DEF Index, None
  <2> QED
    BY <2>1, <2>2
<1>6. /\ largest \in Nat /\ \A i \in Index : rowid[i] <= largest
      /\ \E i \in Index : rowid[i] = largest
  BY LargestRowid DEF RowidInv
<1>7. largest <= op.at
  <2>1. PICK i \in Index : rowid[i] = largest
    BY <1>6
  <2>2. rowid[i] \in 0..i + 1 /\ (rowid[i] = 0 <=> logs[i] = NoRow)
    BY DEF RowidInv, Ordered
  <2> HIDE DEF largest
  <2>3. CASE logs[i] = NoRow
    BY <1>3, <2>1, <2>2, <2>3 DEF Index
  <2>4. CASE logs[i] # NoRow
    <3>1. i < op.at
      BY <1>5, <2>4
    <3> QED
      BY <1>3, <2>1, <2>2, <3>1 DEF Index
  <2> QED
    BY <2>3, <2>4
<1>8. /\ rowid'[op.at] = largest + 1 /\ logs'[op.at] # NoRow
      /\ \A i \in Index \ {op.at} : logs'[i] = logs[i]
  BY <1>1, <1>2, <1>3, <1>4, <1>5 DEF Rowids, Index
<1>9. \A i \in Index \ {op.at} : rowid'[i] = rowid[i]
  BY <1>8 DEF Rowids, RowidInv, Ordered
<1> HIDE DEF largest
<1>10. \A i \in Index : rowid[i] \in 0..i + 1 /\ (rowid[i] = 0 <=> logs[i] = NoRow)
  BY DEF RowidInv, Ordered
<1>11. \A i \in Index : /\ rowid'[i] \in 0..i + 1
                        /\ rowid'[i] = 0 <=> logs'[i] = NoRow
  <2> TAKE i \in Index
  <2>1. CASE i = op.at
    BY <1>2, <1>3, <1>6, <1>7, <1>8, <2>1 DEF Index
  <2>2. CASE i # op.at
    BY <1>8, <1>9, <1>10, <2>2
  <2> QED
    BY <2>1, <2>2
<1>12. \A i, j \in Index :
         i < j /\ logs'[i] # NoRow /\ logs'[j] # NoRow => rowid'[i] < rowid'[j]
  <2> TAKE i, j \in Index
  <2> HAVE i < j /\ logs'[i] # NoRow /\ logs'[j] # NoRow
  <2>1. CASE i = op.at
    BY <1>2, <1>5, <1>8, <2>1 DEF Index
  <2>2. CASE i # op.at /\ j = op.at
    BY <1>6, <1>8, <1>9, <1>10, <2>2 DEF Index
  <2>3. CASE i # op.at /\ j # op.at
    BY <1>8, <1>9, <2>3 DEF RowidInv, Ordered
  <2> QED
    BY <2>1, <2>2, <2>3
<1> QED
  BY <1>1, <1>11, <1>12 DEF RowidInv, Ordered, Rowids

LEMMA ReadNextKeepsOrder == IInv /\ RowidInv /\ [ReadNext]_readVars => RowidInv'
<1> SUFFICES ASSUME IInv, RowidInv, [ReadNext]_readVars
             PROVE  RowidInv'
  OBVIOUS
<1>1. CASE AppendRow /\ Rowids
  BY <1>1, AppendedRow
<1>2. ASSUME Rowids, UNCHANGED <<logs, durable>>
      PROVE  RowidInv'
  BY <1>2, DeletedRows
<1>3. ASSUME NEW v \in 1..MaxVote, SaveVote(v), Rowids
      PROVE  RowidInv'
  BY <1>2, <1>3 DEF SaveVote
<1>4. ASSUME NEW entries \in Batch, AppendToLog(entries), Rowids
      PROVE  RowidInv'
  BY <1>2, <1>4 DEF AppendToLog
<1>5. ASSUME NEW i \in Index, DeleteConflictLogsSince(i), Rowids
      PROVE  RowidInv'
  BY <1>5, DeletedRows DEF DeleteConflictLogsSince
<1>6. ASSUME NEW i \in Index, PurgeLogsUpto(i), Rowids
      PROVE  RowidInv'
  BY <1>2, <1>6 DEF PurgeLogsUpto
<1>7. CASE PurgeRows /\ Rowids
  BY <1>7, DeletedRows DEF PurgeRows, Live
<1>8. CASE (Crash \/ Open) /\ Rowids
  BY <1>2, <1>8 DEF Crash, Open
<1>9. CASE Checkpoint /\ durableRowid' = rowid /\ UNCHANGED rowid
  <2>1. logs' = logs /\ durable'.logs = logs
    BY <1>9 DEF Checkpoint, Committed
  <2> QED
    BY <1>9, <2>1 DEF RowidInv, Ordered
<1>10. CASE PowerLoss /\ rowid' = durableRowid /\ UNCHANGED durableRowid
  BY <1>10 DEF PowerLoss, RowidInv, Ordered
<1>11. CASE UNCHANGED readVars
  BY <1>11 DEF readVars, vars, RowidInv, Ordered
<1> QED
  BY <1>1, <1>3, <1>4, <1>5, <1>6, <1>7, <1>8, <1>9, <1>10, <1>11 DEF ReadNext

\* The rows of replicat_raft_logs come in the order of their indexes although
\* logs_query has no ORDER BY, whichever way SQLite goes through them.
THEOREM ScansAreOrdered == ReadSpec => []ScanInOrder
<1>1. ReadInit => RowidInv
  BY RaftLogAssumption DEF ReadInit, Init, NoRowid, Committed, RowidInv, Ordered, Index
<1>2. ReadSpec => []IInv
  BY ReadSpecIsSpec, SpecKeepsIInv, PTL
<1>3. RowidInv => ScanInOrder
  BY DEF RowidInv, Ordered, ScanInOrder
<1> QED
  BY <1>1, <1>2, <1>3, ReadNextKeepsOrder, PTL DEF ReadSpec
=============================================================================
