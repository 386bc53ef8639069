-------------------------- MODULE RaftStoreProofs --------------------------
(***************************************************************************)
(* Theorems about RaftStore: what is proved of the state machine alone     *)
(* holds when it is driven from a log that is purged, and on disk the log  *)
(* and the state together lose nothing.                                    *)
(***************************************************************************)
EXTENDS RaftStore, StateMachineProofs

LEMMA StoreStepIsStep == [StoreNext]_storeVars => [Next]_vars
<1> SUFFICES ASSUME [StoreNext]_storeVars PROVE [Next]_vars
  OBVIOUS
<1>1. ASSUME NEW i \in Index, AppendToLog(i) \/ PurgeLogsUpto(i)
      PROVE  UNCHANGED vars
  BY <1>1 DEF AppendToLog, PurgeLogsUpto
<1>2. ASSUME NEW i \in Index, Apply(i) PROVE Next
  BY <1>2 DEF Apply, Next
<1>3. CASE FinishBuild
  BY <1>3 DEF FinishBuild, Next, BuildStep
<1>4. CASE FinishInstall
  BY <1>4 DEF FinishInstall, Next, InstallStep
<1>5. CASE Reopen
  BY <1>5 DEF Reopen, Next
<1>6. CASE MachineStep
  BY <1>6 DEF MachineStep, Next, InstallStep
<1>7. CASE UNCHANGED storeVars
  BY <1>7 DEF storeVars
<1> QED
  BY <1>1, <1>2, <1>3, <1>4, <1>5, <1>6, <1>7 DEF StoreNext

\* The composed store implements the state machine: the log only restricts
\* when apply_to_state_machine is called, and with what.
THEOREM StoreImplementsMachine == StoreSpec => Spec
<1>1. StoreInit => Init
  BY DEF StoreInit
<1> QED
  BY <1>1, StoreStepIsStep, PTL DEF StoreSpec, Spec

-----------------------------------------------------------------------------
\* On disk the applied row only rises, and the meta row stays behind it.
MetaBehind == db.meta.last <= db.applied

LEMMA MachineKeepsApplied ==
    ASSUME Sent = {}, Store = "disk", Typed, RowsSound, DiskInv, MetaBehind,
           [Next]_vars
    PROVE  file'.applied >= file.applied /\ MetaBehind'
<1>0. /\ attached /\ file = db /\ core.pc # "loaded"
      /\ db.applied \in Int /\ db.meta.last \in Int /\ core.at \in Int
      /\ db.meta.last <= db.applied
  BY StateMachineAssumption
     DEF DiskInv, RowsSound, Typed, TypeOK, Core, Db, Meta, Mark, MetaBehind
<1>1. CASE SetAppliedRow
  <2>1. core.at = db.applied + 1
    BY <1>0, <1>1, SetAppliedRowEffect DEF DiskInv
  <2>2. db'.applied = core.at /\ db'.meta = db.meta /\ file' = db'
    BY <1>0, <1>1, SetAppliedRowEffect
  <2> QED
    BY <1>0, <2>1, <2>2 DEF MetaBehind
<1>2. CASE ApplyBlank \/ Execute \/ SetMembershipMem \/ SetMembershipRow
  <2>1. db'.applied = db.applied /\ db'.meta = db.meta /\ file'.applied = db.applied
    BY <1>0, <1>2, EntryEffect, SetMembershipRowEffect
  <2> QED
    BY <1>0, <2>1 DEF MetaBehind
<1>3. CASE WriteSnapshotMeta
  <2>1. builder.meta.last <= db.applied
    BY <1>3 DEF WriteSnapshotMeta, DiskInv
  <2>2. db'.applied = db.applied /\ db'.meta = builder.meta /\ file' = db'
    <3>1. db \in Db /\ builder.meta \in Meta
      BY TypeFacts DEF Typed
    <3>2. db' = [db EXCEPT !.meta = builder.meta] /\ file' = db'
      BY <1>0, <1>3 DEF WriteSnapshotMeta, Commit
    <3> QED
      BY <3>1, <3>2, DbSetMeta
  <2> QED
    BY <1>0, <2>1, <2>2 DEF MetaBehind
<1>4. CASE Restart \/ Crash
  <2>1. db' = file /\ file' = file
    BY <1>4 DEF Restart, Crash
  <2> QED
    BY <1>0, <2>1 DEF MetaBehind
<1>5. CASE \/ BuildSpawn \/ ReadApplied \/ ReadMembership \/ IncSnapshotIndex
           \/ InsertSnapshotIndex \/ Serialize \/ WriteBegin \/ WriteEnd
           \/ SetAppliedMem \/ ExecuteRejected \/ InstallRefused
           \/ CurrentMeta \/ CurrentFile
           \/ \E n \in Index : ApplyBegin(n)
           \/ UNCHANGED vars
  <2>1. UNCHANGED <<db, file>>
    BY <1>5 DEF BuildSpawn, ReadApplied, ReadMembership, IncSnapshotIndex,
       InsertSnapshotIndex, Serialize, WriteBegin, WriteEnd, SetAppliedMem,
       ExecuteRejected, InstallRefused, CurrentMeta, CurrentFile, ApplyBegin,
       vars, state
  <2> QED
    BY <1>0, <2>1 DEF MetaBehind
<1>6. ~InstallMeta /\ \A s \in Sent : ~InstallLoad(s)
  BY <1>0 DEF InstallMeta
<1> QED
  BY <1>1, <1>2, <1>3, <1>4, <1>5, <1>6
     DEF Next, ApplyStep, InstallStep, CurrentStep, BuildStep

\* The log is purged no further than a snapshot, and no snapshot that openraft
\* knows of is ahead of what is on disk.
StoreInv ==
    /\ MetaBehind
    /\ purged \in Int
    /\ snapshotLast \in Int
    /\ purged + 1 <= file.applied
    /\ snapshotLast <= file.applied

LEMMA NextKeepsStoreInv ==
    ASSUME Sent = {}, Store = "disk", IInv, DiskInv, StoreInv,
           [StoreNext]_storeVars
    PROVE  StoreInv'
<1>0. Typed /\ RowsSound
  BY DEF IInv
<1>01. /\ attached /\ file = db /\ file.applied \in Int /\ 0 <= file.applied
       /\ db.meta.last \in Int /\ db.meta.last <= db.applied
       /\ core.pc # "loaded"
  BY <1>0, StateMachineAssumption
     DEF DiskInv, RowsSound, Typed, TypeOK, Db, Meta, Mark, StoreInv, MetaBehind
<1>1. file'.applied >= file.applied /\ MetaBehind'
  BY <1>0, MachineKeepsApplied, StoreStepIsStep DEF StoreInv
<1>2. file'.applied \in Int
  <2>1. Typed'
    BY <1>0, NextKeepsTyped, StoreStepIsStep
  <2> QED
    BY <2>1, StateMachineAssumption DEF Typed, TypeOK, Db, Mark
<1>3. CASE UNCHANGED <<purged, snapshotLast>>
  BY <1>01, <1>1, <1>2, <1>3 DEF StoreInv
<1>4. ASSUME NEW i \in Index, PurgeLogsUpto(i)
      PROVE  StoreInv'
  <2>1. purged' = i - 1 /\ i \in Int /\ i <= snapshotLast
    BY <1>4, StateMachineAssumption DEF PurgeLogsUpto, Log!PurgeUpto, Index
  <2>2. UNCHANGED <<file, snapshotLast>>
    BY <1>4 DEF PurgeLogsUpto, vars, state
  <2> QED
    BY <1>01, <1>1, <2>1, <2>2 DEF StoreInv
<1>5. CASE FinishBuild
  <2>1. builder.meta.last <= db.applied /\ builder.meta.last \in Int
    BY <1>0, <1>5, TypeFacts DEF FinishBuild, WriteEnd, DiskInv, Typed
  <2>2. snapshotLast' = builder.meta.last /\ purged' = purged
    BY <1>5 DEF FinishBuild, logStore
  <2> QED
    BY <1>01, <1>1, <1>2, <2>1, <2>2 DEF StoreInv
<1>6. CASE Reopen
  <2>1. snapshotLast' \in {0, db.meta.last} /\ purged' = purged
    BY <1>01, <1>6 DEF Reopen, logStore
  <2> QED
    BY <1>01, <1>1, <1>2, <2>1 DEF StoreInv
<1>7. ~FinishInstall
  BY <1>01 DEF FinishInstall, InstallMeta
<1>8. ASSUME NEW i \in Index, AppendToLog(i) \/ Apply(i)
      PROVE  UNCHANGED <<purged, snapshotLast>>
  BY <1>8 DEF AppendToLog, Apply, Log!AppendEntry, logStore
<1>9. CASE MachineStep \/ UNCHANGED storeVars
  BY <1>3, <1>9 DEF MachineStep, storeVars, logStore
<1> QED
  BY <1>3, <1>4, <1>5, <1>6, <1>7, <1>8, <1>9 DEF StoreNext

\* On disk and without installs, what a restart finds applied and what is left
\* of the log are together everything: nothing is purged that is not applied.
THEOREM LogAndDiskSuffice ==
    ASSUME Sent = {}, Store = "disk"
    PROVE  StoreSpec => []LogRecreatesState
<1>1. StoreInit => StoreInv /\ DiskInv
  <2> SUFFICES ASSUME StoreInit PROVE StoreInv /\ DiskInv
    OBVIOUS
  <2>1. file.applied = 0 /\ db.applied = 0 /\ db.meta.last = 0
    BY DEF StoreInit, Init, EmptyDb, NoMeta
  <2>2. purged = -1 /\ snapshotLast = 0
    BY DEF StoreInit, Log!Init, Log!None
  <2>3. DiskInv
    BY DiskInvAtFirst DEF StoreInit
  <2> QED
    BY <2>1, <2>2, <2>3 DEF StoreInv, MetaBehind
<1>2. IInv /\ DiskInv /\ [Next]_vars => DiskInv'
  BY NextKeepsDiskInv DEF IInv
<1>3. IInv /\ DiskInv /\ StoreInv /\ [StoreNext]_storeVars => StoreInv'
  BY NextKeepsStoreInv
<1>4. StoreInv => LogRecreatesState
  BY DEF StoreInv, LogRecreatesState
<1> QED
  BY <1>1, <1>2, <1>3, <1>4, StoreStepIsStep, StoreImplementsMachine,
     SpecKeepsIInv, PTL DEF StoreSpec
=============================================================================
