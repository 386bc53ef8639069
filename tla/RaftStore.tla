----------------------------- MODULE RaftStore -----------------------------
(***************************************************************************)
(* RaftStore as openraft uses it (src/src/storage/raft.rs): the log store  *)
(* and the state machine store of one node together.  The log is what      *)
(* PersistentLog promises, which RaftLog implements; the state machine is  *)
(* StateMachine, await by await.  openraft's core makes one store call at  *)
(* a time: it reads the entries that it applies from the log, and purges   *)
(* the log up to the last snapshot.  After a crash the log is there, and   *)
(* what the state lost must be applied again from it.                      *)
(*                                                                         *)
(* Entry i of StateMachine is the entry at index i - 1 of the log.  Only   *)
(* committed entries are in the log, so nothing is truncated.              *)
(***************************************************************************)
EXTENDS StateMachine

CONSTANTS Leader, NoRow

ASSUME StoreAssumption == Leader # NoRow

VARIABLES
    entries, purged, vote, synced,  \* the log store, see PersistentLog
    snapshotLast                    \* openraft's last log id of its snapshot

logStore == <<entries, purged, vote, synced>>
storeVars == <<vars, logStore, snapshotLast>>

Log == INSTANCE PersistentLog WITH
         MaxIndex <- MaxIndex - 1, LeaderIds <- {Leader}, MaxVote <- 0,
         PowerLossPossible <- FALSE

InLog(i) == entries[i - 1] # NoRow

StoreInit == Init /\ Log!Init /\ snapshotLast = 0

-----------------------------------------------------------------------------
AppendToLog(i) ==
    /\ core = CoreIdle
    /\ Log!AppendEntry(i - 1, Leader)
    /\ UNCHANGED <<vars, snapshotLast>>

\* openraft keeps as many entries behind the snapshot as it is configured to.
PurgeLogsUpto(i) ==
    /\ core = CoreIdle
    /\ i <= snapshotLast
    /\ Log!PurgeUpto(i - 1)
    /\ UNCHANGED <<vars, snapshotLast>>

\* The entries to apply are read first.  If one is missing in front of others,
\* openraft's core stops, which to the store is a Crash.
Apply(n) ==
    /\ ApplyBegin(n)
    /\ \A i \in applied + 1 .. n : InLog(i)
    /\ UNCHANGED <<logStore, snapshotLast>>

FinishBuild ==
    /\ WriteEnd
    /\ snapshotLast' = builder.meta.last
    /\ UNCHANGED logStore

FinishInstall ==
    /\ InstallMeta
    /\ snapshotLast' = core.meta.last
    /\ UNCHANGED logStore

\* At the start openraft asks for the current snapshot.
Reopen ==
    /\ Restart
    /\ snapshotLast' = IF snapshotFile = NoFile THEN 0 ELSE file.meta.last
    /\ UNCHANGED logStore

\* The steps of StateMachine in which the log plays no part.
MachineStep ==
    /\ \/ ApplyStep \/ CurrentStep \/ BuildSpawn \/ Crash
       \/ InstallRefused \/ \E s \in Sent : InstallLoad(s)
       \/ BuildStep /\ builder.pc # "sync"
    /\ UNCHANGED <<logStore, snapshotLast>>

StoreNext ==
    \/ \E i \in Index : AppendToLog(i) \/ PurgeLogsUpto(i) \/ Apply(i)
    \/ FinishBuild \/ FinishInstall \/ Reopen \/ MachineStep

StoreSpec == StoreInit /\ [][StoreNext]_storeVars

\* The tasks keep running, and whoever operates the node starts it again when
\* it has stopped.  openraft's core takes its messages in turn, so it is not
\* kept from applying by requests for the current snapshot.  Nothing is
\* assumed of crashes, appends, builds or purges.
StoreFairSpec ==
    /\ StoreSpec
    /\ SF_storeVars(\E n \in Index : Apply(n))
    /\ WF_storeVars(MachineStep /\ (ApplyStep \/ CurrentFile))
    /\ WF_storeVars(Reopen)

-----------------------------------------------------------------------------
\* Whenever the process stops, what a restart finds applied and what the log
\* still holds are together everything that was appended: "the Raft log can
\* re-create the state that was last applied to it" (raft.rs:244).
LogRecreatesState == purged + 1 <= file.applied

\* Once the process crashes no more, every entry that is in the log is applied,
\* also when the applied mark was lost, the log was purged in the meantime and
\* an entry's SQL is refused.
LoggedIsApplied ==
    <>[][~Crash]_storeVars =>
        \A n \in Index : InLog(n) ~> n <= applied
=============================================================================
