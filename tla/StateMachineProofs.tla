------------------------- MODULE StateMachineProofs -------------------------
(***************************************************************************)
(* Theorems about StateMachine for every log, store and bound, and for any *)
(* snapshots that leaders send.                                            *)
(*                                                                         *)
(* The first lemmas say what each step does to each variable.  The         *)
(* invariants behind them are proved one after the other, each from those  *)
(* effects and the invariants before it.                                   *)
(***************************************************************************)
EXTENDS StateMachine, WellFoundedInduction, TLAPS

\* The steps core takes inside apply_to_state_machine.
Applying == {"entry", "row", "blank", "normal", "membership", "memb"}

\* Where core stands in apply_to_state_machine and in install_snapshot.
CoreSound ==
    /\ core.pc \in Applying =>
         core.at \in Index /\ core.upto \in Index /\ core.at <= core.upto
    /\ core.pc \in {"blank", "normal", "membership", "memb"} =>
         Payload[core.at] = IF core.pc = "memb" THEN "membership" ELSE core.pc
    /\ core.pc = "idle" => core = CoreIdle
    /\ core.pc = "loaded" => /\ builder = BuilderIdle
                             /\ core.meta = installed.meta
                             /\ applied < installed.meta.last

Typed == TypeOK /\ CoreSound

-----------------------------------------------------------------------------
LEMMA IdleTyped ==
    /\ NoMeta \in Meta
    /\ EmptyDb \in Db
    /\ NoSnapshot \in Snapshot
    /\ CoreIdle \in Core
    /\ CoreIdle.pc = "idle"
    /\ BuilderIdle \in Builder
    /\ BuilderIdle.pc = "idle"
    /\ NoSnapshot.meta.last = 0
    /\ NoSnapshot.image = EmptyDb
    /\ EmptyDb.applied = 0
    /\ \A i \in Index : EmptyDb.rows[i] = 0
<1>1. 0 \in Mark
  BY StateMachineAssumption DEF Mark
<1>2. NoMeta \in Meta
  BY <1>1 DEF NoMeta, Meta
<1>3. EmptyDb \in Db
  BY <1>1, <1>2 DEF EmptyDb, Db
<1> QED
  BY <1>1, <1>2, <1>3
     DEF CoreIdle, Core, BuilderIdle, Builder, EmptyDb, NoMeta, NoSnapshot, Snapshot

LEMMA TypeFacts ==
    ASSUME TypeOK
    PROVE  /\ MaxIndex \in Nat
           /\ Mark = 0..MaxIndex
           /\ Index = 1..MaxIndex
           /\ core \in Core
           /\ builder \in Builder
           /\ builder.meta \in Meta
           /\ db \in Db
           /\ file \in Db
           /\ installed.meta \in Meta
           /\ installed.image \in Db
           /\ applied \in 0..MaxIndex
           /\ lastApplied \in 0..MaxIndex
           /\ db.applied \in 0..MaxIndex
           /\ file.applied \in 0..MaxIndex
           /\ core.at \in 0..MaxIndex
           /\ core.upto \in 0..MaxIndex
           /\ builder.meta.last \in 0..MaxIndex
           /\ installed.meta.last \in 0..MaxIndex
           /\ db.rows \in [Index -> Nat]
           /\ file.rows \in [Index -> Nat]
           /\ installed.image.rows \in [Index -> Nat]
BY StateMachineAssumption
   DEF TypeOK, Db, Core, Builder, Meta, Mark, Index, Snapshot

LEMMA DbSetApplied ==
    ASSUME NEW d \in Db, NEW m \in Mark, NEW e, e = [d EXCEPT !.applied = m]
    PROVE  e \in Db /\ e.applied = m /\ e.rows = d.rows /\ e.meta = d.meta
BY DEF Db

LEMMA DbSetMemb ==
    ASSUME NEW d \in Db, NEW m \in Mark, NEW e, e = [d EXCEPT !.memb = m]
    PROVE  e \in Db /\ e.applied = d.applied /\ e.rows = d.rows /\ e.meta = d.meta
BY DEF Db

LEMMA DbSetMeta ==
    ASSUME NEW d \in Db, NEW m \in Meta, NEW e, e = [d EXCEPT !.meta = m]
    PROVE  e \in Db /\ e.applied = d.applied /\ e.rows = d.rows /\ e.meta = m
BY DEF Db

-----------------------------------------------------------------------------
LEMMA ApplyBeginEffect ==
    ASSUME Typed, NEW n \in Index, ApplyBegin(n)
    PROVE  /\ core.pc = "idle"
           /\ core' \in Core /\ core'.pc = "entry" /\ core'.upto = n
           /\ core'.at = applied + 1 /\ core'.at \in Index /\ core'.at <= n
           /\ UNCHANGED <<db, file, attached, installed, lastApplied,
                          lastMembership, snapshotFile, snapshotIndex, applied,
                          builder, built>>
<1>1. core.pc = "idle" /\ applied < n
  BY IdleTyped DEF ApplyBegin
<1>2. /\ applied + 1 \in Mark /\ n \in Mark
      /\ applied + 1 \in Index /\ applied + 1 <= n
  <2>1. applied \in 0..MaxIndex
    BY TypeFacts DEF Typed
  <2> QED
    BY <1>1, <2>1, StateMachineAssumption DEF Mark, Index
<1>3. core' \in Core /\ core'.pc = "entry" /\ core'.at = applied + 1 /\ core'.upto = n
  BY <1>2, TypeFacts DEF Typed, ApplyBegin, Core
<1> QED
  BY <1>1, <1>2, <1>3 DEF ApplyBegin, state, memory, snapshots

LEMMA SetAppliedRowEffect ==
    ASSUME Typed, SetAppliedRow
    PROVE  /\ core.pc = "entry" /\ core.at \in Index
           /\ core' \in Core /\ core'.pc = "row"
           /\ core'.at = core.at /\ core'.upto = core.upto
           /\ db' \in Db /\ file' \in Db
           /\ db'.applied = core.at /\ db'.rows = db.rows /\ db'.meta = db.meta
           /\ file' = IF attached THEN db' ELSE file
           /\ UNCHANGED <<attached, installed, lastApplied, lastMembership,
                          snapshotFile, snapshotIndex, applied, builder, built>>
<1>1. core.pc = "entry" /\ core.at \in Index /\ core.at \in Mark
  BY TypeFacts DEF SetAppliedRow, Typed, CoreSound, Applying
<1>2. /\ db' = [db EXCEPT !.applied = core.at]
      /\ file' = IF attached THEN db' ELSE file
  BY DEF SetAppliedRow, Commit
<1>3. /\ db' \in Db /\ db'.applied = core.at
      /\ db'.rows = db.rows /\ db'.meta = db.meta
  BY <1>1, <1>2, TypeFacts, DbSetApplied DEF Typed
<1>4. core' \in Core /\ core'.pc = "row" /\ core'.at = core.at /\ core'.upto = core.upto
  BY TypeFacts DEF SetAppliedRow, Typed, Core
<1> QED
  BY <1>1, <1>2, <1>3, <1>4, TypeFacts
     DEF Typed, SetAppliedRow, Commit, memory, snapshots

LEMMA SetAppliedMemEffect ==
    ASSUME Typed, SetAppliedMem
    PROVE  /\ core.pc = "row" /\ core.at \in Index
           /\ core' \in Core /\ core'.pc = Payload[core.at]
           /\ core'.pc \in {"blank", "normal", "membership"}
           /\ core'.at = core.at /\ core'.upto = core.upto
           /\ lastApplied' = core.at /\ lastApplied' \in Mark
           /\ UNCHANGED <<db, file, attached, installed, lastMembership,
                          snapshotFile, snapshotIndex, applied, builder, built>>
<1>1. core.pc = "row" /\ core.at \in Index /\ core.at \in Mark
  BY TypeFacts DEF SetAppliedMem, Typed, CoreSound, Applying
<1>2. /\ core' \in Core /\ core'.pc = Payload[core.at]
      /\ core'.pc \in {"blank", "normal", "membership"}
      /\ core'.at = core.at /\ core'.upto = core.upto
  BY <1>1, TypeFacts, StateMachineAssumption DEF SetAppliedMem, Typed, Core
<1> QED
  BY <1>1, <1>2 DEF SetAppliedMem, state, snapshots

\* What the end of the loop's body makes of core.
LEMMA EntryDoneEffect ==
    ASSUME Typed, core.pc \in Applying, EntryDone
    PROVE  /\ core' \in Core
           /\ applied' \in Mark
           /\ \/ /\ core' = CoreIdle
                 /\ core'.pc = "idle"
                 /\ applied' = core.at
              \/ /\ core'.pc = "entry"
                 /\ core'.at = core.at + 1 /\ core'.at \in Index
                 /\ core'.upto = core.upto /\ core'.at <= core.upto
                 /\ core'.at - 1 = core.at
                 /\ applied' = applied
<1>1. CASE core.at = core.upto
  BY <1>1, IdleTyped DEF EntryDone, Typed, TypeOK, Core
<1>2. CASE core.at # core.upto
  <2>1. core.at \in Index /\ core.upto \in Index /\ core.at <= core.upto
    BY DEF Typed, CoreSound
  <2>2. /\ core.at + 1 \in Mark /\ core.at + 1 \in Index
        /\ core.at + 1 <= core.upto /\ core.at + 1 - 1 = core.at
    BY <1>2, <2>1, StateMachineAssumption DEF Index, Mark
  <2>3. core \in Core /\ applied \in Mark
    BY DEF Typed, TypeOK
  <2>4. PICK m \in Mark : m = core.at + 1
    BY <2>2
  <2>5. /\ core' = [core EXCEPT !.pc = "entry", !.at = m]
        /\ applied' = applied
    BY <1>2, <2>4 DEF EntryDone
  <2>6. /\ core' \in Core /\ core'.pc = "entry"
        /\ core'.at = m /\ core'.upto = core.upto
    BY <2>3, <2>5 DEF Core
  <2>7. m \in Index /\ m <= core.upto /\ m - 1 = core.at
    BY <1>2, <2>1, <2>4, StateMachineAssumption DEF Index, Mark
  <2> QED
    BY <2>3, <2>4, <2>5, <2>6, <2>7
<1> QED
  BY <1>1, <1>2

\* The three ways an entry is done with: it has run if it is one that runs.
LEMMA EntryEffect ==
    ASSUME Typed, ApplyBlank \/ Execute \/ SetMembershipMem
    PROVE  /\ core.pc \in {"blank", "normal", "memb"} /\ core.at \in Index
           /\ EntryDone
           /\ db' \in Db /\ file' \in Db
           /\ db'.applied = db.applied /\ db'.meta = db.meta
           /\ db'.rows = IF Runs(core.at)
                         THEN [db.rows EXCEPT ![core.at] = @ + 1]
                         ELSE db.rows
           /\ \/ UNCHANGED <<db, file>>
              \/ file' = IF attached THEN db' ELSE file
           /\ lastMembership' = IF Payload[core.at] = "membership"
                                THEN core.at ELSE lastMembership
           /\ UNCHANGED <<attached, installed, lastApplied, snapshotFile,
                          snapshotIndex, builder, built>>
<1>1. /\ core.pc \in {"blank", "normal", "memb"} /\ core.at \in Index
      /\ EntryDone
  BY DEF ApplyBlank, Execute, SetMembershipMem, Typed, CoreSound, Applying
<1>2. CASE Execute
  <2>1. Runs(core.at) /\ Payload[core.at] # "membership"
    BY <1>2 DEF Execute, Runs, Typed, CoreSound
  <2>2. /\ db' = [db EXCEPT !.rows[core.at] = @ + 1]
        /\ file' = IF attached THEN db' ELSE file
    BY <1>2 DEF Execute, Commit
  <2>3. /\ db' \in Db /\ db'.applied = db.applied /\ db'.meta = db.meta
        /\ db'.rows = [db.rows EXCEPT ![core.at] = @ + 1]
    <3>1. db \in Db
      BY DEF Typed, TypeOK
    <3> QED
      BY <1>1, <2>2, <3>1 DEF Db
  <2> QED
    BY <1>1, <1>2, <2>1, <2>2, <2>3, TypeFacts
       DEF Execute, Commit, Typed, memory, snapshots
<1>3. CASE ApplyBlank
  <2>1. ~Runs(core.at) /\ Payload[core.at] # "membership"
    BY <1>3 DEF ApplyBlank, Runs, Typed, CoreSound
  <2> QED
    BY <1>1, <1>3, <2>1, TypeFacts DEF ApplyBlank, state, memory, snapshots, Typed
<1>4. CASE SetMembershipMem
  <2>1. ~Runs(core.at) /\ Payload[core.at] = "membership"
    BY <1>4 DEF SetMembershipMem, Runs, Typed, CoreSound
  <2> QED
    BY <1>1, <1>4, <2>1, TypeFacts DEF SetMembershipMem, state, snapshots, Typed
<1> QED
  BY <1>2, <1>3, <1>4

LEMMA ExecuteRejectedEffect ==
    ASSUME Typed, ExecuteRejected
    PROVE  /\ core.pc = "normal" /\ core.at \in Index /\ ~Runs(core.at)
           /\ core' \in Core /\ core'.pc = "fatal"
           /\ UNCHANGED <<db, file, attached, installed, lastApplied,
                          lastMembership, snapshotFile, snapshotIndex, applied,
                          builder, built>>
<1>1. core' \in Core /\ core'.pc = "fatal"
  BY IdleTyped DEF ExecuteRejected, Core
<1>2. core.pc = "normal" /\ core.at \in Index /\ ~Runs(core.at)
  BY DEF ExecuteRejected, Typed, CoreSound, Applying, Runs
<1> QED
  BY <1>1, <1>2 DEF ExecuteRejected, state, memory, snapshots

LEMMA SetMembershipRowEffect ==
    ASSUME Typed, SetMembershipRow
    PROVE  /\ core.pc = "membership" /\ core.at \in Index
           /\ core' \in Core /\ core'.pc = "memb"
           /\ core'.at = core.at /\ core'.upto = core.upto
           /\ db' \in Db /\ file' \in Db
           /\ db'.applied = db.applied /\ db'.rows = db.rows /\ db'.meta = db.meta
           /\ file' = IF attached THEN db' ELSE file
           /\ UNCHANGED <<attached, installed, lastApplied, lastMembership,
                          snapshotFile, snapshotIndex, applied, builder, built>>
<1>1. core.pc = "membership" /\ core.at \in Index /\ core.at \in Mark
  BY TypeFacts DEF SetMembershipRow, Typed, CoreSound, Applying
<1>2. /\ db' = [db EXCEPT !.memb = core.at]
      /\ file' = IF attached THEN db' ELSE file
  BY DEF SetMembershipRow, Commit
<1>3. /\ db' \in Db /\ db'.applied = db.applied
      /\ db'.rows = db.rows /\ db'.meta = db.meta
  BY <1>1, <1>2, TypeFacts, DbSetMemb DEF Typed
<1>4. core' \in Core /\ core'.pc = "memb" /\ core'.at = core.at /\ core'.upto = core.upto
  BY TypeFacts DEF SetMembershipRow, Typed, Core
<1> QED
  BY <1>1, <1>2, <1>3, <1>4, TypeFacts
     DEF Typed, SetMembershipRow, Commit, memory, snapshots

LEMMA InstallLoadEffect ==
    ASSUME Typed, NEW s \in Sent, InstallLoad(s)
    PROVE  /\ core.pc = "idle" /\ applied < s.meta.last
           /\ s \in Snapshot /\ s.image \in Db
           /\ core' \in Core /\ core'.pc = "loaded" /\ core'.meta = s.meta
           /\ db' = s.image /\ attached' = FALSE /\ installed' = s
           /\ builder' = BuilderIdle /\ builder'.pc = "idle"
           /\ UNCHANGED <<file, lastApplied, lastMembership, snapshotFile,
                          snapshotIndex, applied, built>>
<1>1. s \in Snapshot /\ s.meta \in Meta /\ s.image \in Db
  BY StateMachineAssumption DEF Snapshot
<1>2. core' \in Core /\ core'.pc = "loaded" /\ core'.meta = s.meta
  BY <1>1, TypeFacts DEF InstallLoad, Load, Typed, Core
<1> QED
  BY <1>1, <1>2, IdleTyped DEF InstallLoad, Load, memory, snapshots

LEMMA InstallMetaEffect ==
    ASSUME Typed, InstallMeta
    PROVE  /\ core.pc = "loaded" /\ applied < installed.meta.last
           /\ core' = CoreIdle /\ core' \in Core /\ core'.pc = "idle"
           /\ applied' = installed.meta.last
           /\ db' \in Db /\ file' \in Db
           /\ db'.applied = db.applied /\ db'.rows = db.rows
           /\ file' = IF attached THEN db' ELSE file
           /\ builder = BuilderIdle /\ builder.pc = "idle"
           /\ UNCHANGED <<attached, installed, lastApplied, lastMembership,
                          snapshotFile, snapshotIndex, builder, built>>
<1>1. /\ core.pc = "loaded" /\ core.meta = installed.meta /\ builder = BuilderIdle
      /\ applied < installed.meta.last /\ core.meta \in Meta
  BY TypeFacts DEF InstallMeta, Typed, CoreSound
<1>2. /\ db' = [db EXCEPT !.meta = core.meta]
      /\ file' = IF attached THEN db' ELSE file
  BY DEF InstallMeta, Commit
<1>3. db' \in Db /\ db'.applied = db.applied /\ db'.rows = db.rows
  BY <1>1, <1>2, TypeFacts, DbSetMeta DEF Typed
<1> QED
  BY <1>1, <1>2, <1>3, IdleTyped, TypeFacts
     DEF InstallMeta, Commit, Typed, memory, snapshots

LEMMA InstallRefusedEffect ==
    ASSUME Typed, InstallRefused
    PROVE  /\ core.pc \in {"idle", "loaded"}
           /\ core' \in Core /\ core'.pc = "fatal"
           /\ builder' = BuilderIdle /\ builder'.pc = "idle"
           /\ UNCHANGED <<db, file, attached, installed, lastApplied,
                          lastMembership, snapshotFile, snapshotIndex, applied,
                          built>>
<1>1. core' \in Core /\ core'.pc = "fatal"
  BY IdleTyped DEF InstallRefused, Core
<1> QED
  BY <1>1, IdleTyped DEF InstallRefused, state, memory, snapshots

LEMMA CurrentEffect ==
    ASSUME Typed, CurrentMeta \/ CurrentFile
    PROVE  /\ core.pc \in {"idle", "current"}
           /\ core' \in Core /\ core'.pc \in {"idle", "current"}
           /\ core'.pc = "idle" => core' = CoreIdle
           /\ UNCHANGED <<db, file, attached, installed, lastApplied,
                          lastMembership, snapshotFile, snapshotIndex, applied,
                          builder, built>>
<1>1. CASE CurrentMeta
  <2>1. core' \in Core /\ core'.pc = "current" /\ core.pc = "idle"
    BY <1>1, IdleTyped, TypeFacts DEF CurrentMeta, Core, Db, Typed
  <2> QED
    BY <1>1, <2>1 DEF CurrentMeta, state, memory, snapshots
<1>2. CASE CurrentFile
  BY <1>2, IdleTyped DEF CurrentFile, state, memory, snapshots
<1> QED
  BY <1>1, <1>2

LEMMA CrashEffect ==
    ASSUME Typed, Crash
    PROVE  /\ core' \in Core /\ core'.pc = "down"
           /\ builder' = BuilderIdle /\ builder'.pc = "idle"
           /\ db' = file /\ installed' = NoSnapshot
           /\ lastApplied' = 0 /\ lastMembership' = 0
           /\ UNCHANGED <<file, attached, snapshotFile, snapshotIndex, applied,
                          built>>
<1>1. core' \in Core /\ core'.pc = "down"
  BY IdleTyped DEF Crash, Core
<1> QED
  BY <1>1, IdleTyped DEF Crash, snapshots

LEMMA RestartEffect ==
    ASSUME Typed, Restart
    PROVE  /\ core' = CoreIdle /\ core'.pc = "idle"
           /\ builder' = BuilderIdle /\ builder'.pc = "idle"
           /\ db' = file /\ installed' = NoSnapshot
           /\ attached' = (Store = "disk")
           /\ lastApplied' = file.applied /\ applied' = file.applied
           /\ lastMembership' = file.memb
           /\ UNCHANGED <<file, snapshotFile, snapshotIndex, built>>
BY IdleTyped DEF Restart, snapshots

\* What the builder may and may not touch.
LEMMA BuildEffect ==
    ASSUME Typed, BuildSpawn \/ BuildStep
    PROVE  /\ core.pc # "loaded"
           /\ builder' \in Builder
           /\ db' \in Db /\ file' \in Db
           /\ db'.applied = db.applied /\ db'.rows = db.rows
           /\ \/ UNCHANGED <<db, file>>
              \/ file' = IF attached THEN db' ELSE file
           /\ builder'.pc # "idle" =>
                builder'.meta.last \in {0, lastApplied, builder.meta.last}
           /\ builder'.pc # "idle" /\ builder.pc = "idle" => builder'.meta.last = 0
           /\ UNCHANGED <<core, attached, installed, applied, lastApplied,
                          lastMembership>>
<1>0. core.pc # "loaded"
  BY IdleTyped DEF BuildSpawn, BuildStep, ReadApplied, ReadMembership,
     IncSnapshotIndex, InsertSnapshotIndex, WriteSnapshotMeta, Serialize,
     WriteBegin, WriteEnd, Typed, CoreSound
<1>1. CASE WriteSnapshotMeta
  <2>1. /\ db' = [db EXCEPT !.meta = builder.meta]
        /\ file' = IF attached THEN db' ELSE file
    BY <1>1 DEF WriteSnapshotMeta, Commit
  <2>2. db' \in Db /\ db'.applied = db.applied /\ db'.rows = db.rows
    BY <2>1, TypeFacts, DbSetMeta DEF Typed
  <2>3. builder' \in Builder /\ builder'.meta = builder.meta /\ builder.pc # "idle"
    BY <1>1, TypeFacts DEF WriteSnapshotMeta, Builder, Typed
  <2> QED
    BY <1>0, <1>1, <2>1, <2>2, <2>3, TypeFacts
       DEF WriteSnapshotMeta, Commit, memory, Typed
<1>2. CASE IncSnapshotIndex
  <2>1. builder \in Builder /\ builder.meta \in Meta /\ builder.pc # "idle"
        /\ snapshotIndex \in Nat \cup {None}
    BY <1>2 DEF Typed, TypeOK, IncSnapshotIndex, Builder
  <2>2. builder' \in Builder /\ builder'.meta.last = builder.meta.last
    <3>1. CASE snapshotIndex = None
      BY <1>2, <2>1, <3>1 DEF IncSnapshotIndex, Builder
    <3>2. CASE snapshotIndex # None
      <4>1. snapshotIndex + 1 \in Nat
        BY <2>1, <3>2
      <4>2. builder' = [builder EXCEPT !.pc = "meta",
                          !.meta = [@ EXCEPT !.build = snapshotIndex + 1]]
        BY <1>2, <2>1, <3>2 DEF IncSnapshotIndex, Builder, Meta
      <4>3. /\ [builder.meta EXCEPT !.build = snapshotIndex + 1] \in Meta
            /\ [builder.meta EXCEPT !.build = snapshotIndex + 1].last = builder.meta.last
        BY <2>1, <4>1 DEF Meta
      <4> QED
        BY <2>1, <4>2, <4>3 DEF Builder
    <3> QED
      BY <3>1, <3>2
  <2> QED
    BY <1>0, <1>2, <2>1, <2>2, TypeFacts DEF IncSnapshotIndex, state, memory, Typed
<1>3. CASE BuildSpawn
  <2>1. builder' \in Builder /\ builder'.meta.last = 0
    BY <1>3, IdleTyped DEF BuildSpawn, Builder, BuilderIdle, NoMeta
  <2> QED
    BY <1>0, <1>3, <2>1, TypeFacts DEF BuildSpawn, state, memory, Typed
<1>4. CASE ReadApplied
  <2>1. builder' \in Builder /\ builder'.meta.last = lastApplied /\ builder.pc # "idle"
    BY <1>4, TypeFacts DEF ReadApplied, Builder, Meta, Typed
  <2> QED
    BY <1>0, <1>4, <2>1, TypeFacts DEF ReadApplied, state, memory, Typed
<1>5. CASE ReadMembership \/ InsertSnapshotIndex
  <2>1. lastMembership \in Mark /\ builder \in Builder /\ builder.meta \in Meta
    BY DEF Typed, TypeOK, Builder
  <2>2. /\ builder' \in Builder /\ builder'.meta.last = builder.meta.last
        /\ builder.pc # "idle"
    <3>1. CASE ReadMembership
      <4>1. builder' = [builder EXCEPT !.pc = "index",
                          !.meta = [@ EXCEPT !.memb = lastMembership]]
        BY <2>1, <3>1 DEF ReadMembership, Builder, Meta
      <4>2. /\ [builder.meta EXCEPT !.memb = lastMembership] \in Meta
            /\ [builder.meta EXCEPT !.memb = lastMembership].last = builder.meta.last
        BY <2>1 DEF Meta
      <4> QED
        BY <2>1, <3>1, <4>1, <4>2 DEF ReadMembership, Builder
    <3>2. CASE InsertSnapshotIndex
      <4>1. builder' = [builder EXCEPT !.pc = "meta",
                          !.meta = [@ EXCEPT !.build = 0]]
        BY <2>1, <3>2 DEF InsertSnapshotIndex, Builder, Meta
      <4>2. /\ [builder.meta EXCEPT !.build = 0] \in Meta
            /\ [builder.meta EXCEPT !.build = 0].last = builder.meta.last
        BY <2>1 DEF Meta
      <4> QED
        BY <2>1, <3>2, <4>1, <4>2 DEF InsertSnapshotIndex, Builder
    <3> QED
      BY <1>5, <3>1, <3>2
  <2> QED
    BY <1>0, <1>5, <2>2, TypeFacts
       DEF ReadMembership, InsertSnapshotIndex, state, memory, Typed
<1>6. CASE Serialize \/ WriteBegin \/ WriteEnd
  <2>1. /\ builder' \in Builder
        /\ builder'.pc # "idle" =>
             builder'.meta = builder.meta /\ builder.pc # "idle"
    BY <1>6, IdleTyped, TypeFacts DEF Serialize, WriteBegin, WriteEnd, Builder, Typed
  <2> QED
    BY <1>0, <1>6, <2>1, TypeFacts
       DEF Serialize, WriteBegin, WriteEnd, state, memory, Typed
<1> QED
  BY <1>1, <1>2, <1>3, <1>4, <1>5, <1>6 DEF BuildStep

-----------------------------------------------------------------------------
LEMMA InitTyped == Init => Typed
<1> SUFFICES ASSUME Init PROVE Typed
  OBVIOUS
<1>1. 0 \in Mark
  BY StateMachineAssumption DEF Mark
<1>2. TypeOK
  BY <1>1, IdleTyped DEF Init, TypeOK, NoFile
<1>3. CoreSound
  BY IdleTyped DEF Init, CoreSound, Applying
<1> QED
  BY <1>2, <1>3 DEF Typed

LEMMA NextKeepsTyped ==
    ASSUME Typed, [Next]_vars
    PROVE  Typed'
<1>0. 0 \in Mark
  BY StateMachineAssumption DEF Mark
<1>1. ASSUME NEW n \in Index, ApplyBegin(n) PROVE Typed'
  <2>1. TypeOK'
    BY <1>1, ApplyBeginEffect DEF Typed, TypeOK
  <2>2. CoreSound'
    BY <1>1, ApplyBeginEffect DEF CoreSound, Applying
  <2> QED
    BY <2>1, <2>2 DEF Typed
<1>2. CASE SetAppliedRow \/ SetMembershipRow
  <2>1. TypeOK'
    BY <1>2, SetAppliedRowEffect, SetMembershipRowEffect DEF Typed, TypeOK
  <2>2. CoreSound'
    BY <1>2, SetAppliedRowEffect, SetMembershipRowEffect
       DEF Typed, CoreSound, Applying
  <2> QED
    BY <2>1, <2>2 DEF Typed
<1>3. CASE SetAppliedMem
  <2>1. TypeOK'
    BY <1>3, SetAppliedMemEffect DEF Typed, TypeOK
  <2>2. CoreSound'
    BY <1>3, SetAppliedMemEffect DEF Typed, CoreSound, Applying
  <2> QED
    BY <2>1, <2>2 DEF Typed
<1>4. CASE ApplyBlank \/ Execute \/ SetMembershipMem
  <2>1. core.at \in Mark
    BY TypeFacts DEF Typed
  <2>2. core.pc \in Applying /\ core.upto \in Index
    BY <1>4, EntryEffect DEF Applying, Typed, CoreSound
  <2>3. TypeOK'
    BY <1>4, <2>1, <2>2, EntryEffect, EntryDoneEffect DEF Typed, TypeOK
  <2>4. CoreSound'
    BY <1>4, <2>2, EntryEffect, EntryDoneEffect DEF CoreSound, Applying
  <2> QED
    BY <2>3, <2>4 DEF Typed
<1>5. CASE ExecuteRejected \/ InstallRefused
  <2>1. TypeOK'
    BY <1>5, ExecuteRejectedEffect, InstallRefusedEffect, IdleTyped DEF Typed, TypeOK
  <2>2. CoreSound'
    BY <1>5, ExecuteRejectedEffect, InstallRefusedEffect DEF CoreSound, Applying
  <2> QED
    BY <2>1, <2>2 DEF Typed
<1>6. ASSUME NEW s \in Sent, InstallLoad(s) PROVE Typed'
  <2>1. TypeOK'
    BY <1>6, InstallLoadEffect, IdleTyped DEF Typed, TypeOK
  <2>2. CoreSound'
    BY <1>6, InstallLoadEffect DEF CoreSound, Applying
  <2> QED
    BY <2>1, <2>2 DEF Typed
<1>7. CASE InstallMeta
  <2>1. installed.meta.last \in Mark
    BY TypeFacts DEF Typed
  <2>2. TypeOK'
    BY <1>7, <2>1, InstallMetaEffect DEF Typed, TypeOK
  <2>3. CoreSound'
    BY <1>7, InstallMetaEffect DEF CoreSound, Applying
  <2> QED
    BY <2>2, <2>3 DEF Typed
<1>8. CASE CurrentMeta \/ CurrentFile
  <2>1. TypeOK'
    BY <1>8, CurrentEffect DEF Typed, TypeOK
  <2>2. CoreSound'
    BY <1>8, CurrentEffect DEF CoreSound, Applying
  <2> QED
    BY <2>1, <2>2 DEF Typed
<1>9. CASE Crash
  <2>1. TypeOK'
    BY <1>0, <1>9, CrashEffect, IdleTyped DEF Typed, TypeOK
  <2>2. CoreSound'
    BY <1>9, CrashEffect DEF CoreSound, Applying
  <2> QED
    BY <2>1, <2>2 DEF Typed
<1>10. CASE Restart
  <2>1. file.applied \in Mark /\ file.memb \in Mark
    BY DEF Typed, TypeOK, Db
  <2>2. TypeOK'
    BY <1>10, <2>1, RestartEffect, IdleTyped DEF Typed, TypeOK
  <2>3. CoreSound'
    BY <1>10, RestartEffect DEF CoreSound, Applying
  <2> QED
    BY <2>2, <2>3 DEF Typed
<1>11. CASE BuildSpawn \/ BuildStep
  <2>1. /\ snapshotIndex' \in Nat \cup {None}
        /\ snapshotFile' \in [image : Db, whole : BOOLEAN]
        /\ built' \subseteq [meta : Meta, image : Db, base : Snapshot]
    <3>1. CASE WriteEnd
      BY <3>1, TypeFacts DEF WriteEnd, Typed, TypeOK, Builder
    <3>2. CASE WriteBegin
      BY <3>2, TypeFacts DEF WriteBegin, Typed, TypeOK, Builder
    <3>3. CASE IncSnapshotIndex \/ InsertSnapshotIndex
      BY <3>3 DEF IncSnapshotIndex, InsertSnapshotIndex, Typed, TypeOK
    <3>4. CASE \/ BuildSpawn \/ ReadApplied \/ ReadMembership
               \/ WriteSnapshotMeta \/ Serialize
      BY <3>4 DEF BuildSpawn, ReadApplied, ReadMembership, WriteSnapshotMeta,
         Serialize, snapshots, Typed, TypeOK
    <3> QED
      BY <1>11, <3>1, <3>2, <3>3, <3>4 DEF BuildStep
  <2>2. TypeOK'
    BY <1>11, <2>1, BuildEffect DEF Typed, TypeOK
  <2>3. CoreSound'
    BY <1>11, BuildEffect DEF Typed, CoreSound, Applying
  <2> QED
    BY <2>2, <2>3 DEF Typed
<1>12. CASE UNCHANGED vars
  BY <1>12 DEF vars, state, memory, snapshots, Typed, TypeOK, CoreSound
<1> QED
  BY <1>1, <1>2, <1>3, <1>4, <1>5, <1>6, <1>7, <1>8, <1>9, <1>10, <1>11, <1>12
     DEF Next, ApplyStep, InstallStep, CurrentStep

-----------------------------------------------------------------------------
\* The last entry that core is done with.
Executed ==
    IF core.pc \in Applying THEN core.at - 1
    ELSE IF core.pc = "loaded" THEN installed.meta.last
    ELSE applied

\* What ran on d since s was loaded is among the entries behind s up to n.
Ran(d, s, n) ==
    \A i \in Index :
        \/ d.rows[i] = s.image.rows[i]
        \/ /\ d.rows[i] = s.image.rows[i] + 1
           /\ s.meta.last < i /\ i <= n

\* The tables hold nothing of the entry about to be executed, the applied row
\* is written by the time it is, and a connection that writes to its path sees
\* what is there.
RowsSound ==
    /\ core.pc \notin {"fatal", "down"} =>
         Ran(db, installed, Executed) /\ installed.meta.last <= Executed
    /\ core.pc \in Applying \ {"entry"} => db.applied = core.at
    /\ attached => file = db /\ installed = NoSnapshot
    /\ AppliedAtMostOnce

\* The image is serialized behind the builder's own meta row.
MetaKept ==
    /\ builder.pc = "serialize" => db.meta = builder.meta
    /\ builder.pc \in {"write", "sync"} => builder.image.meta = builder.meta

\* Build numbers are taken once.
Numbered ==
    /\ \A s \in built : s.meta.build \in Nat /\ s.meta.build <= snapshotIndex
    /\ builder.pc = "insert" => snapshotIndex = None
    /\ builder.pc \in {"meta", "serialize", "write", "sync"} =>
         /\ builder.meta.build = snapshotIndex
         /\ snapshotIndex \in Nat
         /\ \A s \in built : s.meta.build < snapshotIndex

BuildSound ==
    /\ MetaKept
    /\ Numbered
    /\ SnapshotSelfDescribing
    /\ SnapshotIdsUnique

IInv == Typed /\ RowsSound /\ BuildSound

\* Without installs the connection of a disk store is never detached, so its
\* file is ahead of every mark.
DiskInv ==
    /\ attached
    /\ core.pc # "loaded"
    /\ applied <= db.applied
    /\ core.pc \in {"idle", "current"} => applied = db.applied
    /\ core.pc = "entry" => db.applied = core.at - 1
    /\ lastApplied <= db.applied
    /\ builder.pc # "idle" => builder.meta.last <= db.applied

\* The tables of a memory store are those behind the last entry done with, and
\* what the locks hold and the builder has read is at most one entry ahead.
Near(rows, n) == \E k \in Mark : n <= k + 1 /\ rows = RowsBehind(installed, k)

MemoryInv ==
    /\ file = EmptyDb
    /\ ~attached
    /\ core.pc \notin {"fatal", "down"} =>
         db.rows = RowsBehind(installed, Executed)
    /\ core.pc # "fatal" =>
         /\ lastApplied <= Executed + 1
         /\ builder.pc # "idle" => builder.meta.last <= Executed + 1
    /\ core.pc = "fatal" => Near(db.rows, lastApplied)
    /\ core.pc = "fatal" /\ builder.pc # "idle" => Near(db.rows, builder.meta.last)
    /\ core.pc = "down" => builder.pc = "idle"
    /\ builder.pc \in {"write", "sync"} =>
         Near(builder.image.rows, builder.meta.last)
    /\ SnapshotNearMeta

-----------------------------------------------------------------------------
\* Steps that change neither the application's tables nor the applied row.
LEMMA SameRows ==
    ASSUME RowsSound,
           db'.rows = db.rows, db'.applied = db.applied,
           installed' = installed, attached' = attached,
           \/ UNCHANGED <<db, file>>
           \/ file' = IF attached THEN db' ELSE file
    PROVE  /\ AppliedAtMostOnce'
           /\ attached' => file' = db' /\ installed' = NoSnapshot
           /\ \A n : Ran(db, installed, n) => Ran(db', installed', n)
<1>1. AtMostOnce(db', installed')
  BY DEF RowsSound, AppliedAtMostOnce, AtMostOnce
<1>2. attached' => file' = db' /\ installed' = NoSnapshot
  BY DEF RowsSound
<1>3. AtMostOnce(file', NoSnapshot)
  <2>1. CASE attached
    BY <1>1, <1>2, <2>1
  <2>2. CASE ~attached
    BY <2>2 DEF RowsSound, AppliedAtMostOnce
  <2> QED
    BY <2>1, <2>2
<1> QED
  BY <1>1, <1>2, <1>3 DEF AppliedAtMostOnce, Ran

LEMMA NextKeepsRowsSound ==
    ASSUME Typed, RowsSound, [Next]_vars
    PROVE  RowsSound'
<1>1. ASSUME NEW n \in Index, ApplyBegin(n) PROVE RowsSound'
  <2>0. core'.at - 1 = applied
    <3>1. applied \in Int /\ core'.at = applied + 1
      BY <1>1, ApplyBeginEffect, TypeFacts DEF Typed
    <3> QED
      BY <3>1
  <2>1. Executed' = Executed
    BY <1>1, <2>0, ApplyBeginEffect DEF Executed, Applying
  <2> QED
    BY <1>1, <2>1, ApplyBeginEffect, SameRows DEF RowsSound, Applying
<1>2. CASE SetAppliedRow
  <2>1. Executed' = Executed /\ Executed = core.at - 1
    BY <1>2, SetAppliedRowEffect DEF Executed, Applying
  <2>2. Ran(db, installed, core.at - 1) /\ installed.meta.last <= core.at - 1
    BY <1>2, <2>1, SetAppliedRowEffect DEF RowsSound
  <2>3. core.at \in Int /\ Index \subseteq Int
    BY TypeFacts DEF Typed
  <2>4. AtMostOnce(db', installed')
    BY <1>2, <2>2, <2>3, SetAppliedRowEffect DEF AtMostOnce, Ran
  <2>5. attached' => file' = db' /\ installed' = NoSnapshot
    BY <1>2, SetAppliedRowEffect DEF RowsSound
  <2>6. AtMostOnce(file', NoSnapshot)
    BY <1>2, <2>4, <2>5, SetAppliedRowEffect DEF RowsSound, AppliedAtMostOnce
  <2>7. Ran(db', installed', Executed')
    BY <1>2, <2>1, <2>2, SetAppliedRowEffect DEF Ran
  <2> QED
    BY <1>2, <2>1, <2>2, <2>4, <2>5, <2>6, <2>7, SetAppliedRowEffect
       DEF RowsSound, AppliedAtMostOnce
<1>3. CASE SetAppliedMem
  <2>1. Executed' = Executed
    BY <1>3, SetAppliedMemEffect DEF Executed, Applying
  <2> QED
    BY <1>3, <2>1, SetAppliedMemEffect, SameRows DEF RowsSound, Applying
<1>4. CASE ApplyBlank \/ Execute \/ SetMembershipMem
  <2>1. core.pc \in Applying /\ core.at \in Index
    BY <1>4, EntryEffect DEF Applying
  <2>2. Executed = core.at - 1
    BY <2>1 DEF Executed
  <2>3. /\ core'.pc \in {"idle", "entry"}
        /\ core'.pc = "idle" => applied' = core.at
        /\ core'.pc = "entry" => core'.at - 1 = core.at
    BY <1>4, <2>1, EntryEffect, EntryDoneEffect
  <2>4. Executed' = core.at
    BY <2>3 DEF Executed, Applying
  <2>5. db.applied = core.at
    BY <1>4, EntryEffect DEF RowsSound, Applying
  <2>6. Ran(db, installed, core.at - 1) /\ installed.meta.last <= core.at - 1
    BY <1>4, <2>2, EntryEffect DEF RowsSound
  <2>7. /\ core.at \in Int /\ Index \subseteq Int /\ installed.meta.last \in Int
        /\ db.rows \in [Index -> Nat] /\ installed.image.rows \in [Index -> Nat]
    BY TypeFacts DEF Typed
  <2>8. Ran(db', installed', core.at)
    <3>1. ASSUME NEW i \in Index
          PROVE  \/ db'.rows[i] = installed.image.rows[i]
                 \/ /\ db'.rows[i] = installed.image.rows[i] + 1
                    /\ installed.meta.last < i /\ i <= core.at
      <4>1. CASE i = core.at
        <5>1. db.rows[i] = installed.image.rows[i]
          BY <2>6, <2>7, <4>1 DEF Ran
        <5>2. db'.rows[i] \in {db.rows[i], db.rows[i] + 1}
          BY <1>4, <2>7, <4>1, EntryEffect
        <5>3. installed.meta.last < i /\ i <= core.at
          BY <2>6, <2>7, <4>1
        <5> QED
          BY <5>1, <5>2, <5>3
      <4>2. CASE i # core.at
        <5>1. db'.rows[i] = db.rows[i]
          BY <1>4, <2>7, <4>2, EntryEffect
        <5> QED
          BY <2>6, <2>7, <5>1 DEF Ran
      <4> QED
        BY <4>1, <4>2
    <3> QED
      BY <1>4, <3>1, EntryEffect DEF Ran
  <2>9. AtMostOnce(db', installed')
    BY <1>4, <2>5, <2>8, EntryEffect DEF Ran, AtMostOnce
  <2>10. attached' => file' = db' /\ installed' = NoSnapshot
    BY <1>4, EntryEffect DEF RowsSound
  <2>11. AtMostOnce(file', NoSnapshot)
    <3>1. CASE attached
      BY <1>4, <2>9, <2>10, <3>1, EntryEffect
    <3>2. CASE ~attached
      BY <1>4, <3>2, EntryEffect DEF RowsSound, AppliedAtMostOnce
    <3> QED
      BY <3>1, <3>2
  <2>12. installed'.meta.last <= core.at
    BY <1>4, <2>6, <2>7, EntryEffect
  <2> QED
    BY <2>3, <2>4, <2>8, <2>9, <2>10, <2>11, <2>12
       DEF RowsSound, AppliedAtMostOnce, Applying
<1>5. CASE ExecuteRejected \/ InstallRefused
  BY <1>5, ExecuteRejectedEffect, InstallRefusedEffect, SameRows
     DEF RowsSound, Applying
<1>6. CASE SetMembershipRow
  <2>1. Executed' = Executed
    BY <1>6, SetMembershipRowEffect DEF Executed, Applying
  <2> QED
    BY <1>6, <2>1, SetMembershipRowEffect, SameRows DEF RowsSound, Applying
<1>7. ASSUME NEW s \in Sent, InstallLoad(s) PROVE RowsSound'
  <2>1. db'.rows = installed'.image.rows /\ file' = file /\ ~attached'
    BY <1>7, InstallLoadEffect
  <2>2. AtMostOnce(db', installed') /\ \A n : Ran(db', installed', n)
    BY <2>1 DEF AtMostOnce, Ran
  <2>3. AtMostOnce(file', NoSnapshot)
    BY <2>1 DEF RowsSound, AppliedAtMostOnce
  <2>4. core'.pc = "loaded" /\ Executed' = installed'.meta.last
    BY <1>7, InstallLoadEffect DEF Executed, Applying
  <2>5. installed'.meta.last <= installed'.meta.last
    <3>1. installed' = s /\ s \in Snapshot
      BY <1>7, InstallLoadEffect
    <3>2. s.meta.last \in Int
      BY <3>1, StateMachineAssumption DEF Snapshot, Meta, Mark
    <3> QED
      BY <3>1, <3>2
  <2> QED
    BY <2>1, <2>2, <2>3, <2>4, <2>5 DEF RowsSound, AppliedAtMostOnce, Applying
<1>8. CASE InstallMeta
  <2>1. Executed' = Executed
    BY <1>8, InstallMetaEffect DEF Executed, Applying
  <2> QED
    BY <1>8, <2>1, InstallMetaEffect, SameRows DEF RowsSound, Applying
<1>9. CASE CurrentMeta \/ CurrentFile
  <2>1. Executed' = Executed
    BY <1>9, CurrentEffect DEF Executed, Applying
  <2> QED
    BY <1>9, <2>1, CurrentEffect, SameRows DEF RowsSound, Applying
<1>10. CASE Crash
  BY <1>10, CrashEffect DEF RowsSound, AppliedAtMostOnce, Applying
<1>11. CASE Restart
  <2>1. Executed' = file.applied
    BY <1>11, RestartEffect DEF Executed, Applying
  <2>2. AtMostOnce(file, NoSnapshot)
    BY DEF RowsSound, AppliedAtMostOnce
  <2>3. Ran(file, NoSnapshot, file.applied)
    BY <2>2 DEF AtMostOnce, Ran
  <2>4. NoSnapshot.meta.last <= file.applied
    BY TypeFacts, IdleTyped DEF Typed
  <2> QED
    BY <1>11, <2>1, <2>2, <2>3, <2>4, RestartEffect
       DEF RowsSound, AppliedAtMostOnce, Applying
<1>12. CASE BuildSpawn \/ BuildStep
  <2>1. Executed' = Executed
    BY <1>12, BuildEffect DEF Executed
  <2> QED
    BY <1>12, <2>1, BuildEffect, SameRows DEF RowsSound
<1>13. CASE UNCHANGED vars
  <2>1. UNCHANGED <<db, file, attached, installed, core, applied>>
    BY <1>13 DEF vars, state
  <2>2. Executed' = Executed
    BY <2>1 DEF Executed
  <2> QED
    BY <2>1, <2>2, SameRows DEF RowsSound
<1> QED
  BY <1>1, <1>2, <1>3, <1>4, <1>5, <1>6, <1>7, <1>8, <1>9, <1>10, <1>11,
     <1>12, <1>13 DEF Next, ApplyStep, InstallStep, CurrentStep

LEMMA NextKeepsBuildSound ==
    ASSUME Typed, BuildSound, [Next]_vars
    PROVE  BuildSound'
<1>1. CASE UNCHANGED <<db, builder, snapshotIndex, built>>
  BY <1>1 DEF BuildSound, MetaKept, Numbered, SnapshotSelfDescribing,
     SnapshotIdsUnique
<1>2. CASE builder'.pc = "idle" /\ UNCHANGED <<snapshotIndex, built>>
  BY <1>2 DEF BuildSound, MetaKept, Numbered, SnapshotSelfDescribing,
     SnapshotIdsUnique
<1>3. CASE db'.meta = db.meta /\ UNCHANGED <<builder, snapshotIndex, built>>
  BY <1>3 DEF BuildSound, MetaKept, Numbered, SnapshotSelfDescribing,
     SnapshotIdsUnique
<1>4. CASE BuildSpawn \/ ReadApplied \/ ReadMembership
  <2>1. /\ builder'.pc \in {"applied", "membership", "index"}
        /\ UNCHANGED <<snapshotIndex, built>>
    BY <1>4, TypeFacts DEF BuildSpawn, ReadApplied, ReadMembership, Builder,
       snapshots, Typed
  <2> QED
    BY <2>1 DEF BuildSound, MetaKept, Numbered, SnapshotSelfDescribing,
       SnapshotIdsUnique
<1>5. CASE IncSnapshotIndex
  <2>1. /\ builder \in Builder /\ builder.meta \in Meta
        /\ snapshotIndex \in Nat \cup {None} /\ built' = built
    BY <1>5 DEF Typed, TypeOK, Builder, IncSnapshotIndex
  <2>2. CASE snapshotIndex = None
    <3>1. builder'.pc = "insert" /\ snapshotIndex' = None
      BY <1>5, <2>1, <2>2 DEF IncSnapshotIndex, Builder
    <3> QED
      BY <2>1, <2>2, <3>1 DEF BuildSound, MetaKept, Numbered,
         SnapshotSelfDescribing, SnapshotIdsUnique
  <2>3. CASE snapshotIndex # None
    <3>1. snapshotIndex \in Nat /\ snapshotIndex' = snapshotIndex + 1
      BY <1>5, <2>1, <2>3 DEF IncSnapshotIndex
    <3>2. builder'.pc = "meta" /\ builder'.meta.build = snapshotIndex'
      <4>1. builder' = [builder EXCEPT !.pc = "meta",
                          !.meta = [@ EXCEPT !.build = snapshotIndex']]
        BY <1>5, <2>1, <2>3, <3>1 DEF IncSnapshotIndex, Builder, Meta
      <4>2. [builder.meta EXCEPT !.build = snapshotIndex'].build = snapshotIndex'
        BY <2>1 DEF Meta
      <4> QED
        BY <2>1, <4>1, <4>2 DEF Builder
    <3> QED
      BY <2>1, <3>1, <3>2 DEF BuildSound, MetaKept, Numbered,
         SnapshotSelfDescribing, SnapshotIdsUnique
  <2> QED
    BY <2>2, <2>3
<1>6. CASE InsertSnapshotIndex
  <2>1. /\ builder \in Builder /\ builder.meta \in Meta
        /\ built' = built /\ snapshotIndex' = 0
    BY <1>6 DEF Typed, TypeOK, Builder, InsertSnapshotIndex
  <2>2. builder'.pc = "meta" /\ builder'.meta.build = 0
    BY <1>6, <2>1 DEF InsertSnapshotIndex, Builder, Meta
  <2>3. built = {}
    BY <1>6 DEF InsertSnapshotIndex, BuildSound, Numbered, None
  <2> QED
    BY <2>1, <2>2, <2>3 DEF BuildSound, MetaKept, Numbered,
       SnapshotSelfDescribing, SnapshotIdsUnique
<1>7. CASE WriteSnapshotMeta
  <2>1. db'.meta = builder.meta
    BY <1>7, TypeFacts, DbSetMeta DEF WriteSnapshotMeta, Commit, Typed
  <2>2. builder'.pc = "serialize" /\ builder'.meta = builder.meta /\ builder.pc = "meta"
    BY <1>7, TypeFacts DEF WriteSnapshotMeta, Builder, Typed
  <2>3. UNCHANGED <<snapshotIndex, built>>
    BY <1>7 DEF WriteSnapshotMeta, snapshots
  <2> QED
    BY <2>1, <2>2, <2>3 DEF BuildSound, MetaKept, Numbered,
       SnapshotSelfDescribing, SnapshotIdsUnique
<1>8. CASE Serialize
  <2>1. /\ builder'.pc = "write" /\ builder'.meta = builder.meta
        /\ builder'.image = db /\ builder.pc = "serialize"
    BY <1>8, TypeFacts DEF Serialize, Builder, Typed
  <2>2. UNCHANGED <<snapshotIndex, built>>
    BY <1>8 DEF Serialize, snapshots
  <2> QED
    BY <2>1, <2>2 DEF BuildSound, MetaKept, Numbered, SnapshotSelfDescribing,
       SnapshotIdsUnique
<1>9. CASE WriteBegin
  <2>1. /\ builder'.pc = "sync" /\ builder'.meta = builder.meta
        /\ builder'.image = builder.image /\ builder.pc = "write"
    BY <1>9, TypeFacts DEF WriteBegin, Builder, Typed
  <2>2. UNCHANGED <<snapshotIndex, built>>
    BY <1>9 DEF WriteBegin
  <2> QED
    BY <2>1, <2>2 DEF BuildSound, MetaKept, Numbered, SnapshotSelfDescribing,
       SnapshotIdsUnique
<1>10. CASE WriteEnd
  <2> DEFINE new == [meta |-> builder.meta, image |-> builder.image,
                     base |-> installed]
  <2>1. /\ built' = built \cup {new} /\ builder'.pc = "idle"
        /\ snapshotIndex' = snapshotIndex /\ builder.pc = "sync"
    BY <1>10, IdleTyped DEF WriteEnd
  <2>2. /\ new.image.meta = new.meta
        /\ new.meta.build = snapshotIndex /\ snapshotIndex \in Nat
        /\ \A s \in built : s.meta.build < new.meta.build
    BY <2>1 DEF BuildSound, MetaKept, Numbered
  <2>3. \A s \in built' : s \in built \/ s = new
    BY <2>1
  <2>4. \A s \in built : s.meta.build \in Nat
    BY DEF BuildSound, Numbered
  <2>5. SnapshotSelfDescribing'
    BY <2>2, <2>3 DEF BuildSound, SnapshotSelfDescribing
  <2>6. SnapshotIdsUnique'
    BY <2>2, <2>3, <2>4 DEF BuildSound, SnapshotIdsUnique
  <2>7. MetaKept' /\ Numbered'
    BY <2>1, <2>2, <2>3 DEF BuildSound, MetaKept, Numbered
  <2> QED
    BY <2>5, <2>6, <2>7 DEF BuildSound
<1>11. ASSUME NEW n \in Index, ApplyBegin(n) PROVE BuildSound'
  BY <1>1, <1>11, ApplyBeginEffect
<1>12. CASE SetAppliedRow \/ SetMembershipRow
  BY <1>3, <1>12, SetAppliedRowEffect, SetMembershipRowEffect
<1>13. CASE SetAppliedMem
  BY <1>1, <1>13, SetAppliedMemEffect
<1>14. CASE ApplyBlank \/ Execute \/ SetMembershipMem
  BY <1>3, <1>14, EntryEffect
<1>15. CASE ExecuteRejected
  BY <1>1, <1>15, ExecuteRejectedEffect
<1>16. CASE CurrentMeta \/ CurrentFile
  BY <1>1, <1>16, CurrentEffect
<1>17. CASE InstallMeta
  BY <1>2, <1>17, InstallMetaEffect
<1>18. CASE InstallRefused
  BY <1>2, <1>18, InstallRefusedEffect
<1>19. ASSUME NEW s \in Sent, InstallLoad(s) PROVE BuildSound'
  BY <1>2, <1>19, InstallLoadEffect
<1>20. CASE Crash
  BY <1>2, <1>20, CrashEffect
<1>21. CASE Restart
  BY <1>2, <1>21, RestartEffect
<1>22. CASE UNCHANGED vars
  BY <1>1, <1>22 DEF vars, state, snapshots
<1> QED
  BY <1>4, <1>5, <1>6, <1>7, <1>8, <1>9, <1>10, <1>11, <1>12, <1>13, <1>14,
     <1>15, <1>16, <1>17, <1>18, <1>19, <1>20, <1>21, <1>22
     DEF Next, ApplyStep, InstallStep, CurrentStep, BuildStep

LEMMA InitIInv == Init => IInv
<1> SUFFICES ASSUME Init PROVE IInv
  OBVIOUS
<1>1. core.pc = "idle" /\ builder.pc = "idle"
  BY IdleTyped DEF Init
<1>2. /\ db = EmptyDb /\ file = EmptyDb /\ installed = NoSnapshot
      /\ applied = 0 /\ built = {}
  BY DEF Init
<1>3. Executed = 0
  BY <1>1, <1>2 DEF Executed, Applying
<1>4. AtMostOnce(EmptyDb, NoSnapshot) /\ Ran(EmptyDb, NoSnapshot, 0)
  BY IdleTyped DEF AtMostOnce, Ran
<1>5. RowsSound
  BY <1>1, <1>2, <1>3, <1>4, IdleTyped DEF RowsSound, AppliedAtMostOnce, Applying
<1>6. BuildSound
  BY <1>1, <1>2 DEF BuildSound, MetaKept, Numbered, SnapshotSelfDescribing,
     SnapshotIdsUnique
<1> QED
  BY <1>5, <1>6, InitTyped DEF IInv

LEMMA NextKeepsIInv == IInv /\ [Next]_vars => IInv'
BY NextKeepsTyped, NextKeepsRowsSound, NextKeepsBuildSound DEF IInv

LEMMA SpecKeepsIInv == Spec => []IInv
BY InitIInv, NextKeepsIInv, PTL DEF Spec

\* Every variable keeps its type; in particular no mark leaves the log.
THEOREM TypeCorrect == Spec => []TypeOK
<1>1. IInv => TypeOK
  BY DEF IInv, Typed
<1> QED
  BY <1>1, SpecKeepsIInv, PTL

\* No process runs an entry's SQL twice on what it was loaded with, nor two
\* processes in turn on the file, whatever interrupts apply_to_state_machine and
\* whatever snapshots leaders send.
THEOREM AtMostOnceSinceLoaded == Spec => []AppliedAtMostOnce
<1>1. IInv => AppliedAtMostOnce
  BY DEF IInv, RowsSound
<1> QED
  BY <1>1, SpecKeepsIInv, PTL

\* The image carries the very meta that build_snapshot returns it with.
THEOREM MetaInImage == Spec => []SnapshotSelfDescribing
<1>1. IInv => SnapshotSelfDescribing
  BY DEF IInv, BuildSound
<1> QED
  BY <1>1, SpecKeepsIInv, PTL

\* No build takes the number of another one, whichever step a crash comes behind.
THEOREM IdsUnique == Spec => []SnapshotIdsUnique
<1>1. IInv => SnapshotIdsUnique
  BY DEF IInv, BuildSound
<1> QED
  BY <1>1, SpecKeepsIInv, PTL

-----------------------------------------------------------------------------
LEMMA NextKeepsDiskInv ==
    ASSUME Sent = {}, Store = "disk", Typed, RowsSound, DiskInv, [Next]_vars
    PROVE  DiskInv'
<1>0. /\ attached /\ core.pc # "loaded"
      /\ applied \in Int /\ db.applied \in Int /\ file = db
      /\ lastApplied \in Int /\ core.at \in Int /\ builder.meta.last \in Int
  BY TypeFacts DEF DiskInv, RowsSound, Typed
<1>1. ASSUME NEW n \in Index, ApplyBegin(n) PROVE DiskInv'
  <2>1. applied = db.applied /\ core'.at = applied + 1
    BY <1>1, ApplyBeginEffect DEF DiskInv
  <2>2. core'.at - 1 = db.applied
    BY <1>0, <2>1
  <2> QED
    BY <1>1, <2>2, ApplyBeginEffect DEF DiskInv
<1>2. CASE SetAppliedRow
  <2>1. core.at = db.applied + 1 /\ db'.applied = core.at
    BY <1>0, <1>2, SetAppliedRowEffect DEF DiskInv
  <2>2. applied <= db'.applied /\ lastApplied <= db'.applied
    BY <1>0, <2>1 DEF DiskInv
  <2>3. builder.pc # "idle" => builder.meta.last <= db'.applied
    BY <1>0, <2>1 DEF DiskInv
  <2> QED
    BY <1>2, <2>2, <2>3, SetAppliedRowEffect DEF DiskInv
<1>3. CASE SetAppliedMem
  <2>1. lastApplied' = db.applied
    BY <1>3, SetAppliedMemEffect DEF RowsSound, Applying
  <2> QED
    BY <1>0, <1>3, <2>1, SetAppliedMemEffect DEF DiskInv
<1>4. CASE ApplyBlank \/ Execute \/ SetMembershipMem
  <2>1. core.pc \in Applying /\ db.applied = core.at
    BY <1>4, EntryEffect DEF RowsSound, Applying
  <2>2. \/ core'.pc = "idle" /\ applied' = core.at
        \/ core'.pc = "entry" /\ applied' = applied /\ core'.at - 1 = core.at
    BY <1>4, <2>1, EntryEffect, EntryDoneEffect
  <2>3. /\ db'.applied = db.applied
        /\ UNCHANGED <<attached, lastApplied, builder>>
    BY <1>4, EntryEffect
  <2>4. core.at <= core.at
    BY <1>0
  <2> QED
    BY <2>1, <2>2, <2>3, <2>4 DEF DiskInv
<1>5. CASE ExecuteRejected \/ InstallRefused \/ SetMembershipRow
  BY <1>5, ExecuteRejectedEffect, InstallRefusedEffect, SetMembershipRowEffect
     DEF DiskInv
<1>6. CASE CurrentMeta \/ CurrentFile
  BY <1>6, CurrentEffect DEF DiskInv
<1>7. ~InstallMeta /\ \A s \in Sent : ~InstallLoad(s)
  BY <1>0 DEF InstallMeta
<1>8. CASE Crash
  <2>1. applied <= file.applied /\ 0 <= file.applied
    BY <1>0, TypeFacts DEF DiskInv, Typed
  <2> QED
    BY <1>8, <2>1, CrashEffect DEF DiskInv
<1>9. CASE Restart
  <2>1. file.applied <= file.applied
    BY TypeFacts DEF Typed
  <2> QED
    BY <1>9, <2>1, RestartEffect DEF DiskInv
<1>10. CASE BuildSpawn \/ BuildStep
  <2>1. builder'.pc # "idle" => builder'.meta.last <= db.applied
    <3>1. 0 <= db.applied
      BY TypeFacts DEF Typed
    <3> QED
      BY <1>0, <1>10, <3>1, BuildEffect DEF DiskInv
  <2> QED
    BY <1>10, <2>1, BuildEffect DEF DiskInv
<1>11. CASE UNCHANGED vars
  BY <1>11 DEF vars, state, memory, DiskInv
<1> QED
  BY <1>1, <1>2, <1>3, <1>4, <1>5, <1>6, <1>7, <1>8, <1>9, <1>10, <1>11
     DEF Next, ApplyStep, InstallStep, CurrentStep

LEMMA DiskInvAtFirst ==
    ASSUME Store = "disk", Init
    PROVE  DiskInv
<1>1. core.pc = "idle" /\ builder.pc = "idle" /\ db.applied = 0
  BY IdleTyped DEF Init
<1>2. attached = TRUE /\ applied = 0 /\ lastApplied = 0
  BY DEF Init
<1> QED
  BY <1>1, <1>2 DEF DiskInv

\* As long as no snapshot is installed, what openraft takes for applied is on
\* the disk of a node that has one.
THEOREM DiskKeepsApplied ==
    ASSUME Sent = {}
    PROVE  Spec => []AppliedOnDisk
<1>1. CASE Store = "disk"
  <2>1. Init => DiskInv
    BY <1>1, DiskInvAtFirst
  <2>2. IInv /\ DiskInv /\ [Next]_vars => DiskInv'
    BY <1>1, NextKeepsDiskInv DEF IInv
  <2>3. IInv /\ DiskInv => AppliedOnDisk
    BY DEF IInv, RowsSound, DiskInv, AppliedOnDisk
  <2> QED
    BY <2>1, <2>2, <2>3, SpecKeepsIInv, PTL DEF Spec
<1>2. CASE Store # "disk"
  <2>1. AppliedOnDisk
    BY <1>2 DEF AppliedOnDisk
  <2> QED
    BY <2>1, PTL
<1> QED
  BY <1>1, <1>2

-----------------------------------------------------------------------------
LEMMA RowsBehindNext ==
    ASSUME NEW s \in Snapshot, NEW n \in Index, s.meta.last <= n - 1
    PROVE  RowsBehind(s, n) = IF Runs(n)
                              THEN [RowsBehind(s, n - 1) EXCEPT ![n] = @ + 1]
                              ELSE RowsBehind(s, n - 1)
<1>1. /\ s.image.rows \in [Index -> Nat] /\ s.meta.last \in Int
      /\ n \in Int /\ Index \subseteq Int
  BY StateMachineAssumption DEF Snapshot, Meta, Db, Mark, Index
<1>2. ASSUME NEW i \in Index, i # n
      PROVE  RowsBehind(s, n)[i] = RowsBehind(s, n - 1)[i]
  BY <1>1, <1>2 DEF RowsBehind
<1>3. /\ RowsBehind(s, n - 1)[n] = s.image.rows[n]
      /\ RowsBehind(s, n)[n] = s.image.rows[n] + IF Runs(n) THEN 1 ELSE 0
  BY <1>1 DEF RowsBehind
<1>4. /\ RowsBehind(s, n) = [i \in Index |-> RowsBehind(s, n)[i]]
      /\ RowsBehind(s, n - 1) = [i \in Index |-> RowsBehind(s, n - 1)[i]]
  BY DEF RowsBehind
<1>5. CASE Runs(n)
  BY <1>1, <1>2, <1>3, <1>4, <1>5
<1>6. CASE ~Runs(n)
  BY <1>1, <1>2, <1>3, <1>4, <1>6
<1> QED
  BY <1>5, <1>6

LEMMA RowsBehindNothing ==
    ASSUME NEW s \in Snapshot
    PROVE  RowsBehind(s, s.meta.last) = s.image.rows
<1>1. s.image.rows \in [Index -> Nat] /\ s.meta.last \in Int /\ Index \subseteq Int
  BY StateMachineAssumption DEF Snapshot, Meta, Db, Mark, Index
<1>2. \A i \in Index : ~(s.meta.last < i /\ i <= s.meta.last)
  BY <1>1
<1>3. RowsBehind(s, s.meta.last) = [i \in Index |-> s.image.rows[i] + 0]
  BY <1>2 DEF RowsBehind
<1>4. \A i \in Index : s.image.rows[i] + 0 = s.image.rows[i]
  BY <1>1
<1> QED
  BY <1>1, <1>3, <1>4

LEMMA RowsBehindEmpty == EmptyDb.rows = RowsBehind(NoSnapshot, 0)
<1>1. RowsBehind(NoSnapshot, 0) = NoSnapshot.image.rows
  BY IdleTyped, RowsBehindNothing
<1> QED
  BY <1>1, IdleTyped

\* What the builder carries along is near if the locks and the tables are.
LEMMA NextKeepsMemoryInv ==
    ASSUME Store = "memory", Typed, RowsSound, MemoryInv, [Next]_vars
    PROVE  MemoryInv'
<1>0. /\ lastApplied \in Int /\ builder.meta.last \in Int /\ applied \in Int
      /\ core.at \in Int /\ installed.meta.last \in Int /\ installed \in Snapshot
  BY TypeFacts DEF Typed, TypeOK
<1>01. Executed \in Int
  BY <1>0 DEF Executed
<1>02. core.pc \notin {"fatal", "down"} => Executed \in Mark
  BY TypeFacts DEF Typed, Executed, CoreSound
<1>1. CASE /\ Executed' = Executed
           /\ core.pc # "fatal" /\ core'.pc # "fatal"
           /\ core'.pc = "down" <=> core.pc = "down"
           /\ db'.rows = db.rows /\ file' = file /\ attached' = attached
           /\ lastApplied' \in {lastApplied, Executed + 1}
           /\ UNCHANGED <<installed, builder, built>>
  <2>1. Executed + 1 <= Executed + 1
    BY <1>01
  <2> QED
    BY <1>1, <2>1 DEF MemoryInv, Near, SnapshotNearMeta
<1>2. ASSUME NEW n \in Index, ApplyBegin(n) PROVE MemoryInv'
  <2>1. core'.at - 1 = applied
    BY <1>0, <1>2, ApplyBeginEffect
  <2>2. Executed' = Executed
    BY <1>2, <2>1, ApplyBeginEffect DEF Executed, Applying
  <2> QED
    BY <1>1, <1>2, <2>2, ApplyBeginEffect
<1>3. CASE SetAppliedRow \/ SetMembershipRow
  <2>1. Executed' = Executed /\ ~attached
    BY <1>3, SetAppliedRowEffect, SetMembershipRowEffect
       DEF Executed, Applying, MemoryInv
  <2> QED
    BY <1>1, <1>3, <2>1, SetAppliedRowEffect, SetMembershipRowEffect
<1>4. CASE SetAppliedMem
  <2>1. Executed' = Executed /\ Executed = core.at - 1
    BY <1>4, SetAppliedMemEffect DEF Executed, Applying
  <2>2. lastApplied' = Executed + 1
    BY <1>0, <1>4, <2>1, SetAppliedMemEffect
  <2> QED
    BY <1>1, <1>4, <2>1, <2>2, SetAppliedMemEffect
<1>5. CASE CurrentMeta \/ CurrentFile
  <2>1. Executed' = Executed
    BY <1>5, CurrentEffect DEF Executed, Applying
  <2> QED
    BY <1>1, <1>5, <2>1, CurrentEffect
<1>6. CASE InstallMeta
  <2>1. Executed' = Executed /\ ~attached
    BY <1>6, InstallMetaEffect DEF Executed, Applying, MemoryInv
  <2> QED
    BY <1>1, <1>6, <2>1, InstallMetaEffect
<1>7. CASE ApplyBlank \/ Execute \/ SetMembershipMem
  <2>1. core.pc \in Applying /\ Executed = core.at - 1
    BY <1>7, EntryEffect DEF Applying, Executed
  <2>2. /\ core'.pc \in {"idle", "entry"}
        /\ core'.pc = "idle" => applied' = core.at
        /\ core'.pc = "entry" => core'.at - 1 = core.at
    BY <1>7, <2>1, EntryEffect, EntryDoneEffect
  <2>3. Executed' = core.at
    BY <2>2 DEF Executed, Applying
  <2>4. db.rows = RowsBehind(installed, core.at - 1)
    BY <1>7, <2>1, EntryEffect DEF MemoryInv
  <2>5. installed.meta.last <= core.at - 1
    BY <1>7, <2>1, EntryEffect DEF RowsSound
  <2>6. db'.rows = RowsBehind(installed, core.at)
    BY <1>0, <1>7, <2>4, <2>5, EntryEffect, RowsBehindNext
  <2>7. lastApplied' <= Executed' + 1
    BY <1>0, <1>7, <2>1, <2>3, EntryEffect DEF MemoryInv
  <2>8. builder'.pc # "idle" => builder'.meta.last <= Executed' + 1
    BY <1>0, <1>7, <2>1, <2>3, EntryEffect DEF MemoryInv
  <2>9. file' = EmptyDb /\ ~attached'
    BY <1>7, EntryEffect DEF MemoryInv
  <2> QED
    BY <1>7, <2>2, <2>3, <2>6, <2>7, <2>8, <2>9, EntryEffect
       DEF MemoryInv, Near, SnapshotNearMeta
<1>8. CASE ExecuteRejected \/ InstallRefused
  <2>1. core.pc \notin {"fatal", "down"} /\ core'.pc = "fatal"
    BY <1>8, ExecuteRejectedEffect, InstallRefusedEffect
  <2>2. /\ UNCHANGED <<db, file, attached, installed, lastApplied, built>>
        /\ builder' = builder \/ builder'.pc = "idle"
    BY <1>8, ExecuteRejectedEffect, InstallRefusedEffect
  <2>3. Near(db.rows, lastApplied)
    BY <1>02, <2>1 DEF MemoryInv, Near
  <2>4. builder.pc # "idle" => Near(db.rows, builder.meta.last)
    BY <1>02, <2>1 DEF MemoryInv, Near
  <2>5. \A rows, n : Near(rows, n) => Near(rows, n)'
    BY <2>2 DEF Near
  <2>6. SnapshotNearMeta'
    BY <2>2 DEF MemoryInv, SnapshotNearMeta
  <2> QED
    BY <2>1, <2>2, <2>3, <2>4, <2>6 DEF MemoryInv, Near
<1>9. ASSUME NEW s \in Sent, InstallLoad(s) PROVE MemoryInv'
  <2>1. Executed' = s.meta.last /\ Executed = applied
    BY <1>9, InstallLoadEffect DEF Executed, Applying
  <2>2. s \in Snapshot /\ s.meta.last \in Int /\ applied < s.meta.last
    <3>1. s \in Snapshot /\ applied < s.meta.last
      BY <1>9, InstallLoadEffect
    <3> QED
      BY <3>1, StateMachineAssumption DEF Snapshot, Meta, Mark
  <2>3. db'.rows = RowsBehind(s, s.meta.last)
    <3>1. db' = s.image
      BY <1>9, InstallLoadEffect
    <3> QED
      BY <2>2, <3>1, RowsBehindNothing
  <2>4. lastApplied' <= Executed' + 1
    <3>1. lastApplied' = lastApplied /\ core.pc = "idle"
      BY <1>9, InstallLoadEffect
    <3>2. lastApplied <= applied + 1
      BY <2>1, <3>1 DEF MemoryInv
    <3> QED
      BY <1>0, <2>1, <2>2, <3>1, <3>2
  <2>5. SnapshotNearMeta'
    BY <1>9, InstallLoadEffect DEF MemoryInv, SnapshotNearMeta
  <2> QED
    BY <1>9, <2>1, <2>3, <2>4, <2>5, InstallLoadEffect DEF MemoryInv
<1>10. CASE Crash
  <2>1. Executed' = applied
    BY <1>10, CrashEffect DEF Executed, Applying
  <2>2. 0 <= applied + 1
    BY TypeFacts DEF Typed
  <2> QED
    BY <1>10, <2>1, <2>2, CrashEffect DEF MemoryInv, SnapshotNearMeta
<1>11. CASE Restart
  <2>1. Executed' = 0
    BY <1>11, RestartEffect, IdleTyped DEF Executed, Applying, MemoryInv
  <2>2. db'.rows = RowsBehind(NoSnapshot, 0) /\ lastApplied' = 0
    BY <1>11, RestartEffect, IdleTyped, RowsBehindEmpty DEF MemoryInv
  <2>3. attached' = FALSE
    BY <1>11, RestartEffect
  <2> QED
    BY <1>11, <2>1, <2>2, <2>3, RestartEffect DEF MemoryInv, SnapshotNearMeta
<1>12. CASE BuildSpawn \/ BuildStep
  <2>1. Executed' = Executed /\ core' = core
    BY <1>12, BuildEffect DEF Executed
  <2>2. /\ db'.rows = db.rows /\ file' = file /\ ~attached /\ ~attached'
        /\ UNCHANGED <<lastApplied, installed>>
    BY <1>12, BuildEffect DEF MemoryInv
  <2>3. core.pc # "fatal" /\ builder'.pc # "idle" =>
          builder'.meta.last <= Executed' + 1
    <3>1. core.pc # "fatal" => 0 <= Executed + 1
      BY TypeFacts DEF Typed, Executed, CoreSound
    <3> QED
      BY <1>0, <1>01, <1>12, <2>1, <3>1, BuildEffect DEF MemoryInv
  <2>4. core.pc = "fatal" /\ builder'.pc # "idle" => Near(db.rows, builder'.meta.last)
    <3>1. \A k \in Mark : 0 <= k + 1
      BY StateMachineAssumption DEF Mark
    <3> QED
      BY <1>12, <3>1, BuildEffect DEF MemoryInv, Near
  <2>5. core.pc = "down" => builder'.pc = "idle"
    BY <1>12, IdleTyped DEF MemoryInv, BuildSpawn, BuildStep, ReadApplied,
       ReadMembership, IncSnapshotIndex, InsertSnapshotIndex, WriteSnapshotMeta,
       Serialize, WriteBegin, WriteEnd
  <2>6. /\ builder'.pc \in {"write", "sync"} =>
             Near(builder'.image.rows, builder'.meta.last)
        /\ SnapshotNearMeta'
    <3>1. CASE Serialize
      <4>1. /\ builder.pc = "serialize" /\ builder'.meta = builder.meta
            /\ builder'.image = db /\ built' = built
        BY <3>1, TypeFacts DEF Serialize, Builder, snapshots, Typed
      <4>2. core.pc # "down"
        BY <4>1 DEF MemoryInv
      <4>3. Near(db.rows, builder.meta.last)
        BY <1>02, <4>1, <4>2 DEF MemoryInv, Near
      <4> QED
        BY <4>1, <4>3 DEF MemoryInv, SnapshotNearMeta
    <3>2. CASE WriteBegin
      <4>1. /\ builder.pc = "write" /\ builder'.meta = builder.meta
            /\ builder'.image = builder.image /\ built' = built
        BY <3>2, TypeFacts DEF WriteBegin, Builder, Typed
      <4> QED
        BY <4>1 DEF MemoryInv, SnapshotNearMeta
    <3>3. CASE WriteEnd
      <4>1. /\ builder.pc = "sync" /\ builder'.pc = "idle"
            /\ built' = built \cup {[meta |-> builder.meta,
                                     image |-> builder.image, base |-> installed]}
        BY <3>3, IdleTyped DEF WriteEnd
      <4>2. Near(builder.image.rows, builder.meta.last)
        BY <4>1 DEF MemoryInv
      <4> QED
        BY <4>1, <4>2 DEF MemoryInv, SnapshotNearMeta, Near
    <3>4. CASE \/ BuildSpawn \/ ReadApplied \/ ReadMembership
               \/ IncSnapshotIndex \/ InsertSnapshotIndex \/ WriteSnapshotMeta
      <4>1. built' = built
        BY <3>4 DEF BuildSpawn, ReadApplied, ReadMembership, IncSnapshotIndex,
           InsertSnapshotIndex, WriteSnapshotMeta, snapshots
      <4>2. builder'.pc \notin {"write", "sync"}
        BY <3>4, TypeFacts DEF BuildSpawn, ReadApplied, ReadMembership,
           IncSnapshotIndex, InsertSnapshotIndex, WriteSnapshotMeta, Builder, Typed
      <4> QED
        BY <4>1, <4>2 DEF MemoryInv, SnapshotNearMeta
    <3> QED
      BY <1>12, <3>1, <3>2, <3>3, <3>4 DEF BuildStep
  <2>7. \A rows, n : Near(rows, n) <=> \E k \in Mark :
          n <= k + 1 /\ rows = RowsBehind(installed', k)
    BY <2>2 DEF Near
  <2> QED
    BY <2>1, <2>2, <2>3, <2>4, <2>5, <2>6, <2>7 DEF MemoryInv, Near
<1>13. CASE UNCHANGED vars
  <2>1. Executed' = Executed
    BY <1>13 DEF vars, state, Executed
  <2> QED
    BY <1>13, <2>1 DEF vars, state, memory, snapshots, MemoryInv, Near,
       SnapshotNearMeta
<1> QED
  BY <1>2, <1>3, <1>4, <1>5, <1>6, <1>7, <1>8, <1>9, <1>10, <1>11, <1>12,
     <1>13 DEF Next, ApplyStep, InstallStep, CurrentStep

LEMMA MemoryInvAtFirst ==
    ASSUME Store = "memory", Init
    PROVE  MemoryInv
<1>1. core.pc = "idle" /\ builder.pc = "idle" /\ attached = FALSE
  BY IdleTyped DEF Init
<1>2. db = EmptyDb /\ file = EmptyDb /\ installed = NoSnapshot /\ built = {}
      /\ lastApplied = 0 /\ applied = 0
  BY DEF Init
<1>3. Executed = 0
  BY <1>1, <1>2 DEF Executed, Applying
<1> QED
  BY <1>1, <1>2, <1>3, RowsBehindEmpty DEF MemoryInv, SnapshotNearMeta

LEMMA SpecKeepsMemoryInv ==
    ASSUME Store = "memory"
    PROVE  Spec => []MemoryInv
<1>1. Init => MemoryInv
  BY MemoryInvAtFirst
<1>2. IInv /\ MemoryInv /\ [Next]_vars => MemoryInv'
  BY NextKeepsMemoryInv DEF IInv
<1> QED
  BY <1>1, <1>2, SpecKeepsIInv, PTL DEF Spec

\* Between any two calls the tables of a memory store are those it was loaded
\* with and what each applied entry behind that leaves there, across crashes and
\* whatever snapshots leaders send.
THEOREM MemoryStateFollowsLog ==
    ASSUME Store = "memory"
    PROVE  Spec => []StateMatchesApplied
<1>1. MemoryInv => StateMatchesApplied
  BY IdleTyped DEF MemoryInv, StateMatchesApplied, Executed, Applying
<1> QED
  BY <1>1, SpecKeepsMemoryInv, PTL

\* The image of a snapshot that is built beside running applies is one point of
\* the log, and lacks no entry but the one its meta names.
THEOREM ImageNearMeta ==
    ASSUME Store = "memory"
    PROVE  Spec => []SnapshotNearMeta
<1>1. MemoryInv => SnapshotNearMeta
  BY DEF MemoryInv
<1> QED
  BY <1>1, SpecKeepsMemoryInv, PTL

-----------------------------------------------------------------------------
\* What the RwLocks of a memory store hold, n being the last entry done with.
FreshMark(n) ==
    lastApplied = n \/ (installed # NoSnapshot /\ n = installed.meta.last)
FreshMembership(n) ==
    \/ lastMembership = MembershipAt(n)
    \/ installed # NoSnapshot /\ MembershipAt(n) <= installed.meta.last

LocksInv ==
    /\ core.pc \in {"idle", "current"} => FreshMark(applied) /\ FreshMembership(applied)
    /\ core.pc \in Applying => FreshMembership(core.at - 1)
    /\ core.pc \in Applying \ {"entry", "row"} => lastApplied = core.at

LEMMA GreatestExists ==
    ASSUME NEW n \in Nat, NEW S \in SUBSET (0..n), S # {}
    PROVE  \E x \in S : \A y \in S : x >= y
<1> DEFINE T == {n - x : x \in S}
<1>1. T \subseteq Nat /\ T # {}
  <2>1. \A x \in S : n - x \in Nat
    OBVIOUS
  <2>2. PICK x \in S : TRUE
    OBVIOUS
  <2> QED
    BY <2>1, <2>2
<1>2. PICK t \in T : \A u \in T : ~(<<u, t>> \in OpToRel(<, Nat))
  BY <1>1, NatLessThanWellFounded, WFMin, Zenon
<1>3. \A u \in T : ~(u < t)
  BY <1>1, <1>2 DEF OpToRel
<1>4. PICK x \in S : t = n - x
  OBVIOUS
<1>5. \A y \in S : x >= y
  <2> SUFFICES ASSUME NEW y \in S PROVE x >= y
    OBVIOUS
  <2>1. ~(n - y < n - x)
    BY <1>3, <1>4
  <2> QED
    BY <2>1
<1> QED
  BY <1>5

LEMMA MembershipNext ==
    ASSUME NEW n \in Index
    PROVE  MembershipAt(n) = IF Payload[n] = "membership" THEN n ELSE MembershipAt(n - 1)
<1> DEFINE S == {0} \cup {i \in 1..n : Payload[i] = "membership"}
<1>1. CASE Payload[n] = "membership"
  <2>1. n \in S /\ \A y \in S : n >= y /\ (y >= n => y = n)
    BY <1>1 DEF Index
  <2>2. Max(S) = n
    BY <2>1 DEF Max
  <2> QED
    BY <1>1, <2>2 DEF MembershipAt
<1>2. CASE Payload[n] # "membership"
  <2>1. S = {0} \cup {i \in 1..n - 1 : Payload[i] = "membership"}
    BY <1>2 DEF Index
  <2> QED
    BY <1>2, <2>1 DEF MembershipAt
<1> QED
  BY <1>1, <1>2

LEMMA MembershipBounded ==
    ASSUME NEW n \in Mark
    PROVE  MembershipAt(n) \in 0..n
<1> DEFINE S == {0} \cup {i \in 1..n : Payload[i] = "membership"}
<1>1. n \in Nat /\ S \in SUBSET (0..n) /\ S # {}
  BY StateMachineAssumption DEF Mark
<1>2. \E x \in S : \A y \in S : x >= y
  BY <1>1, GreatestExists
<1>3. Max(S) \in S
  BY <1>2 DEF Max
<1> QED
  BY <1>1, <1>3 DEF MembershipAt

LEMMA NextKeepsLocksInv ==
    ASSUME Store = "memory", Typed, MemoryInv, LocksInv, [Next]_vars
    PROVE  LocksInv'
<1>1. ASSUME NEW n \in Index, ApplyBegin(n) PROVE LocksInv'
  <2>1. applied \in Int
    BY TypeFacts DEF Typed
  <2>2. core.pc = "idle" /\ core'.pc = "entry" /\ core'.at - 1 = applied
    BY <1>1, <2>1, ApplyBeginEffect
  <2>3. UNCHANGED <<lastApplied, lastMembership, installed>>
    BY <1>1, ApplyBeginEffect
  <2> QED
    BY <2>2, <2>3 DEF LocksInv, FreshMembership, Applying
<1>2. CASE SetAppliedRow
  BY <1>2, SetAppliedRowEffect DEF LocksInv, FreshMembership, Applying
<1>3. CASE SetAppliedMem
  BY <1>3, SetAppliedMemEffect DEF LocksInv, FreshMembership, Applying
<1>4. CASE ApplyBlank \/ Execute \/ SetMembershipMem
  <2>1. /\ core.pc \in Applying /\ core.pc \notin {"entry", "row"}
        /\ core.at \in Index
        /\ UNCHANGED <<lastApplied, installed>>
    BY <1>4, EntryEffect DEF Applying
  <2>2. PICK n \in Index : n = core.at
    BY <2>1
  <2>3. FreshMembership(n - 1) /\ lastApplied = n
    BY <2>1, <2>2 DEF LocksInv
  <2>4. FreshMembership(n)'
    <3>1. CASE Payload[n] = "membership"
      <4>1. lastMembership' = n
        BY <1>4, <2>2, <3>1, EntryEffect
      <4>2. MembershipAt(n) = n
        BY <3>1, MembershipNext
      <4> QED
        BY <4>1, <4>2 DEF FreshMembership
    <3>2. CASE Payload[n] # "membership"
      <4>1. UNCHANGED lastMembership
        BY <1>4, <2>2, <3>2, EntryEffect
      <4>2. MembershipAt(n) = MembershipAt(n - 1)
        BY <3>2, MembershipNext
      <4> QED
        BY <2>1, <2>3, <4>1, <4>2 DEF FreshMembership
    <3> QED
      BY <3>1, <3>2
  <2>5. \/ core'.pc = "idle" /\ applied' = n
        \/ core'.pc = "entry" /\ core'.at - 1 = n
    BY <1>4, <2>1, <2>2, EntryEffect, EntryDoneEffect
  <2>6. CASE core'.pc = "idle" /\ applied' = n
    BY <2>1, <2>3, <2>4, <2>6 DEF LocksInv, FreshMark, FreshMembership, Applying
  <2>7. CASE core'.pc = "entry" /\ core'.at - 1 = n
    BY <2>4, <2>7 DEF LocksInv, FreshMembership, Applying
  <2> QED
    BY <2>5, <2>6, <2>7
<1>5. CASE SetMembershipRow
  BY <1>5, SetMembershipRowEffect DEF LocksInv, FreshMembership, Applying
<1>6. CASE InstallMeta
  <2>1. /\ core'.pc = "idle" /\ applied' = installed.meta.last
        /\ UNCHANGED installed /\ applied < installed.meta.last
    BY <1>6, InstallMetaEffect
  <2>2. PICK n \in Mark : n = installed.meta.last
    BY TypeFacts DEF Typed
  <2>3. installed # NoSnapshot
    BY <2>1, IdleTyped, TypeFacts DEF Typed
  <2>4. MembershipAt(n) <= n
    BY MembershipBounded, StateMachineAssumption DEF Mark
  <2> QED
    BY <2>1, <2>2, <2>3, <2>4 DEF LocksInv, FreshMark, FreshMembership, Applying
<1>7. CASE Restart
  <2>1. /\ core'.pc = "idle" /\ applied' = 0 /\ lastApplied' = 0
        /\ lastMembership' = 0
    BY <1>7, RestartEffect DEF MemoryInv, EmptyDb
  <2>2. 0 \in Mark
    BY StateMachineAssumption DEF Mark
  <2>3. MembershipAt(0) = 0
    BY <2>2, MembershipBounded
  <2> QED
    BY <2>1, <2>3 DEF LocksInv, FreshMark, FreshMembership, Applying
<1>8. CASE ExecuteRejected \/ InstallRefused \/ Crash
           \/ \E s \in Sent : InstallLoad(s)
  <2>1. core'.pc \in {"fatal", "down", "loaded"}
    BY <1>8, ExecuteRejectedEffect, InstallRefusedEffect, CrashEffect,
       InstallLoadEffect
  <2> QED
    BY <2>1 DEF LocksInv, Applying
<1>9. CASE CurrentMeta \/ CurrentFile
  BY <1>9, CurrentEffect DEF LocksInv, FreshMark, FreshMembership, Applying
<1>10. CASE BuildSpawn \/ BuildStep
  BY <1>10, BuildEffect DEF LocksInv, FreshMark, FreshMembership
<1>11. CASE UNCHANGED vars
  BY <1>11 DEF vars, state, memory, LocksInv, FreshMark, FreshMembership
<1> QED
  BY <1>1, <1>2, <1>3, <1>4, <1>5, <1>6, <1>7, <1>8, <1>9, <1>10, <1>11
     DEF Next, ApplyStep, InstallStep, CurrentStep

\* Between two calls the RwLocks of a memory store hold the applied mark and the
\* membership in force, but for what an installed snapshot has brought.
THEOREM LocksFresh ==
    ASSUME Store = "memory"
    PROVE  Spec => []MemoryAgreesWithLog
<1>1. Init => LocksInv
  <2> SUFFICES ASSUME Init PROVE LocksInv
    OBVIOUS
  <2>1. 0 \in Mark
    BY StateMachineAssumption DEF Mark
  <2>2. MembershipAt(0) = 0
    BY <2>1, MembershipBounded
  <2> QED
    BY <2>2, IdleTyped DEF Init, LocksInv, FreshMark, FreshMembership, Applying
<1>2. IInv /\ MemoryInv /\ LocksInv /\ [Next]_vars => LocksInv'
  BY NextKeepsLocksInv DEF IInv
<1>3. LocksInv => MemoryAgreesWithLog
  BY IdleTyped DEF LocksInv, FreshMark, FreshMembership, MemoryAgreesWithLog
<1> QED
  BY <1>1, <1>2, <1>3, SpecKeepsIInv, SpecKeepsMemoryInv, PTL DEF Spec
=============================================================================
