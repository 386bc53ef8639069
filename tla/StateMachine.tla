---------------------------- MODULE StateMachine ----------------------------
(***************************************************************************)
(* The state machine half of RaftStore (src/src/storage/raft.rs): applying *)
(* entries, building, installing and returning snapshots, and reopening.   *)
(*                                                                         *)
(* Two tasks work on it.  core is openraft's core, which applies entries,  *)
(* installs snapshots and asks for the current one.  builder is the task   *)
(* openraft spawns for build_snapshot; it runs beside core.  Each action   *)
(* is what one of them does between two awaits: one statement on a         *)
(* connection, one file operation, or one access to an RwLock.             *)
(*                                                                         *)
(* A log id is its index (0 for none) and a membership is the index of the *)
(* entry that carried it.  The application tables are reduced to how often *)
(* each entry's SQL has been executed on them.                             *)
(***************************************************************************)
EXTENDS Integers, FiniteSetsExt

CONSTANTS
    MaxIndex,   \* bound: entries 1..MaxIndex are committed
    Payload,    \* the kind of each entry's payload
    Rejected,   \* entries whose SQL the database refuses
    Store,      \* "disk": data.db; "memory": `:memory:`
    MaxBuilds,  \* bound: snapshots whose id is taken from the store
    Sent        \* the snapshots that leaders send

Index == 1..MaxIndex
Mark == 0..MaxIndex
None == -1
Peer == -2  \* the build number of a snapshot another node built

Meta == [last : Mark, memb : Mark, build : Nat \cup {None, Peer}]
NoMeta == [last |-> 0, memb |-> 0, build |-> None]

Db == [applied : Mark, memb : Mark, meta : Meta, rows : [Index -> Nat]]
EmptyDb == [applied |-> 0, memb |-> 0, meta |-> NoMeta,
            rows |-> [i \in Index |-> 0]]

Snapshot == [meta : Meta, image : Db]
NoSnapshot == [meta |-> NoMeta, image |-> EmptyDb]

\* Nothing relates the image of a snapshot from another node to its meta: the
\* node that built it went on applying, see SnapshotExact.
ASSUME StateMachineAssumption ==
    /\ MaxIndex \in Nat
    /\ Payload \in [Index -> {"blank", "normal", "membership"}]
    /\ Rejected \subseteq {i \in Index : Payload[i] = "normal"}
    /\ Store \in {"disk", "memory"}
    /\ MaxBuilds \in Nat
    /\ Sent \subseteq Snapshot

VARIABLES
    db,              \* what the data connection sees
    file,            \* what reopening the data path would find
    attached,        \* whether the connection still writes to that path
    lastApplied,     \* StateMachine::last_applied_log
    lastMembership,  \* StateMachine::last_membership
    snapshotFile,    \* snapshot.db
    snapshotIndex,   \* row snapshot_index of the log store
    applied,         \* what openraft believes is applied
    installed,       \* the last snapshot this process has loaded
    core,            \* openraft's core
    builder,         \* the task that builds a snapshot
    built            \* what build_snapshot has returned

state == <<db, file, attached, installed>>
memory == <<lastApplied, lastMembership>>
snapshots == <<snapshotFile, snapshotIndex, built>>
vars == <<state, memory, snapshots, applied, core, builder>>

\* The membership in force at n, and what the SQL of 1..n leaves behind, or
\* that of the entries behind a snapshot s on the image of s.
MembershipAt(n) ==
    Max({0} \cup {i \in 1..n : Payload[i] = "membership"})
Runs(i) == Payload[i] = "normal" /\ i \notin Rejected
RowsBehind(s, n) ==
    [i \in Index |->
       s.image.rows[i] + IF s.meta.last < i /\ i <= n /\ Runs(i) THEN 1 ELSE 0]
RowsAt(n) == RowsBehind(NoSnapshot, n)

Core == [pc : {"idle", "entry", "row", "blank", "normal", "membership", "memb",
               "loaded", "current", "fatal", "down"},
         at : Mark, upto : Mark, meta : Meta]
Builder == [pc : {"idle", "applied", "membership", "index", "insert", "meta",
                  "serialize", "write", "sync"},
            meta : Meta, image : Db]

NoFile == [image |-> EmptyDb, whole |-> FALSE]

CoreIdle == [pc |-> "idle", at |-> 0, upto |-> 0, meta |-> NoMeta]
BuilderIdle == [pc |-> "idle", meta |-> NoMeta, image |-> EmptyDb]

Init ==
    /\ db = EmptyDb
    /\ file = EmptyDb
    /\ attached = (Store = "disk")
    /\ lastApplied = 0
    /\ lastMembership = 0
    /\ snapshotFile = NoFile
    /\ snapshotIndex = None
    /\ applied = 0
    /\ installed = NoSnapshot
    /\ core = CoreIdle
    /\ builder = BuilderIdle
    /\ built = {}

\* A committed statement on the data connection.
Commit(d) ==
    /\ db' = d
    /\ file' = IF attached THEN d ELSE file
    /\ UNCHANGED <<attached, installed>>

-----------------------------------------------------------------------------
(* apply_to_state_machine *)

\* Faulty variant: the mark in memory moves for the whole batch at once.
ApplyBegin_BatchMark(upto) ==
    /\ core = CoreIdle
    /\ applied < upto
    /\ core' = [core EXCEPT !.pc = "entry", !.at = applied + 1, !.upto = upto]
    /\ lastApplied' = upto
    /\ UNCHANGED <<state, lastMembership, snapshots, applied, builder>>

ApplyBegin(upto) ==
    /\ core = CoreIdle
    /\ applied < upto
    /\ core' = [core EXCEPT !.pc = "entry", !.at = applied + 1, !.upto = upto]
    /\ UNCHANGED <<state, memory, snapshots, applied, builder>>

\* Faulty variant: the mark is kept in memory only.
SetAppliedRow_NotSaved ==
    /\ core.pc = "entry"
    /\ core' = [core EXCEPT !.pc = "row"]
    /\ UNCHANGED <<state, memory, snapshots, applied, builder>>

SetAppliedRow ==
    /\ core.pc = "entry"
    /\ Commit([db EXCEPT !.applied = core.at])
    /\ core' = [core EXCEPT !.pc = "row"]
    /\ UNCHANGED <<memory, snapshots, applied, builder>>

\* ... and the match on the payload.
SetAppliedMem ==
    /\ core.pc = "row"
    /\ lastApplied' = core.at
    /\ core' = [core EXCEPT !.pc = Payload[core.at]]
    /\ UNCHANGED <<state, lastMembership, snapshots, applied, builder>>

\* Faulty variant: the loop runs once too often.
EntryDone_OneMore ==
    /\ IF core.at > core.upto
       THEN core' = CoreIdle /\ applied' = core.upto
       ELSE core' = [core EXCEPT !.pc = "entry", !.at = @ + 1] /\ UNCHANGED applied

\* The end of the loop's body; openraft moves its mark when the call returns.
EntryDone ==
    /\ IF core.at = core.upto
       THEN core' = CoreIdle /\ applied' = core.upto
       ELSE core' = [core EXCEPT !.pc = "entry", !.at = @ + 1] /\ UNCHANGED applied

ApplyBlank ==
    /\ core.pc = "blank"
    /\ EntryDone
    /\ UNCHANGED <<state, memory, snapshots, builder>>

Execute ==
    /\ core.pc = "normal"
    /\ core.at \notin Rejected
    /\ Commit([db EXCEPT !.rows[core.at] = @ + 1])
    /\ EntryDone
    /\ UNCHANGED <<memory, snapshots, builder>>

\* Faulty variant: the mark is rolled back, so the entry is tried for ever.
ExecuteRejected_RolledBack ==
    /\ core.pc = "normal"
    /\ core.at \in Rejected
    /\ Commit([db EXCEPT !.applied = core.at - 1])
    /\ core' = [CoreIdle EXCEPT !.pc = "fatal"]
    /\ UNCHANGED <<memory, snapshots, applied, builder>>

\* An SQL error is returned as a StorageError, which stops openraft's core.
ExecuteRejected ==
    /\ core.pc = "normal"
    /\ core.at \in Rejected
    /\ core' = [CoreIdle EXCEPT !.pc = "fatal"]
    /\ UNCHANGED <<state, memory, snapshots, applied, builder>>

SetMembershipRow ==
    /\ core.pc = "membership"
    /\ Commit([db EXCEPT !.memb = core.at])
    /\ core' = [core EXCEPT !.pc = "memb"]
    /\ UNCHANGED <<memory, snapshots, applied, builder>>

\* Faulty variant: the RwLock keeps the old membership.
SetMembershipMem_RowOnly ==
    /\ core.pc = "memb"
    /\ EntryDone
    /\ UNCHANGED <<state, memory, snapshots, builder>>

SetMembershipMem ==
    /\ core.pc = "memb"
    /\ lastMembership' = core.at
    /\ EntryDone
    /\ UNCHANGED <<state, lastApplied, snapshots, builder>>

-----------------------------------------------------------------------------
(* install_snapshot; openraft aborts a build that is running. *)

\* sqlite3_deserialize replaces the connection's database by an in-memory one.
Load(s, image) ==
    /\ core = CoreIdle
    /\ applied < s.meta.last
    /\ db' = image
    /\ attached' = FALSE
    /\ installed' = s
    /\ core' = [core EXCEPT !.pc = "loaded", !.meta = s.meta]
    /\ builder' = BuilderIdle
    /\ UNCHANGED <<file, memory, snapshots, applied>>

\* Faulty variant: the mark is taken from the snapshot, the tables are not.
InstallLoad_MarkOnly(s) == Load(s, [db EXCEPT !.applied = s.meta.last])

InstallLoad(s) == Load(s, s.image)

InstallMeta ==
    /\ core.pc = "loaded"
    /\ Commit([db EXCEPT !.meta = core.meta])
    /\ core' = CoreIdle
    /\ applied' = core.meta.last
    /\ UNCHANGED <<memory, snapshots, builder>>

\* The image is refused, or the meta row on it: openraft's core stops.
InstallRefused ==
    /\ \/ core = CoreIdle /\ \E s \in Sent : applied < s.meta.last
       \/ core.pc = "loaded"
    /\ core' = [CoreIdle EXCEPT !.pc = "fatal"]
    /\ builder' = BuilderIdle
    /\ UNCHANGED <<state, memory, snapshots, applied>>

-----------------------------------------------------------------------------
(* get_current_snapshot: the meta comes from the database ... *)

CurrentMeta ==
    /\ core = CoreIdle
    /\ db.meta # NoMeta
    /\ core' = [core EXCEPT !.pc = "current", !.meta = db.meta]
    /\ UNCHANGED <<state, memory, snapshots, applied, builder>>

\* ... and the image from snapshot.db, if there is one.
CurrentFile ==
    /\ core.pc = "current"
    /\ core' = CoreIdle
    /\ UNCHANGED <<state, memory, snapshots, applied, builder>>

-----------------------------------------------------------------------------
(* build_snapshot *)

BuildSpawn ==
    /\ core = CoreIdle
    /\ builder = BuilderIdle
    /\ snapshotIndex < MaxBuilds - 1
    /\ builder' = [builder EXCEPT !.pc = "applied"]
    /\ UNCHANGED <<state, memory, snapshots, applied, core>>

ReadApplied ==
    /\ builder.pc = "applied"
    /\ builder' = [builder EXCEPT !.pc = "membership", !.meta.last = lastApplied]
    /\ UNCHANGED <<state, memory, snapshots, applied, core>>

ReadMembership ==
    /\ builder.pc = "membership"
    /\ builder' = [builder EXCEPT !.pc = "index", !.meta.memb = lastMembership]
    /\ UNCHANGED <<state, memory, snapshots, applied, core>>

\* Faulty variant: the value before the increment is returned.
IncSnapshotIndex_ReturnsOld ==
    /\ builder.pc = "index"
    /\ IF snapshotIndex = None
       THEN /\ builder' = [builder EXCEPT !.pc = "insert"]
            /\ UNCHANGED snapshotIndex
       ELSE /\ snapshotIndex' = snapshotIndex + 1
            /\ builder' = [builder EXCEPT !.pc = "meta", !.meta.build = snapshotIndex]
    /\ UNCHANGED <<state, memory, snapshotFile, built, applied, core>>

\* UPDATE ... SET value = value + 1 ... RETURNING value
IncSnapshotIndex ==
    /\ builder.pc = "index"
    /\ IF snapshotIndex = None
       THEN /\ builder' = [builder EXCEPT !.pc = "insert"]
            /\ UNCHANGED snapshotIndex
       ELSE /\ snapshotIndex' = snapshotIndex + 1
            /\ builder' = [builder EXCEPT !.pc = "meta", !.meta.build = snapshotIndex + 1]
    /\ UNCHANGED <<state, memory, snapshotFile, built, applied, core>>

InsertSnapshotIndex ==
    /\ builder.pc = "insert"
    /\ snapshotIndex' = 0
    /\ builder' = [builder EXCEPT !.pc = "meta", !.meta.build = 0]
    /\ UNCHANGED <<state, memory, snapshotFile, built, applied, core>>

\* Faulty variant: an insert that keeps a row that is there.
WriteSnapshotMeta_KeepOld ==
    /\ builder.pc = "meta"
    /\ Commit([db EXCEPT !.meta = IF @ = NoMeta THEN builder.meta ELSE @])
    /\ builder' = [builder EXCEPT !.pc = "serialize"]
    /\ UNCHANGED <<memory, snapshots, applied, core>>

WriteSnapshotMeta ==
    /\ builder.pc = "meta"
    /\ Commit([db EXCEPT !.meta = builder.meta])
    /\ builder' = [builder EXCEPT !.pc = "serialize"]
    /\ UNCHANGED <<memory, snapshots, applied, core>>

Serialize ==
    /\ builder.pc = "serialize"
    /\ builder' = [builder EXCEPT !.pc = "write", !.image = db]
    /\ UNCHANGED <<state, memory, snapshots, applied, core>>

\* The file is overwritten in place, so a crash may leave it torn ...
WriteBegin ==
    /\ builder.pc = "write"
    /\ snapshotFile' = [image |-> builder.image, whole |-> FALSE]
    /\ builder' = [builder EXCEPT !.pc = "sync"]
    /\ UNCHANGED <<state, memory, snapshotIndex, built, applied, core>>

\* ... until the build returns.
WriteEnd ==
    /\ builder.pc = "sync"
    /\ snapshotFile' = [image |-> builder.image, whole |-> TRUE]
    /\ built' = built \cup
         {[meta |-> builder.meta, image |-> builder.image, base |-> installed]}
    /\ builder' = BuilderIdle
    /\ UNCHANGED <<state, memory, snapshotIndex, applied, core>>

-----------------------------------------------------------------------------
\* The process stops; what it held in memory is gone.
Crash ==
    /\ core.pc # "down"
    /\ core' = [CoreIdle EXCEPT !.pc = "down"]
    /\ builder' = BuilderIdle
    /\ db' = file
    /\ installed' = NoSnapshot
    /\ lastApplied' = 0
    /\ lastMembership' = 0
    /\ UNCHANGED <<file, attached, snapshots, applied>>

\* RaftStore::open and create_state_machine; openraft then takes the applied
\* mark from last_applied_state.
Restart ==
    /\ core.pc \in {"down", "fatal"}
    /\ db' = file
    /\ attached' = (Store = "disk")
    /\ lastApplied' = file.applied
    /\ lastMembership' = file.memb
    /\ applied' = file.applied
    /\ installed' = NoSnapshot
    /\ core' = CoreIdle
    /\ builder' = BuilderIdle
    /\ UNCHANGED <<file, snapshots>>

ApplyStep ==
    \/ SetAppliedRow \/ SetAppliedMem \/ ApplyBlank \/ Execute
    \/ ExecuteRejected \/ SetMembershipRow \/ SetMembershipMem

InstallStep == InstallMeta \/ InstallRefused \/ \E s \in Sent : InstallLoad(s)

CurrentStep == CurrentMeta \/ CurrentFile

BuildStep ==
    \/ ReadApplied \/ ReadMembership \/ IncSnapshotIndex \/ InsertSnapshotIndex
    \/ WriteSnapshotMeta \/ Serialize \/ WriteBegin \/ WriteEnd

Next ==
    \/ \E n \in Index : ApplyBegin(n)
    \/ ApplyStep \/ InstallStep \/ CurrentStep
    \/ BuildSpawn \/ BuildStep
    \/ Crash \/ Restart

Spec == Init /\ [][Next]_vars

-----------------------------------------------------------------------------
TypeOK ==
    /\ db \in Db
    /\ file \in Db
    /\ attached \in BOOLEAN
    /\ lastApplied \in Mark
    /\ lastMembership \in Mark
    /\ snapshotFile \in [image : Db, whole : BOOLEAN]
    /\ snapshotIndex \in Nat \cup {None}
    /\ applied \in Mark
    /\ installed \in Snapshot
    /\ core \in Core
    /\ builder \in Builder
    /\ built \subseteq [meta : Meta, image : Db, base : Snapshot]

\* A process executes an entry's SQL at most once on a database, and only if
\* the entry is behind what the database was loaded with, whatever interrupts
\* apply_to_state_machine: the applied row is written before the SQL runs, so
\* nothing above it has run.  file is what the next process goes on with, so
\* across restarts no SQL is executed twice either.  What a leader's image
\* brings along is not this node's to answer for.
AtMostOnce(d, s) ==
    \A i \in Index :
        \/ d.rows[i] = s.image.rows[i]
        \/ /\ d.rows[i] = s.image.rows[i] + 1
           /\ s.meta.last < i /\ i <= d.applied

AppliedAtMostOnce == AtMostOnce(db, installed) /\ AtMostOnce(file, NoSnapshot)

\* The tables in a snapshot's image are those of one point of the log, at the
\* earliest in front of the entry that its meta names: build_snapshot reads its
\* mark from an RwLock that apply_to_state_machine sets before the entry's SQL
\* runs, awaits several store calls, and serializes a database that goes on
\* changing, but it finds no entry half applied and skips no more than one.
SnapshotNearMeta ==
    \A s \in built : \E k \in Mark :
        s.meta.last <= k + 1 /\ s.image.rows = RowsBehind(s.base, k)

\* A snapshot's own meta row is the meta it is returned with, so a node that
\* installs it reads back the same meta.
SnapshotSelfDescribing == \A s \in built : s.image.meta = s.meta

\* Two snapshots of a node differ in their id, also across crashes between
\* the UPDATE and the INSERT of get_and_inc_snapshot_index.
SnapshotIdsUnique ==
    \A s, t \in built : s.meta.build = t.meta.build => s = t

\* Between two calls the tables are what the process was loaded with and what
\* each applied entry behind that leaves there.
StateMatchesApplied == core = CoreIdle => db.rows = RowsBehind(installed, applied)

\* Between two calls the RwLocks that last_applied_state and build_snapshot read
\* hold the applied mark and the membership in force there.  install_snapshot
\* leaves them stale, and they stay so until the first entry behind it, and
\* the first membership behind it, is applied, but no longer.
MemoryAgreesWithLog ==
    core = CoreIdle =>
        /\ \/ lastApplied = applied
           \/ installed # NoSnapshot /\ applied = installed.meta.last
        /\ \/ lastMembership = MembershipAt(applied)
           \/ installed # NoSnapshot /\ MembershipAt(applied) <= installed.meta.last

\* What openraft takes for applied, it finds applied after a restart: the
\* state_store path keeps the state ("any valid path accepted by SQLite",
\* raft.rs:208) unless it is `:memory:`.
AppliedOnDisk == Store = "disk" => applied <= file.applied

\* A snapshot's tables are those that the entries up to meta.last leave behind.
SnapshotExact == \A s \in built : s.image.rows = RowsAt(s.meta.last)

\* When get_current_snapshot reads snapshot.db, it finds the whole image that
\* belongs to the meta it has read before.
CurrentSnapshotMatches ==
    core.pc = "current" /\ snapshotFile # NoFile =>
        snapshotFile = [image |-> [snapshotFile.image EXCEPT !.meta = core.meta],
                        whole |-> TRUE]
=============================================================================
