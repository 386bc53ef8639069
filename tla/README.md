# Replicat: models and proofs

Replicat keeps a SQLite database replicated: `openraft` decides on a log of SQL
statements, and this crate supplies what `openraft` needs, a log store, a state
machine and a network, each on top of SQLite or gRPC. This directory holds TLA+
modules translated from that code, TLC configurations that check them on small
instances and TLAPS proofs about them for every instance.

## Inventory

| Part (source) | State | Operations | Hard about it |
|---|---|---|---|
| Storage handle (`src/src/storage/mod.rs`) | a bounded `flume` channel of tasks, one worker thread that owns the connection, a oneshot per call, raw buffers that SQLite allocated | `submit_task` (under `execute`, `fetch_one`, `fetch_all`, `serialize`, `load_from_serialized`, `create_memory_copy`), `run_tasks` | full channel, futures dropped at an await, a panicking task, the end of the last clone; a buffer freed twice or never in any of these |
| Raft log store (`src/src/storage/raft.rs`, `log.db`) | table `replicat_raft_logs`, rows `last_purged_id`, `vote`, `snapshot_index` | `append_to_log`, `delete_conflict_logs_since`, `purge_logs_upto`, `save_vote`, `get_log_state`, `try_get_log_entries` | every statement is a transaction of its own, so a call with several may be cut by a crash; commits are not synced; reads have `u64` bounds and no `ORDER BY` |
| State machine store (`raft.rs`, the data database) | the application's tables, rows `last_applied_log`, `last_membership`, `snapshot_meta`, the two `RwLock`s of `StateMachine`, `snapshot.db` | `apply_to_state_machine`, `build_snapshot`, `install_snapshot`, `get_current_snapshot`, `last_applied_state`, `open` | the mark and the SQL are two transactions; builds run beside applies; meta row, locks, image and file change at different times |
| Raft network (`src/src/rpc/raft.rs`) | clients by node id | `get_or_connect_client`, `new_client`, `send_vote`, `send_append_entries`, `send_install_snapshot` | concurrent connects, a node whose address changes, answers that are late, lost or errors in disguise |
| RPC client and server (`src/src/rpc/client.rs`, `server.rs`) | none but the channel and the `Raft` handle | seven RPCs, the mapping of errors to answers and back | answers without a leader, errors that the client does not look at |
| Client (`src/src/client.rs`) | the leader cell shared by all clones | `execute` with three tries, local reads | clones that overwrite each other's leader |
| Conversions (`params.rs`, `from_row_impl.rs`, `lib.rs`, `rpc_models.rs`) | none | | |

The application calls a client; the client calls `mutate_state` on the leader's
RPC server, which hands the statement to `openraft`; `openraft`'s core task calls
the store (log first, then, once committed, the state machine) and the network;
a task it spawns calls `build_snapshot` beside the core. The store's only way to
SQLite is a storage handle, so two tasks interleave between statements, never
within one. The other nodes' `openraft` reach the store through the same RPC
server: votes, entries and the chunks of snapshots.

What makes each part correct: the handle is one serial connection, loses no
answer and no buffer; the log store has no hole, after any crash holds what
`openraft` believes and answers a read with exactly the range that was asked
for; the state machine applies each entry exactly once and a snapshot is the
state after the log id it names; the log and the state of a node together lose
nothing; what the network reports as a success has happened on the other node;
a client's statement reaches the leader or the client is told that it did not.

## Modules

| Module | What it is |
|---|---|
| `PersistentLog` | abstract: what a Raft core is promised by its log store |
| `RaftLog` | the log half of `RaftStore`, statement by statement, with crashes and power losses; implements `PersistentLog` |
| `LogReader` | extends `RaftLog` with `try_get_log_entries` and `logs_query`, and with the order in which SQLite scans the table |
| `RaftLogProofs`, `LogReaderProofs` | theorems about `RaftLog` and `LogReader` |
| `StateMachine` | the state machine half of `RaftStore`, await by await, with crashes, restarts, concurrent builds and installs |
| `StateMachineProofs` | theorems about `StateMachine` |
| `RaftStore` | the composition of a log (`PersistentLog`) and `StateMachine` in one node |
| `RaftStoreProofs` | theorems about `RaftStore`; it implements `StateMachine` |
| `SerialConnection` | abstract: what a storage handle promises its callers |
| `StorageHandle` | the SQLite actor; implements `SerialConnection` |
| `SqliteMemory` | extends `StorageHandle` with the owners of the raw buffers of `serialize` and `load_from_serialized` |
| `RaftNetwork` | the three Raft calls between nodes: client, wire, server and what the answers are counted for |
| `StorageHandleProofs`, `SqliteMemoryProofs` | theorems about `StorageHandle`, which implements `SerialConnection`, and about `SqliteMemory`, which implements `StorageHandle` |
| `RaftNetworkProofs` | theorems about `RaftNetwork` |
| `Client` | `execute`, the leader cell and the connection table that clones share, `mutate_state` on both sides |
| `ClientProofs` | theorems about `Client` |
| `MCRaftLog` (with `LogReader`), `MCStateMachine`, `MCRaftStore`, `MCStorageHandle` (with `SqliteMemory`), `MCRaftNetwork`, `MCClient` | values of the constants, symmetry |

Operators whose name has a suffix behind `_` and whose comment begins with
"Faulty variant" are not part of any specification. Each is a plausible bug in
the operator behind it and shows that a property can tell the code from it.

### RaftLog

`logs`, `purged` and `vote` are the committed content of `log.db`; an entry is
its leader id, which is what tells it from a truncated entry at the same index.
`raft` is `openraft`'s view, which it changes before it calls the store; `op` is
the call in progress. A call with one statement is one action (`SaveVote`,
`DeleteConflictLogsSince`); `append_to_log` is `AppendToLog` and one `AppendRow`
per turn of its loop, `purge_logs_upto` is `PurgeLogsUpto` (the mark) and
`PurgeRows`. `Crash` may fall between any two. `Open` is `RaftStore::open`
followed by `get_log_state` and `read_vote`. For power losses `durable` holds the
content at the last sync: in WAL mode with `synchronous = normal` (`raft.rs:740-742`)
SQLite syncs only when it checkpoints.

### LogReader

`QueryStart` and `QueryEnd` are the arithmetic of `logs_query` on integers of
`Bits` bits, as a release build does it, and `LogsQuery` is the `WHERE` clause.
The query has no `ORDER BY`; `openraft` wants the entries in order. SQLite may
walk the index or the table, and a table is walked by rowid: `rowid` gives each
index the rowid of its row, and 0 where there is none. An inserted row gets the
largest rowid plus one, an upsert of an index that is there keeps its rowid.
`ScanInOrder` holds because the log is truncated before an index is written
again and `append_to_log` inserts in rising order. `BitsAssumption` says that the
indexes fit into half of the range of `Bits` bits (64 in the code), together with
the two facts about powers of two that the provers cannot compute.

### StateMachine

`db` is what the data connection sees and `file` what reopening the path would
find; they are the same while the connection is `attached`. `db.rows` counts for
each entry how often its SQL has run, which is all that the properties need of
the application's tables. `core` and `builder` are the program counters of
`openraft`'s core and of a build, with their local variables. An action is what
one task does between two awaits. A log id is its index; a membership is the
index of the entry that carried it. `openraft` (external) makes one store call
at a time from its core, aborts a running build when it installs a snapshot
(the only place where a build is aborted besides a crash), and stops its core
on a `StorageError`, an image or a meta row that is refused included
(`InstallRefused`).

`Sent` holds the snapshots that leaders may send, and nothing relates the image
of one to its meta: `build_snapshot` on the leader runs beside applies, and
`SnapshotExact` is violated there as it is here. `installed` is the snapshot the
process has loaded last (`Load`, `InstallLoad`), `NoSnapshot` at the start, and
what the tables should hold is stated relative to it: `RowsBehind(s, n)` is the
image of `s` and what the SQL of the entries behind `s` up to `n` leaves there.
A snapshot in `built` remembers in `base` what was loaded when it was built.
Neither `installed` nor `base` is read by any action.

### RaftStore

One node: the log is an instance of `PersistentLog`, which `RaftLog` is shown to
implement, and the state machine is `StateMachine`. `openraft`'s core makes one
store call at a time; it applies what it reads from the log (`Apply`), purges up
to the last snapshot that it knows of (`PurgeLogsUpto`, `snapshotLast`), and asks
for the current snapshot when it starts (`Reopen`). A crash keeps the log and
whatever of the state is in a file. Entry `i` of `StateMachine` is the entry at
index `i - 1` of the log.

### StorageHandle

`queue` is the channel; `waiting` the line of senders that found it full, as
`flume` keeps it: `recv` first lets waiting senders in, up to one above the
capacity, then takes the first task. `running` and `ran` are the worker between
`recv` and `tx.send`; `reply` is the oneshot, with a result reduced to the place
of the call among the executed ones. `Cancel` is a dropped future: a waiting
sender leaves the line, a task in the channel stays and will run. When a task
panics the worker thread ends; its caller and the waiting senders panic as well,
while tasks in the channel are neither run nor dropped as long as a sender is
left, so their callers wait for ever. `SerialConnection` therefore lets calls be
withdrawn from any places of the line at once (`Withdraw`): one by a cancelled
future, all waiting senders by a panic, the whole line with the last handle; what
stays keeps its order (`LeftOf`). `create_memory_copy` starts a second
worker with a channel of its own, which is another instance of the module.

### SqliteMemory

`holders` says who will free a buffer that a call has allocated: the caller, the
closure (in the line, in the channel or running), its result, the oneshot, or
the connection that was given the image. Every step of `StorageHandle` is joined
with what it moves, drops and allocates: a failed send drops the closure, a
cancelled call its oneshot, a result that nobody waits for is dropped by the
worker, `ManuallyDrop` takes the buffer from the closure when `deserialize_db`
has handed it over, and SQLite frees an image that it refuses. `OneHolder` counts
the owners of a buffer; `OwnersLive` says that each of them is still there to free
it.

### RaftNetwork

`saved` is each node's `log.db`; `core` is its `openraft`, modelled as far as it
calls this code: a candidate counts grants, a leader appends an entry of its own
and counts the nodes that store it, or sends a snapshot in `Chunks` chunks to the
nodes in `Behind`. `calls` are requests that are travelling, answered or lost.
A request goes to the address of the connection that `new_client` found or
made, which may be an old one of its node, and whoever listens there answers.
`AnswerFatal` and `AnswerMismatch` are the two error answers: their
`additional_data` does not decode as the response (`rpc/client.rs:90`), so
`Positive` is false of them. A snapshot of which a chunk is missing would leave
no usable state, so `AnswerChunk` keeps an empty log for it; `CommittedKept`
would fail if it ever happened.

### Client

`leader` is the cell that all clones of a client share, `clients` the table of
`ReplicatNetwork`; `call` holds the calls of `execute` with their local
variables. Every lock is released before the next step, so reading the cell
(`ReadCell`), looking the connection up (`LookUp`), filing a new one (`Connect`,
or `ConnectInvalid` for an address that does not make a URI) and overwriting the cell (`Redirect`) are actions of their own and those of two
calls interleave. `LookUp` takes the connection that is there whatever its
address is, as `addr == addr` (`rpc/raft.rs:40`) compares it with itself. From
`sent` on a call is at a node: it is refused with a redirect or with `Fatal`,
or it is proposed, committed and answered; a core that stops or is deposed drops
the calls in progress, which the `Raft` handle turns into `Fatal`. `openraft`
answers `ForwardToLeader` only for a statement it has not taken (assumed, as is
that an entry is committed once). `TakeOk` takes `Fatal` for success
(`rpc/client.rs:172-176`), `TakeNoLeader` is the `unwrap` of a leader that a
node without one does not send. `raftLeader`, `knows`, `stopped` and `addrOf`
are the cluster: elections of which nodes learn late, nodes that stand for
election in vain, stopped cores, nodes that come back at another address.
`Settled` is a cluster in which every node runs, is where it has always been and
knows the leader; a node that has moved is never found again through a connection
that was made before, so `FoundWhenSettled` could not promise more.

## Runs

| Run | Result | Shows |
|---|---|---|
| `log_calls` | holds | type; `NoHole`; `AgreesWithRaft`; `ReadsExact`; `ScanInOrder`; `ImplementsPersistentLog` |
| `store_disk` | holds | a node on disk, without installs: type; `AppliedAtMostOnce`; `SnapshotSelfDescribing`; `AppliedOnDisk`; `LogRecreatesState`; `LoggedIsApplied` |
| `store_memory` | holds | a node in memory, with installs of exact and inexact images: `SnapshotNearMeta`; `StateMatchesApplied`; `MemoryAgreesWithLog`; `SnapshotIdsUnique` |
| `store_replay` | **violated** | `LogRecreatesState` in memory: the log is purged behind a snapshot, and the state it would re-create is gone with the process |
| `sm_lost_entry` | **violated** | `StateMatchesApplied` on disk: the mark is committed before the SQL |
| `sm_snapshot_overlap` | **violated** | `SnapshotExact`: an image without the entry its meta names |
| `sm_install_lost` | **violated** | `AppliedOnDisk`: an install detaches the data file |
| `sm_current_snapshot` | **violated** | `CurrentSnapshotMatches`: meta row and `snapshot.db` differ |
| `handle_calls` | holds | type; `BoundedFifo`; `OneHolder`; `OwnersLive`; `ImplementsSerialConnection`; `Answered`; `ThreadEnds`; `AllFreed` |
| `network_calls` | holds | type; `CountedIsStored`; `CommittedKept` |
| `client_calls` | holds | type; `AtMostOnce`; `AddressesBelong`; `FoundWhenSettled`; `RedirectsEnd` |
| `client_success` | **violated** | `SuccessMeansAccepted`: `execute` returns `Ok` for a statement that a stopped node refused |

The violated runs check what the source says of itself; `PROJECT.json` quotes
the lines. Two of them deserve a word. `AppliedAtMostOnce` and
`StateMatchesApplied` are the two sides of one choice: committing the mark first
never runs an entry twice and may lose one.

And an image may miss its meta in either direction. A build reads its mark from
the `RwLock`, which `apply_to_state_machine` sets before the entry's SQL runs
(`raft.rs:553` and `562`), and serializes the database later. If it serializes
before that SQL has run, the image lacks the entry its meta names, and a node that
installs it never runs it: this is the trace of `sm_snapshot_overlap`. If entries
are applied in between, the image is ahead, and a node that installs it runs them
again. `SnapshotNearMeta` is what does hold: the tables in the image are those of
one point of the log, with no entry half applied, and at most the one entry that
the meta names is missing. For a node this means that `StateMatchesApplied` and
`AppliedAtMostOnce` hold behind what it has loaded, and not of the whole log: what
an inexact image brings along or lacks stays that way. `store_memory` installs
four images to show it: an exact one, one ahead of its meta, one without the
entry its meta names, and one whose file is older than its meta.

`AppliedAtMostOnce` is checked where nothing is installed and proved for any
`Sent`; `SnapshotSelfDescribing` is checked on disk, where one builder at a time
is the only one to write the meta row, and proved for any store.

`ImplementsPersistentLog` says that process crashes change nothing and that a
power loss takes the log back to a sync: `PowerLoss` is an action of
`PersistentLog`, so the loss of acknowledged votes and entries is what the
refinement allows, and what `NoHole` and `ScanInOrder` say of it is that the log
that is left is one. That an interrupted purge is made up for before its rows
matter (`SoundView`) rests on `openraft`, which purges again when it finds the
last log id behind the last applied one; a node that has lost its applied mark,
in memory or detached, may not do so.

`Answered` is stated for a worker that lives; behind a panicking task calls in
the channel are not answered, and nothing here promises that they are.

`ReadsExact` speaks of ranges that contain an index. `openraft` does not ask for
others; for `..0` a release build wraps around in `x - 1` and selects every row.

`CountedIsStored` needs that no node takes over an address that another one had:
a request does not say which node it is for, so if `b` comes up where `a` was,
a candidate with an old connection or an old membership takes the grant of `b`
for one of `a`. `Restart` therefore only moves to addresses that no node has
had, and a trial without this condition finds the property violated: the takeover
of an address is excluded here, not caught. Nor is a power loss: the log.db of
`RaftNetwork` never goes back, so `CommittedKept` says nothing of votes and
entries that `synchronous = normal` has not brought to the disk.

### Bounds

- `RaftLog`: indexes 0..3 and batches of up to 2 entries let an append be cut in
  the middle, a truncated index be written again by another leader, and a purge
  end below, at and behind the last entry; two leader ids tell an entry from its
  replacement; two votes suffice for an order.
- `LogReader`: `Bits` = 4 stands for 64 and leaves room above `MaxIndex`, so that
  a wrapped bound is far from every index, as it is in the code. The bounds that
  `ReadsExact` asks for reach one index above the log.
- `StateMachine`: four entries contain each kind of payload and a second normal
  entry behind the refused one; batches are any prefix of what is left. Two
  builds are needed for ids and for a meta row that is overwritten, and more
  add nothing new. In `store_memory` the log has three entries, with two
  memberships, because installs multiply the states, and `Sent` has the four
  images named above, so that a detached node, a restarted one and one that
  installs twice meet every kind. The number of crashes has no bound.
  `store_memory` leaves the type invariant to `store_disk`, to the trials of the
  inductive invariant and to the theorem.
- `RaftStore`: the same logs. One leader and one vote, as only committed entries
  are in the log, of which nothing is truncated; four entries allow two snapshots
  with a purge behind each and entries left to apply.
- `StorageHandle`: the constant `CAPACITY` is 10 in the code and 1 here, which is
  full soonest. Two callers with two calls each are enough: cancelled calls stay
  behind in the worker and in the channel, so that both second calls wait in
  line at once, and a caller comes back while another one waits.
- `SqliteMemory`: three of the four calls may have a buffer, so that one caller
  has two after another and the other one's is on its way at the same time.
- `RaftNetwork`: three nodes, of which two stand for election, two may restart or
  stop and one is sent snapshots; two chunks, so that a restart falls between
  them; two elections, one restart and one stop, so that a leader commits, is
  deposed by one that must have its log, and answers to the first arrive after
  that. Leaders with an earlier one's log, refused chunks, and restarts together
  with stops are all reached. A trial with three elections and no stop (6.4
  million states) holds as well.
- `Client`: three nodes, so that a redirect can be wrong in two ways and a circle
  of redirects is possible; two calls, which is what a race on the cell needs;
  two spare addresses to move to, one of which does not make a URI; two changes of the cluster, so that a stale
  redirect meets an election and a move or a stop. `FoundWhenSettled` depends on
  the number of calls: with three, two stale redirects that are written to the
  cell one after the other use up the three tries of a call that began when every
  node already knew the leader, and it returns `UnknownLeader`.

The runs of the handle and the client check their specification with fairness;
it implies the one without, of which the theorems speak.

Deadlock is checked in all runs but those of the handle, the client and the
network: callers have no call left at some point, and elections and restarts are
used up.

### Fairness

- `StoreFairSpec` (`RaftStore`): weak fairness for a started apply and for the
  read of `snapshot.db`, because tokio polls a woken task; weak fairness for
  `Reopen`, because an operator restarts a stopped node; strong fairness for the
  start of an apply, because `openraft`'s core takes its messages in turn and
  requests for the current snapshot only disable it for a moment. Nothing is
  assumed of appends, builds, purges and crashes; the property speaks of
  behaviours in which crashes end.
- `BufferFairSpec` (`StorageHandle` and `SqliteMemory`): weak fairness for the worker thread and for each
  caller whose answer has arrived. Submitting, cancelling and dropping handles
  and buffers stay optional.
- `Client!FairSpec`: weak fairness for the steps of a call between its awaits.
  Nothing is assumed of the network and the nodes, as no timeout is set and a
  leader without a quorum does not answer; so `RedirectsEnd` says that a call
  ends or waits for one answer.

`LoggedIsApplied` holds for a store on disk that receives no snapshot: the
entry whose SQL is refused stops the core once, and the restart counts it as
applied. It fails elsewhere, and this is the code's behaviour: in memory the
restart replays the log and stops at the same entry again, and after an install
a store on disk is detached from its file, with the same effect.

## Proofs

All theorems are for every value of the constants that the named assumptions
allow, and none is taken on trust. Every invariant that a passing run checks is
also a theorem, and so are its refinements and `AppliedOnDisk`; what is left to
TLC is liveness. Each inductive invariant was checked by TLC on the run of its
module before it was proved.

### The log (`RaftLogProofs`, `LogReaderProofs`)

None of the properties is inductive. `IInv` adds to the type
invariant that the stored rows above the mark are contiguous, now and as of the
last sync, and that `openraft`'s view, the call in progress and the end of the
rows determine each other (`Tracked`, `OpSound`): the rows above the mark are
exactly those up to `Written`. From it follow

- `TypeCorrect` and `LogHasNoHole`;
- `StoreAgreesWithRaft`, with a second invariant (`ViewSound`) about the content
  of the rows;
- `KeepsThePromise`: `Spec` implements `PersistentLog`. An `AppendRow` is an
  `AppendEntry`, the first half of a purge is the whole of it, a power loss goes
  back to the last sync, and crashes, restarts and the second half of a purge are
  stuttering;
- `ReadsAreExact`: `LogReader` only adds to `RaftLog`, so `AgreesWithRaft` holds
  there, and for a range that is not empty the arithmetic of `logs_query` does
  not wrap (`QueryFacts`);
- `ScansAreOrdered`, with the invariant that the rowids rise with the index and
  that a row's rowid is at most its place in the log. The second part is what an
  insertion needs: by `IInv` all rows are in front of the one that is appended,
  rows below the purge mark that a crash has left behind among them, so the
  largest rowid is not above the new row's index.

### The state machine (`StateMachineProofs`)

The first lemmas say what each action does to each variable (`SetAppliedRowEffect`,
`BuildEffect`, ...), and the invariants are proved one after the other from them.
`IInv` has three parts. `Typed` is the type invariant and where the core stands
in a call. `RowsSound` says that what has run since the last load is among the
entries that the core is done with (`Executed`), and that the applied row is
written by the time an entry's SQL runs. `BuildSound` says that a builder's meta
is the one in the database once it is written (`MetaKept`), and that every number
given out lies below the counter (`Numbered`). From it follow, for either kind
of store and any set `Sent`, with crashes, builds and installs,

- `TypeCorrect`, `AtMostOnceSinceLoaded`, `MetaInImage` and `IdsUnique`.

On top of it:

- `DiskKeepsApplied`: `AppliedOnDisk` if `Sent` is empty, which `sm_install_lost`
  shows to be needed. `DiskInv` says that every mark, the one in memory and the
  one a builder has read among them, is at most the applied row on disk.
- `MemoryStateFollowsLog`: `StateMatchesApplied` for a store in memory, which
  `sm_lost_entry` shows to be needed, and `ImageNearMeta`: `SnapshotNearMeta` for
  a store in memory. `MemoryInv` says that the tables are those behind `Executed`
  on top of what is loaded, and that the lock, and with it the mark that a
  builder carries, is at most one entry ahead; when an image is serialized it is
  therefore near its meta, and it stays so. On disk neither holds: an entry lost
  by a crash is missing in every later image.
- `LocksFresh`: `MemoryAgreesWithLog` for a store in memory. `LocksInv` says
  what the two locks hold at each point of an apply: the membership lags behind
  the row by the entry in progress, and the mark until its own step. What an
  install leaves stale is over with the first entry, and the first membership,
  behind it.

No hypothesis relates an image in `Sent` to its meta in any of them.

### The node (`RaftStoreProofs`)

- `StoreImplementsMachine`: every step of `RaftStore` is a step of `StateMachine`
  or stutters there, so that the theorems of `StateMachineProofs` hold of the
  node that `store_disk` and `store_memory` check.
- `LogAndDiskSuffice`: `LogRecreatesState` on disk and without installs, both of
  which are needed (`store_replay`, `sm_install_lost`). `StoreInv` adds that the
  snapshot `openraft` knows of is not ahead of the file, and `MetaBehind` that the
  meta row, which a restart makes that snapshot, is behind the applied row. That
  the file's applied row never falls is `MachineKeepsApplied`, from the invariants
  of `StateMachineProofs`.

### The storage handle (`StorageHandleProofs`, `SqliteMemoryProofs`)

The channel and the senders that wait for room are one line (`Line`). `IInv` says
that a call is in it at most once and only between its submission and its
execution (`LineSound`, `RunSound`), and that a call that is not submitted has
left no trace (`NewSound`). From it follow

- `TypeCorrect` and `ChannelBounded`: the capacity is never exceeded, and who
  waits does so behind a full channel;
- `IsSerialConnection`: a step that moves a sender into the channel leaves the
  line as it is, `TakeTask` moves its head to the worker, and cancelled calls, a
  panic and the last handle leave a part of it in its order. The lemmas on
  sequences at the beginning of the module say so for the operators that the
  actions use;
- `ImplementsHandle`: `SqliteMemory` only adds to `StorageHandle`;
- `FreedOnce` and `NeverLost`: an owner is freed with what it holds by one step
  (`HeldOnce`), and each owner is somebody that `LineSound` and `RunSound` find in
  one place only, so that the step which takes it away frees or passes on its
  buffer. That the worker ends by itself only behind the last handle
  (`ExitSound`) is what keeps a closure in the channel from being forgotten.

### The network (`RaftNetworkProofs`)

`IInv` has four layers, for any number of nodes, elections, restarts and stops.

- Places (`PlacesSound`): an address has led to one node only, so that whoever
  answers a request is the node that the caller counts.
- Votes, logs and messages (`VotesSound`, `LogsSound`, `LogsAgree`, `CoresSound`,
  `CallsSound`): a node has saved what it acts on; entries belong to leaders that
  were elected, their terms rise, and logs that share an entry agree up to it,
  also the copies in requests that are late.
- Snapshots (`ChunksSound`): a receiver of which the next chunk is asked for has
  all those before it, so the last one completes the image and `AnswerChunk`
  never installs an unfinished one.
- Quorums (`StoredKept`, `LogsElected`, `ChosenSound`): a node that has stored a
  leader's log, whether that is counted yet or its answer is on its way, gives it
  up only for a later entry and grants later votes only to candidates that are
  as far (`Kept`). Every entry of a log has a quorum that elected its leader, and
  the log of that leader was as far as whatever one of them had stored before
  (`ElectedAt`).

When a leader has counted a quorum, take any log that goes at least as far, and in it
the first entry that is not older. If that entry were later, its electing quorum
would share a node with the one that stored, and the entry before it would not be
older, either. So it is the committed entry, and by `LogsAgree` the committed log
is a prefix. This gives `NothingCommittedIsLost`; `CountedInLog` follows from
what was saved before each answer, and `NetworkTypeCorrect` from the first
layers. Restarts come into all of them: `core` is read back from `saved`.

### The client (`ClientProofs`)

- `StatementsOnce` and `AddressesPaired` from an invariant on each call: how far
  it has come says how often its statement may be in the log (`Once`), and every
  id it holds comes with an address of that node (`Paired`).
- `FoundInTime`: `FoundWhenSettled` for two calls, any number of nodes and any
  history before. The invariant `TriesLeft` counts detours: a cell that does not
  name the leader, and another call that is about to write a stale redirect, cost
  one try each, and the third finds the leader. Two calls are the exact bound:
  with three TLC finds the property violated.

### Only model-checked

The liveness properties `LoggedIsApplied`, `Answered`, `ThreadEnds`, `AllFreed`
and `RedirectsEnd`: fairness and `ENABLED` are beyond the prover. No recursive
operator is declared, and nothing is proved by induction over data, which is
beyond it as well; where the largest or the first element of a set is needed,
the proofs take a minimal element of a well-founded relation. The six violated
runs are counterexamples of single instances.

## Plan

1. `RaftLog`, `StateMachine`, `StorageHandle` with their abstract specifications,
   runs and theorems (done).
2. `Client` with the network's table and `mutate_state` (done). Left: the
   documented outcome of a call that finds no leader (`UnknownLeader`, where the
   code panics), and what a moved node means for the callers.
3. `LogReader`, `RaftStore` for data on disk and in memory, `SqliteMemory`,
   `RaftNetwork` (done).
4. Theorems for the invariants and refinements of all modules (done).
5. Left: `RaftStore` with `RaftLog` in the place of `PersistentLog`, so that the
   crashes inside `append_to_log` and `purge_logs_upto` meet those of the state
   machine in one module; the number of tries that `execute` would need for more
   than two calls.

## Not modelled

`openraft` itself is external: its calls appear as the environment of the
modules, as this code is called by it. When and how it retries a snapshot that
was refused with `SnapshotMismatch` is its own affair, and `RaftNetwork` leaves
out the committed flag of its votes and requests that arrive twice, which
nothing here sends.

The mode without `state_store`, in which the data shares `log.db`: the image of a
database in WAL mode cannot be opened by an in-memory connection, which is what
`sqlite3_deserialize` makes of a handle, so what an install does there is decided
inside SQLite.

An image has no length in these models: `snapshot.db` is opened without being
truncated, and SQLite takes an image's length from its header. SQL is reduced to
its effect: statements of the application that open transactions or are not
deterministic are outside the models (see the hazards in `PROJECT.json`).

`add_learner`, `change_membership` and `get_metrics` are handed to `openraft` as
they are, and nothing in the repository calls them. The conversions and the
generated RPC code are stateless.
