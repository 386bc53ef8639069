---------------------------- MODULE SqliteMemory ----------------------------
(***************************************************************************)
(* The buffers that serialize and load_from_serialized pass through the    *)
(* SQLite actor (src/src/storage/mod.rs).  sqlite3_malloc64 or             *)
(* sqlite3_serialize allocates one, and it must be freed once: by the drop *)
(* of a SqliteMemory wherever that happens to be, or by the connection     *)
(* that was given it.  StorageHandle is extended with who holds which      *)
(* buffer.  A call has at most one, the image it brings or asks for.  A    *)
(* connection that create_memory_copy returns frees its buffer when it is  *)
(* dropped, as a SqliteMemory does.                                        *)
(***************************************************************************)
EXTENDS StorageHandle

CONSTANT Buffered  \* bound: the calls that may bring or ask for an image

ASSUME BufferedAssumption == Buffered \subseteq Call

VARIABLES
    buffers,  \* the calls whose buffer has been allocated
    holders,  \* who will free which buffer
    freed     \* how often each buffer has been freed

bufferVars == <<vars, buffers, holders, freed>>

\* The caller, the closure in the channel or on the worker, its result, the
\* oneshot, and the connection.
Holder == Buffered \X {"caller", "task", "result", "reply", "connection"}

HeldBy(place) == {h \in holders : h[2] = place}

\* drops are dropped and thereby freed, moves have gone to gains.
Step(drops, moves, gains) ==
    /\ holders' = (holders \ (drops \cup moves)) \cup gains
    /\ freed' = [c \in Buffered |->
                   freed[c] + Cardinality({h \in holders \cap drops : h[1] = c})]
    /\ buffers' = buffers \cup {h[1] : h \in gains}

Keep == UNCHANGED <<buffers, holders, freed>>

BufferInit ==
    /\ Init
    /\ buffers = {}
    /\ holders = {}
    /\ freed = [c \in Buffered |-> 0]

-----------------------------------------------------------------------------
\* The caller copies an image that it will load.
FromSlice(c) ==
    /\ c \in Buffered \ buffers
    /\ status[c] = "new"
    /\ Step({}, {}, {<<c, "caller">>})
    /\ UNCHANGED vars

CallerDrops(c) ==
    /\ <<c, "caller">> \in holders
    /\ Step({<<c, "caller">>}, {}, {})
    /\ UNCHANGED vars

\* load_from_serialized moves the buffer into the closure; when the send
\* fails, the closure is dropped with the error that `expect` reports.
SubmitTask(c) ==
    /\ Submit(c)
    /\ IF <<c, "caller">> \notin holders THEN Keep
       ELSE IF worker = "dead" THEN Step({<<c, "caller">>}, {}, {})
       ELSE Step({}, {<<c, "caller">>}, {<<c, "task">>})

ReceiveResult(c) ==
    /\ Receive(c)
    /\ IF <<c, "reply">> \in holders
       THEN Step({}, {<<c, "reply">>}, {<<c, "caller">>})
       ELSE Keep

\* With the future go its oneshot and the closure that has not been sent.
CancelCall(c) ==
    /\ Cancel(c)
    /\ Step({<<c, "reply">>} \cup {<<d, "task">> : d \in ToSet(waiting) \cap {c}},
            {}, {})

\* The channel goes with its last end, and the tasks in it.
DropClones ==
    /\ DropHandles
    /\ IF worker = "dead" THEN Step(HeldBy("task"), {}, {}) ELSE Keep

TakeTask == Recv /\ Keep

\* Faulty variant: without ManuallyDrop the closure frees what it handed over.
LoadImage_Dropped ==
    LET image == <<running, "task">>
    IN  Step(HeldBy("connection") \cup {image}, {}, {<<running, "connection">>})

\* deserialize_db: SQLite takes the buffer over, frees the one it had ...
LoadImage ==
    LET image == <<running, "task">>
    IN  Step(HeldBy("connection"), {image}, {<<running, "connection">>})

\* ... and frees the new one when it refuses it (SQLITE_DESERIALIZE_FREEONCLOSE).
RefuseImage == Step({<<running, "task">>}, {}, {})

\* serialize_db, which may also fail, or any other statement.
RunTask ==
    /\ Run
    /\ IF <<running, "task">> \in holders
       THEN LoadImage \/ RefuseImage
       ELSE \/ running \in Buffered \ buffers /\ Step({}, {}, {<<running, "result">>})
            \/ Keep

\* Faulty variant: the result is left in a oneshot whose receiver has gone.
SendReply_Unawaited ==
    /\ Reply
    /\ IF <<running, "result">> \notin holders THEN Keep
       ELSE Step({}, {<<running, "result">>}, {<<running, "reply">>})

\* Nobody may be left to take the result.
SendReply ==
    /\ Reply
    /\ IF <<running, "result">> \notin holders THEN Keep
       ELSE IF status[running] = "open"
       THEN Step({}, {<<running, "result">>}, {<<running, "reply">>})
       ELSE Step({<<running, "result">>}, {}, {})

\* Faulty variant: the tasks in the channel outlive both its ends.
PanicTask_KeepQueue ==
    /\ Panic
    /\ Step(HeldBy("connection") \cup HeldBy("result") \cup
              {h \in HeldBy("task") : h[1] \notin ToSet(queue)}, {}, {})

\* Unwinding drops the closure or its result, then the connection.  The tasks
\* in the channel stay until the last sender goes.
PanicTask ==
    /\ Panic
    /\ Step(HeldBy("connection") \cup HeldBy("result") \cup
              {h \in HeldBy("task") : handles => h[1] \notin ToSet(queue)}, {}, {})

EndThread == WorkerExit /\ Step(HeldBy("connection"), {}, {})

ThreadStep == TakeTask \/ RunTask \/ SendReply \/ EndThread

BufferNext ==
    \/ \E c \in Call : SubmitTask(c) \/ ReceiveResult(c) \/ CancelCall(c)
    \/ \E c \in Buffered : FromSlice(c) \/ CallerDrops(c)
    \/ DropClones \/ ThreadStep \/ PanicTask

BufferSpec == BufferInit /\ [][BufferNext]_bufferVars

\* As in StorageHandle.
BufferFairSpec ==
    /\ BufferSpec
    /\ WF_bufferVars(ThreadStep)
    /\ \A c \in Call : WF_bufferVars(ReceiveResult(c))

-----------------------------------------------------------------------------
\* An allocated buffer has one holder until it is freed, and is freed once,
\* wherever a call is cancelled, a task panics, a channel is dropped or SQLite
\* refuses an image: "This is UB if the ptr is not the only reference to the
\* data itself" (mod.rs:235), and one without a holder is lost.
OneHolder ==
    \A c \in buffers :
        Cardinality({h \in holders : h[1] = c}) + freed[c] = 1

\* Whoever has to free a buffer is still there to do so: the closure in the
\* channel or on the worker, its result there, the oneshot of a call that is
\* still awaited, the connection.
OwnerLives(h) ==
    \/ h[2] = "caller"
    \/ h[2] = "task" /\ h[1] \in ToSet(Line) /\ (handles \/ worker = "running")
    \/ h[2] = "task" /\ h[1] = running /\ ~ran
    \/ h[2] = "result" /\ h[1] = running /\ ran
    \/ h[2] = "reply" /\ status[h[1]] = "open" /\ reply[h[1]] # 0
    \/ h[2] = "connection" /\ worker = "running"

\* A buffer is never left to a closure, a result, a oneshot or a connection
\* that is gone: it would be freed by nobody.
OwnersLive == \A h \in holders : OwnerLives(h)

\* Once the last handle is gone, every buffer is freed that no caller keeps,
\* with the connection or with what is left in the channel.
AllFreed ==
    ~handles ~> \A c \in buffers : freed[c] > 0 \/ <<c, "caller">> \in holders
=============================================================================
