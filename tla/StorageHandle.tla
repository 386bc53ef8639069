--------------------------- MODULE StorageHandle ---------------------------
(***************************************************************************)
(* The SQLite actor of src/src/storage/mod.rs: submit_task puts a task     *)
(* into a bounded flume channel and awaits a oneshot reply; one worker     *)
(* thread (run_tasks) receives the tasks and runs them on the connection.  *)
(* A caller is an async task with one call at a time, and may drop the     *)
(* future of its call at any await.  The channel is modelled as flume      *)
(* implements it: senders that find it full wait in a line of their own.   *)
(*                                                                         *)
(* A call's result is reduced to its place among the executed calls.       *)
(***************************************************************************)
EXTENDS Integers, Sequences, SequencesExt

CONSTANTS
    Callers,        \* async tasks that share the handle
    MaxCalls,       \* bound: calls per caller
    Capacity,       \* CAPACITY
    PanicPossible,  \* whether a task may panic on the worker thread
    NoCall

ASSUME StorageHandleAssumption ==
    /\ MaxCalls \in Nat
    /\ Capacity \in Nat \ {0}
    /\ PanicPossible \in BOOLEAN

Call == Callers \X (1..MaxCalls)

ASSUME NoCallAssumption == NoCall \notin Call

VARIABLES
    queue,     \* tasks in the channel
    waiting,   \* senders that wait for room, with their task
    running,   \* the task the worker holds
    ran,       \* whether it has been run, its reply not sent
    executed,  \* the calls whose statement has run, in their order
    status,    \* each call as its caller sees it
    reply,     \* the oneshot: place in executed, or 0
    worker,    \* the worker thread
    handles    \* whether any clone of the handle is left

vars == <<queue, waiting, running, ran, executed, status, reply, worker, handles>>

Init ==
    /\ queue = <<>>
    /\ waiting = <<>>
    /\ running = NoCall
    /\ ran = FALSE
    /\ executed = <<>>
    /\ status = [c \in Call |-> "new"]
    /\ reply = [c \in Call |-> 0]
    /\ worker = "running"
    /\ handles = TRUE

Ended == {"done", "cancelled", "panicked"}

-----------------------------------------------------------------------------
\* Faulty variant: a task is let into the channel at the limit itself.
Submit_OneTooMany(c) ==
    /\ handles
    /\ status[c] = "new"
    /\ \A k \in 1..(c[2] - 1) : status[<<c[1], k>>] \in Ended
    /\ status' = [status EXCEPT ![c] = IF worker = "dead" THEN "panicked" ELSE "open"]
    /\ IF worker = "dead"
       THEN UNCHANGED <<queue, waiting>>
       ELSE IF Len(queue) <= Capacity
            THEN queue' = Append(queue, c) /\ UNCHANGED waiting
            ELSE waiting' = Append(waiting, c) /\ UNCHANGED queue
    /\ UNCHANGED <<running, ran, executed, reply, worker, handles>>

\* send_async fails when the receiver is gone, and `expect` panics.
Submit(c) ==
    /\ handles
    /\ status[c] = "new"
    /\ \A k \in 1..(c[2] - 1) : status[<<c[1], k>>] \in Ended
    /\ status' = [status EXCEPT ![c] = IF worker = "dead" THEN "panicked" ELSE "open"]
    /\ IF worker = "dead"
       THEN UNCHANGED <<queue, waiting>>
       ELSE IF Len(queue) < Capacity
            THEN queue' = Append(queue, c) /\ UNCHANGED waiting
            ELSE waiting' = Append(waiting, c) /\ UNCHANGED queue
    /\ UNCHANGED <<running, ran, executed, reply, worker, handles>>

\* The answer has arrived.
Receive(c) ==
    /\ status[c] = "open"
    /\ reply[c] # 0
    /\ status' = [status EXCEPT ![c] = "done"]
    /\ UNCHANGED <<queue, waiting, running, ran, executed, reply, worker, handles>>

\* The caller drops the future.  A sender that still waits leaves the line; a
\* task that is in the channel stays there.
Cancel(c) ==
    /\ status[c] = "open"
    /\ status' = [status EXCEPT ![c] = "cancelled"]
    /\ waiting' = RemoveFirst(waiting, c)
    /\ UNCHANGED <<queue, running, ran, executed, reply, worker, handles>>

\* The last clone of the handle goes; no call is in progress then.
DropHandles ==
    /\ handles
    /\ \A c \in Call : status[c] # "open"
    /\ handles' = FALSE
    /\ UNCHANGED <<queue, waiting, running, ran, executed, status, reply, worker>>

-----------------------------------------------------------------------------
\* Faulty variant: waiting senders are let in only behind the next send.
Recv_NoPull ==
    /\ worker = "running"
    /\ running = NoCall
    /\ queue # <<>>
    /\ running' = Head(queue)
    /\ queue' = Tail(queue)
    /\ UNCHANGED <<waiting, ran, executed, status, reply, worker, handles>>

\* recv lets waiting senders in, up to one more than the capacity, and takes
\* the first task.
Recv ==
    /\ worker = "running"
    /\ running = NoCall
    /\ queue # <<>>
    /\ \E n \in 0..Len(waiting) :
         /\ n = Len(waiting) \/ Len(queue) + n = Capacity + 1
         /\ Len(queue) + n <= Capacity + 1
         /\ running' = Head(queue)
         /\ queue' = Tail(queue) \o SubSeq(waiting, 1, n)
         /\ waiting' = SubSeq(waiting, n + 1, Len(waiting))
    /\ UNCHANGED <<ran, executed, status, reply, worker, handles>>

\* The task runs its statement on the connection, whatever it asks for.
Run ==
    /\ worker = "running"
    /\ running # NoCall /\ ~ran
    /\ executed' = Append(executed, running)
    /\ ran' = TRUE
    /\ UNCHANGED <<queue, waiting, running, status, reply, worker, handles>>

\* Faulty variant: the place of the next statement is told.
Reply_NextPlace ==
    /\ worker = "running"
    /\ ran
    /\ reply' = IF status[running] = "open"
                THEN [reply EXCEPT ![running] = Len(executed) + 1]
                ELSE reply
    /\ running' = NoCall
    /\ ran' = FALSE
    /\ UNCHANGED <<queue, waiting, executed, status, worker, handles>>

\* `let _ = tx.send(res)`: nobody may be left to take the answer.
Reply ==
    /\ worker = "running"
    /\ ran
    /\ reply' = IF status[running] = "open"
                THEN [reply EXCEPT ![running] = Len(executed)]
                ELSE reply
    /\ running' = NoCall
    /\ ran' = FALSE
    /\ UNCHANGED <<queue, waiting, executed, status, worker, handles>>

\* A task panics, before or behind its statement.  The thread ends and drops
\* the receiver and the task's oneshot: its caller and the waiting senders
\* panic in turn.  Tasks in the channel are neither run nor dropped.
Panic ==
    /\ PanicPossible
    /\ worker = "running"
    /\ running # NoCall
    /\ worker' = "dead"
    /\ status' = [c \in Call |->
                    IF status[c] = "open" /\ c \in {running} \cup ToSet(waiting)
                    THEN "panicked" ELSE status[c]]
    /\ running' = NoCall
    /\ ran' = FALSE
    /\ waiting' = <<>>
    /\ UNCHANGED <<queue, executed, reply, handles>>

\* Faulty variant: the thread ends as soon as every sender is gone.
WorkerExit_NotDrained ==
    /\ worker = "running"
    /\ running = NoCall
    /\ ~handles
    /\ worker' = "exited"
    /\ UNCHANGED <<queue, waiting, running, ran, executed, status, reply, handles>>

\* recv fails when the channel is empty and every sender is gone.
WorkerExit ==
    /\ worker = "running"
    /\ running = NoCall
    /\ queue = <<>>
    /\ ~handles
    /\ worker' = "exited"
    /\ UNCHANGED <<queue, waiting, running, ran, executed, status, reply, handles>>

WorkerStep == Recv \/ Run \/ Reply \/ WorkerExit

Next ==
    \/ \E c \in Call : Submit(c) \/ Receive(c) \/ Cancel(c)
    \/ DropHandles
    \/ WorkerStep \/ Panic

Spec == Init /\ [][Next]_vars

\* The operating system runs the worker thread, and the runtime polls a task
\* whose answer has arrived.  Nobody has to submit, cancel or drop.
FairSpec ==
    /\ Spec
    /\ WF_vars(WorkerStep)
    /\ \A c \in Call : WF_vars(Receive(c))

-----------------------------------------------------------------------------
TypeOK ==
    /\ queue \in Seq(Call)
    /\ waiting \in Seq(Call)
    /\ running \in Call \cup {NoCall}
    /\ ran \in BOOLEAN
    /\ executed \in Seq(Call)
    /\ status \in [Call -> {"new", "open"} \cup Ended]
    /\ reply \in [Call -> 0..Len(executed)]
    /\ worker \in {"running", "dead", "exited"}
    /\ handles \in BOOLEAN

\* The channel never holds more than CAPACITY tasks, and a sender waits only
\* while it is full: otherwise a later call would overtake the waiting one.
BoundedFifo ==
    /\ Len(queue) <= Capacity
    /\ waiting # <<>> => Len(queue) = Capacity

\* The channel with the senders that wait for room behind it.
Line == queue \o waiting

\* Seen from its callers the actor is one serial connection: what waits in
\* line, sits in the channel or is held by the worker is one FIFO.
Pending == (IF running # NoCall /\ ~ran THEN <<running>> ELSE <<>>) \o Line

Serial == INSTANCE SerialConnection WITH pending <- Pending

ImplementsSerialConnection == Serial!Spec

\* Every call that is not cancelled ends, as long as no task panics.
Answered ==
    \A c \in Call : status[c] = "open" ~> status[c] # "open" \/ worker = "dead"

\* When the last handle is dropped the worker thread ends, so the connection
\* is closed, with every task that was in the channel run before.
ThreadEnds == ~handles ~> (worker = "dead" \/ (worker = "exited" /\ queue = <<>>))
=============================================================================
