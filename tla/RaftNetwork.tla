---------------------------- MODULE RaftNetwork ----------------------------
(***************************************************************************)
(* ReplicatNetwork between openraft's nodes (src/src/rpc/raft.rs): vote,   *)
(* append_entries and install_snapshot as RpcClient sends them             *)
(* (rpc/client.rs), RpcServer answers them (rpc/server.rs) and the answers *)
(* are counted.  Each node keeps its vote and its log in log.db, which is  *)
(* what PersistentLog promises.                                            *)
(*                                                                         *)
(* openraft is external.  It is modelled as far as it calls this code: a   *)
(* candidate counts grants, a leader appends one entry of its own and      *)
(* counts the nodes that store its log, or sends them a snapshot of it.  A *)
(* vote is a term and a node, compared in this order.  A node may crash,   *)
(* come back at another address, or have a stopped core.                   *)
(***************************************************************************)
EXTENDS Integers, Sequences, SequencesExt, FiniteSets

CONSTANTS
    N,             \* nodes 1..N
    Addrs,
    FirstAddr,     \* where each node is at first
    Chunks,        \* bound: chunks of a snapshot
    Candidates,    \* bound: nodes that stand for election
    Faulty,        \* bound: nodes that restart or stop
    Behind,        \* bound: nodes to which leaders send a snapshot
    MaxElections,  \* bound
    MaxRestarts,   \* bound
    MaxStops,      \* bound: cores that stop on a storage error
    NoAddr

Nodes == 1..N

ASSUME NetworkAssumption ==
    /\ N \in Nat
    /\ Candidates \cup Faulty \cup Behind \subseteq Nodes
    /\ FirstAddr \in [Nodes -> Addrs]
    /\ \A m, n \in Nodes : FirstAddr[m] = FirstAddr[n] => m = n
    /\ Chunks \in Nat \ {0}
    /\ {MaxElections, MaxRestarts, MaxStops} \subseteq Nat
    /\ NoAddr \notin Addrs

VARIABLES
    saved,      \* the vote and the log in each node's log.db
    core,       \* each node's openraft
    clients,    \* each node's ReplicatNetwork::clients
    addrOf,     \* where each node is
    had,        \* where each node has been
    calls,      \* calls whose result has not been taken
    chosen,     \* logs that some leader took for committed, with its vote
    spent       \* elections, restarts and stops so far

vars == <<saved, core, clients, addrOf, had, calls, chosen, spent>>
places == <<clients, addrOf, had>>

Vote == (0..MaxElections) \X (0..N)
NoVote == <<0, 0>>

\* Vote and LogId have the same order: the term, then the node.
Below(v, w) == v[1] < w[1] \/ (v[1] = w[1] /\ v[2] < w[2])
AtLeast(v, w) == ~Below(v, w)

Log == BoundedSeq(Vote, MaxElections)
LastLogId(log) == IF log = <<>> THEN NoVote ELSE Last(log)
LogAtLeast(log, other) ==
    \/ Below(LastLogId(other), LastLogId(log))
    \/ LastLogId(other) = LastLogId(log) /\ Len(log) >= Len(other)

Quorum(nodes) == 2 * Cardinality(nodes) > N

\* sending is the next chunk for each node, receiving the transfer in progress
\* with the chunks that have come.
NoTransfer == [of |-> NoVote, chunks |-> {}]
Idle(vote, log) ==
    [role |-> "follower", vote |-> vote, log |-> log, granted |-> {},
     stored |-> {}, sending |-> [n \in Nodes |-> 0], receiving |-> NoTransfer]

Init ==
    /\ saved = [n \in Nodes |-> [vote |-> NoVote, log |-> <<>>]]
    /\ core = [n \in Nodes |-> Idle(NoVote, <<>>)]
    /\ clients = [m \in Nodes |-> [n \in Nodes |-> NoAddr]]
    /\ addrOf = FirstAddr
    /\ had = [n \in Nodes |-> {FirstAddr[n]}]
    /\ calls = {}
    /\ chosen = {}
    /\ spent = [elections |-> 0, restarts |-> 0, stops |-> 0]

\* Faulty variant: the vote is kept in memory only.
Save_LogOnly(n, vote, log) ==
    saved' = [saved EXCEPT ![n].log = log]

\* save_vote and append_to_log return before openraft goes on.
Save(n, vote, log) ==
    saved' = [saved EXCEPT ![n] = [vote |-> vote, log |-> log]]

-----------------------------------------------------------------------------
(* The results of send_vote, send_append_entries and send_install_snapshot *)

\* Faulty variant: what is not refused is taken for success.
Positive_NoCode(call) == call.answer \notin {"none", "refused"}

\* The answer decodes and says yes.  The additional_data of a Fatal or a
\* SnapshotMismatch does not decode as the response that is asked for.
Positive(call) == call.answer \in {"granted", "success"}

\* An answer that somebody will look at: the caller is still what it was, and it
\* is a yes or tells a higher vote.  An error is logged, and the replication
\* goes on with its next call.
Awaited(answered, cores) ==
    {call \in answered :
       \/ call.answer = "none"
       \/ /\ cores[call.from].vote = call.vote
          /\ cores[call.from].role = IF call.kind = "vote" THEN "candidate" ELSE "leader"
          /\ Positive(call) \/ Below(call.vote, call.told)}

-----------------------------------------------------------------------------
(* ReplicatNetwork: NetworkConnection and RpcClient *)

\* new_client: a connection that is there is taken, whatever its address.
NewClients(m, given) ==
    [n \in Nodes |-> IF n # m /\ clients[m][n] = NoAddr
                     THEN given[n] ELSE clients[m][n]]

Request(kind, m, n, table, vote, log, chunk) ==
    [kind |-> kind, from |-> m, to |-> n, addr |-> table[n], vote |-> vote,
     log |-> log, chunk |-> chunk, answer |-> "none", told |-> NoVote]

\* A node stands for election and asks every other node, whose address it has
\* from a membership that may be an old one.
Elect(m) ==
    /\ m \in Candidates
    /\ core[m].role \in {"follower", "candidate"}
    /\ spent.elections < MaxElections
    /\ spent' = [spent EXCEPT !.elections = @ + 1]
    /\ LET vote == <<core[m].vote[1] + 1, m>>
           log == core[m].log
       IN  /\ Save(m, vote, log)
           /\ core' = [core EXCEPT ![m] = [Idle(vote, log) EXCEPT
                         !.role = "candidate", !.granted = {m}]]
           /\ \E given \in [Nodes -> Addrs] :
                /\ \A n \in Nodes : given[n] \in had[n]
                /\ clients' = [clients EXCEPT ![m] = NewClients(m, given)]
                /\ calls' = Awaited(calls, core') \cup
                     {Request("vote", m, n, NewClients(m, given), vote, log, 0) :
                        n \in Nodes \ {m}}
    /\ UNCHANGED <<addrOf, had, chosen>>

\* The replication to a node has one call at a time: its entries, or the next
\* chunk of a snapshot.
Replicate(m, n) ==
    /\ core[m].role = "leader"
    /\ n \notin core[m].stored
    /\ \A call \in calls :
         call.from = m /\ call.to = n => call.vote # core[m].vote \/ call.kind = "vote"
    /\ calls' = calls \cup
         {Request(IF n \in Behind THEN "chunk" ELSE "append", m, n, clients[m],
                  core[m].vote, core[m].log, core[m].sending[n])}
    /\ UNCHANGED <<saved, core, places, chosen, spent>>

-----------------------------------------------------------------------------
(* RpcServer *)

Answer(call, answer, told) ==
    LET answered == [call EXCEPT !.answer = answer, !.told = told]
    IN  calls' = Awaited((calls \ {call}) \cup {answered}, core')

\* n takes the vote, and the log, as its own, and stands back from whatever it
\* did under a lower vote.
Adopt(n, vote, log) ==
    /\ Save(n, vote, log)
    /\ core' = [core EXCEPT ![n] =
         IF vote = @.vote THEN [@ EXCEPT !.log = log] ELSE Idle(vote, log)]

Arrives(call, kind, n) ==
    call.kind = kind /\ call.answer = "none" /\ call.addr = addrOf[n]

\* fatal_resp
AnswerFatal(n, call) ==
    /\ call.answer = "none" /\ call.addr = addrOf[n]
    /\ core[n].role = "stopped"
    /\ UNCHANGED <<saved, core, places, chosen, spent>>
    /\ Answer(call, "fatal", NoVote)

AnswerVote(n, call) ==
    /\ Arrives(call, "vote", n)
    /\ core[n].role # "stopped"
    /\ IF AtLeast(call.vote, core[n].vote) /\ LogAtLeast(call.log, core[n].log)
       THEN /\ Adopt(n, call.vote, core[n].log)
            /\ Answer(call, "granted", call.vote)
       ELSE /\ UNCHANGED <<saved, core>>
            /\ Answer(call, "refused", core[n].vote)
    /\ UNCHANGED <<places, chosen, spent>>

\* A call under a lower vote is told the higher one.
AnswerHigherVote(n, call) ==
    /\ Arrives(call, "append", n) \/ Arrives(call, "chunk", n)
    /\ core[n].role # "stopped"
    /\ Below(call.vote, core[n].vote)
    /\ UNCHANGED <<saved, core, places, chosen, spent>>
    /\ Answer(call, "refused", core[n].vote)

AnswerAppend(n, call) ==
    /\ Arrives(call, "append", n)
    /\ core[n].role # "stopped"
    /\ AtLeast(call.vote, core[n].vote)
    /\ Adopt(n, call.vote,
             IF IsPrefix(call.log, core[n].log) THEN core[n].log ELSE call.log)
    /\ Answer(call, "success", call.vote)
    /\ UNCHANGED <<places, chosen, spent>>

\* The chunks of the transfer that a call belongs to, if n can go on with it.
Received(n, call) ==
    IF core[n].receiving.of = call.vote THEN core[n].receiving.chunks ELSE {}
Follows(n, call) == call.chunk = 0 \/ core[n].receiving.of = call.vote

\* With the last chunk the image is installed.  One that is not whole would
\* leave nothing behind.
AnswerChunk(n, call) ==
    LET chunks == Received(n, call) \cup {call.chunk}
        done == call.chunk = Chunks - 1
        log == IF ~done \/ IsPrefix(call.log, core[n].log) THEN core[n].log
               ELSE IF chunks = 0..Chunks - 1 THEN call.log ELSE <<>>
    IN  /\ Arrives(call, "chunk", n)
        /\ core[n].role # "stopped"
        /\ AtLeast(call.vote, core[n].vote)
        /\ Follows(n, call)
        /\ Save(n, call.vote, log)
        /\ core' = [core EXCEPT ![n] = [Idle(call.vote, log) EXCEPT !.receiving =
             IF done THEN NoTransfer ELSE [of |-> call.vote, chunks |-> chunks]]]
        /\ Answer(call, "success", call.vote)
        /\ UNCHANGED <<places, chosen, spent>>

\* SnapshotMismatch: n has restarted since the first chunk.
AnswerMismatch(n, call) ==
    /\ Arrives(call, "chunk", n)
    /\ core[n].role # "stopped"
    /\ AtLeast(call.vote, core[n].vote)
    /\ ~Follows(n, call)
    /\ Adopt(n, call.vote, core[n].log)
    /\ Answer(call, "mismatch", call.vote)
    /\ UNCHANGED <<places, chosen, spent>>

-----------------------------------------------------------------------------
(* openraft takes the result of a call *)

CountGrant(call) ==
    LET m == call.from
        granted == core[m].granted \cup {call.to}
        log == Append(core[m].log, call.vote)
    IN  /\ call.kind = "vote" /\ Positive(call)
        /\ IF Quorum(granted)
           THEN /\ Save(m, call.vote, log)
                /\ core' = [core EXCEPT ![m] = [@ EXCEPT !.role = "leader",
                     !.log = log, !.granted = granted, !.stored = {m}]]
           ELSE /\ core' = [core EXCEPT ![m].granted = granted]
                /\ UNCHANGED saved
        /\ calls' = Awaited(calls \ {call}, core')
        /\ UNCHANGED <<places, chosen, spent>>

\* Faulty variant: the chunk behind the last one is asked for.
CountChunk_PastLast(call) ==
    /\ call.kind = "chunk" /\ Positive(call)
    /\ calls' = calls \ {call}
    /\ core' = [core EXCEPT ![call.from].sending[call.to] = call.chunk + 1]
    /\ UNCHANGED <<saved, places, chosen, spent>>

CountChunk(call) ==
    /\ call.kind = "chunk" /\ Positive(call)
    /\ call.chunk < Chunks - 1
    /\ calls' = calls \ {call}
    /\ core' = [core EXCEPT ![call.from].sending[call.to] = call.chunk + 1]
    /\ UNCHANGED <<saved, places, chosen, spent>>

\* What a quorum stores is committed.
CountStored(call) ==
    LET m == call.from
        stored == core[m].stored \cup {call.to}
    IN  /\ call.kind = "append" \/ (call.kind = "chunk" /\ call.chunk = Chunks - 1)
        /\ Positive(call)
        /\ calls' = calls \ {call}
        /\ core' = [core EXCEPT ![m].stored = stored]
        /\ chosen' = IF Quorum(stored)
                     THEN chosen \cup {[vote |-> call.vote, log |-> core[m].log]}
                     ELSE chosen
        /\ UNCHANGED <<saved, places, spent>>

\* A refusal tells a higher vote, before which the node stands back.
LearnVote(call) ==
    LET m == call.from
    IN  /\ call.answer = "refused"
        /\ Adopt(m, call.told, core[m].log)
        /\ calls' = Awaited(calls \ {call}, core')
        /\ UNCHANGED <<places, chosen, spent>>

\* An answer is lost, and the replication sends its next call.  A request that
\* is lost is one that nobody ever answers, and so is a vote's lost answer.
Lose(call) ==
    /\ call.answer # "none" /\ call.kind # "vote"
    /\ calls' = calls \ {call}
    /\ UNCHANGED <<saved, core, places, chosen, spent>>

-----------------------------------------------------------------------------
\* A storage error stops the core; the RPC server goes on answering.
Stop(n) ==
    /\ n \in Faulty
    /\ core[n].role # "stopped"
    /\ spent.stops < MaxStops
    /\ spent' = [spent EXCEPT !.stops = @ + 1]
    /\ core' = [core EXCEPT ![n] = [Idle(@.vote, @.log) EXCEPT !.role = "stopped"]]
    /\ calls' = Awaited(calls, core')
    /\ UNCHANGED <<saved, places, chosen>>

\* The process crashes and is started again, maybe at an address that no node
\* had before, which ends the calls to the old one.
Restart(n) ==
    /\ n \in Faulty
    /\ spent.restarts < MaxRestarts
    /\ spent' = [spent EXCEPT !.restarts = @ + 1]
    /\ core' = [core EXCEPT ![n] = Idle(saved[n].vote, saved[n].log)]
    /\ clients' = [clients EXCEPT ![n] = [k \in Nodes |-> NoAddr]]
    /\ \E addr \in {addrOf[n]} \cup (Addrs \ UNION {had[k] : k \in Nodes}) :
         /\ addrOf' = [addrOf EXCEPT ![n] = addr]
         /\ had' = [had EXCEPT ![n] = @ \cup {addr}]
    /\ calls' = Awaited(
         {call \in calls : call.addr = addrOf[n] => addrOf'[n] = addrOf[n]}, core')
    /\ UNCHANGED <<saved, chosen>>

RpcServer(n, call) ==
    \/ AnswerFatal(n, call) \/ AnswerVote(n, call) \/ AnswerHigherVote(n, call)
    \/ AnswerAppend(n, call) \/ AnswerChunk(n, call) \/ AnswerMismatch(n, call)

TakeResult(call) ==
    \/ CountGrant(call) \/ CountChunk(call) \/ CountStored(call)
    \/ LearnVote(call) \/ Lose(call)

Next ==
    \/ \E n \in Nodes : Elect(n) \/ Stop(n) \/ Restart(n)
    \/ \E m, n \in Nodes : Replicate(m, n)
    \/ \E call \in calls : \/ \E n \in Nodes : RpcServer(n, call)
                           \/ TakeResult(call)

Spec == Init /\ [][Next]_vars

-----------------------------------------------------------------------------
TypeOK ==
    /\ saved \in [Nodes -> [vote : Vote, log : Log]]
    /\ core \in [Nodes ->
         [role : {"follower", "candidate", "leader", "stopped"},
          vote : Vote, log : Log, granted : SUBSET Nodes, stored : SUBSET Nodes,
          sending : [Nodes -> 0..Chunks - 1],
          receiving : [of : Vote, chunks : SUBSET (0..Chunks - 1)]]]
    /\ clients \in [Nodes -> [Nodes -> Addrs \cup {NoAddr}]]
    /\ addrOf \in [Nodes -> Addrs]
    /\ had \in [Nodes -> SUBSET Addrs]
    /\ calls \subseteq
         [kind : {"vote", "append", "chunk"}, from : Nodes, to : Nodes,
          addr : Addrs, vote : Vote, log : Log, chunk : 0..Chunks - 1, told : Vote,
          answer : {"none", "granted", "success", "refused", "mismatch", "fatal"}]
    /\ chosen \subseteq [vote : Vote, log : Log]

\* A grant or a copy that a node counts for another one is in that node's
\* log.db, whatever it has answered in between: a stopped core, a transfer cut
\* by a restart, a node that has moved or a late answer is never counted.
CountedIsStored ==
    \A m, n \in Nodes :
        /\ n \in core[m].granted => AtLeast(saved[n].vote, core[m].vote)
        /\ n \in core[m].stored /\ saved[n].vote = core[m].vote
             => IsPrefix(core[m].log, saved[n].log)

\* What a leader took for committed is in the log of every later leader, and two
\* leaders never commit different logs, also when nodes restart from their
\* log.db, answers are lost and snapshots are sent in place of entries.
CommittedKept ==
    \A c \in chosen :
        /\ \A d \in chosen : IsPrefix(c.log, d.log) \/ IsPrefix(d.log, c.log)
        /\ \A m \in Nodes :
             core[m].role = "leader" /\ AtLeast(core[m].vote, c.vote)
               => IsPrefix(c.log, core[m].log)
=============================================================================
