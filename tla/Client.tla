------------------------------- MODULE Client -------------------------------
(***************************************************************************)
(* ReplicatClient::execute (src/src/client.rs): how a statement finds the  *)
(* leader.  All clones of a client share a cell with the leader's id and   *)
(* address and a table of connections (ReplicatNetwork, src/src/rpc/       *)
(* raft.rs).  A call reads the cell, takes or makes a connection, sends    *)
(* mutate_state and follows a redirect, at most three times.               *)
(*                                                                         *)
(* The calls may run on any clones.  The cluster is openraft's: elections, *)
(* nodes that learn of them late, nodes whose core has stopped, and nodes  *)
(* that come back at another address.  Requests and answers may be lost.   *)
(***************************************************************************)
EXTENDS Integers, FiniteSets

CONSTANTS
    Calls,        \* the calls of execute, each on a clone of the client
    Nodes,
    Addrs,
    Invalid,      \* addresses that do not make a URI
    FirstLeader,  \* the leader at first
    FirstAddr,    \* where each node is at first
    GivenLeader,  \* the node the client is created for
    MaxChanges,   \* bound: elections, failures and moves in the cluster
    NoNode,
    NoAddr

ASSUME ClientAssumption ==
    /\ FirstLeader \in Nodes
    /\ FirstAddr \in [Nodes -> Addrs]
    /\ \A m, n \in Nodes : FirstAddr[m] = FirstAddr[n] => m = n
    /\ Invalid \subseteq Addrs
    /\ GivenLeader \in Nodes
    /\ MaxChanges \in Nat
    /\ NoNode \notin Nodes
    /\ NoAddr \notin Addrs

VARIABLES
    leader,      \* the cell: ReplicatClient::leader
    clients,     \* ReplicatNetwork::clients: the address each is connected to
    call,        \* the calls, with their local variables
    accepted,    \* how often a call's statement has got into the log
    raftLeader,  \* the elected node
    knows,       \* whom each node takes for the leader
    stopped,     \* nodes whose core has stopped
    addrOf,      \* where each node is
    had,         \* where each node has been
    changes

vars == <<leader, clients, call, accepted, raftLeader, knows, stopped, addrOf,
          had, changes>>
cluster == <<raftLeader, knows, stopped, addrOf, had, changes>>

Tries == 3

Answer == [kind : {"none", "ok", "forward", "fatal", "lost"},
           node : Nodes \cup {NoNode}, addr : Addrs \cup {NoAddr}]
NoAnswer == [kind |-> "none", node |-> NoNode, addr |-> NoAddr]

Call == [pc : {"new", "cell", "lookup", "connect", "sent", "writing",
               "committed", "answered", "done"},
         tries : 1..Tries,            \* redirects until it gives up
         node : Nodes \cup {NoNode},  \* what it has read from the cell, and
         addr : Addrs \cup {NoAddr},  \* then whom it has sent to
         answer : Answer,
         calm : BOOLEAN,  \* whether the cluster has not changed since it began
         result : {"none", "ok", "network", "unknown_leader", "panicked"}]

Init ==
    /\ leader = [node |-> GivenLeader, addr |-> FirstAddr[GivenLeader]]
    /\ clients = [n \in Nodes |-> NoAddr]
    /\ call = [c \in Calls |->
                 [pc |-> "new", tries |-> Tries, node |-> NoNode,
                  addr |-> NoAddr, answer |-> NoAnswer, calm |-> FALSE,
                  result |-> "none"]]
    /\ accepted = [c \in Calls |-> 0]
    /\ raftLeader = FirstLeader
    /\ knows = [n \in Nodes |-> FirstLeader]
    /\ stopped = {}
    /\ addrOf = FirstAddr
    /\ had = [n \in Nodes |-> {FirstAddr[n]}]
    /\ changes = 0

\* Every node runs where it began, has never been elsewhere, and knows the leader.
Settled ==
    /\ stopped = {}
    /\ \A n \in Nodes : had[n] = {addrOf[n]} /\ knows[n] = raftLeader

-----------------------------------------------------------------------------
(* ReplicatClient::execute *)

Start(c) ==
    /\ call[c].pc = "new"
    /\ call' = [call EXCEPT ![c].pc = "cell", ![c].calm = Settled]
    /\ UNCHANGED <<leader, clients, accepted, cluster>>

ReadCell(c) ==
    /\ call[c].pc = "cell"
    /\ call' = [call EXCEPT ![c].pc = "lookup", ![c].node = leader.node,
                            ![c].addr = leader.addr]
    /\ UNCHANGED <<leader, clients, accepted, cluster>>

\* A connection that is there is taken, as `addr == addr` compares the
\* connection's address with itself.
LookUp(c) ==
    /\ call[c].pc = "lookup"
    /\ IF clients[call[c].node] = NoAddr
       THEN call' = [call EXCEPT ![c].pc = "connect"]
       ELSE call' = [call EXCEPT ![c].pc = "sent",
                                 ![c].addr = clients[call[c].node]]
    /\ UNCHANGED <<leader, clients, accepted, cluster>>

\* Faulty variant: the connection is filed under the id the cell holds now.
Connect_RereadCell(c) ==
    /\ call[c].pc = "connect"
    /\ call[c].addr \notin Invalid
    /\ clients' = [clients EXCEPT ![leader.node] = call[c].addr]
    /\ call' = [call EXCEPT ![c].pc = "sent"]
    /\ UNCHANGED <<leader, accepted, cluster>>

\* The lock is not held since the look-up: another call may have connected.
Connect(c) ==
    /\ call[c].pc = "connect"
    /\ call[c].addr \notin Invalid
    /\ clients' = [clients EXCEPT ![call[c].node] = call[c].addr]
    /\ call' = [call EXCEPT ![c].pc = "sent"]
    /\ UNCHANGED <<leader, accepted, cluster>>

Finish(c, result) ==
    call' = [call EXCEPT ![c].pc = "done", ![c].result = result,
                         ![c].answer = NoAnswer]

\* InvalidUri becomes NetworkError, which ends the call.
ConnectInvalid(c) ==
    /\ call[c].pc = "connect"
    /\ call[c].addr \in Invalid
    /\ Finish(c, "network")
    /\ UNCHANGED <<leader, clients, accepted, cluster>>

\* Back to the head of the loop.
Again(c, tries) ==
    call' = [call EXCEPT ![c].pc = "cell", ![c].tries = tries,
                         ![c].answer = NoAnswer]

Take(c, kinds) ==
    /\ call[c].pc = "answered"
    /\ call[c].answer.kind \in kinds
    /\ UNCHANGED <<clients, accepted, cluster>>

\* RpcClient::mutate_state looks for ForwardToLeader only: any other answer,
\* an error of the node's core included, is success.
TakeOk(c) ==
    Take(c, {"ok", "fatal"}) /\ Finish(c, "ok") /\ UNCHANGED leader

\* Faulty variant: a request that got no answer is sent again.
TakeLost_Retry(c) ==
    /\ Take(c, {"lost"})
    /\ IF call[c].tries = 1 THEN Finish(c, "network")
                            ELSE Again(c, call[c].tries - 1)
    /\ UNCHANGED leader

\* tonic's Status becomes NetworkError, which ends the call.
TakeLost(c) ==
    Take(c, {"lost"}) /\ Finish(c, "network") /\ UNCHANGED leader

\* `resp.leader.unwrap()`
TakeNoLeader(c) ==
    /\ Take(c, {"forward"})
    /\ call[c].answer.node = NoNode
    /\ Finish(c, "panicked")
    /\ UNCHANGED leader

\* UpdateLeader: the cell is overwritten, whatever another call has put there.
UpdateLeader(c) ==
    /\ Take(c, {"forward"})
    /\ call[c].answer.node # NoNode
    /\ leader' = [node |-> call[c].answer.node, addr |-> call[c].answer.addr]

\* Faulty variant: one redirect too few.
Redirect_OneLess(c) ==
    /\ UpdateLeader(c)
    /\ IF call[c].tries <= 2 THEN Finish(c, "unknown_leader")
                             ELSE Again(c, call[c].tries - 1)

\* Faulty variant: redirects are not counted.
Redirect_Uncounted(c) == UpdateLeader(c) /\ Again(c, call[c].tries)

\* Faulty variant: the count is compared before it is decremented.
Redirect_PastZero(c) ==
    /\ UpdateLeader(c)
    /\ IF call[c].tries = 0 THEN Finish(c, "unknown_leader")
                            ELSE Again(c, call[c].tries - 1)

Redirect(c) ==
    /\ UpdateLeader(c)
    /\ IF call[c].tries = 1 THEN Finish(c, "unknown_leader")
                            ELSE Again(c, call[c].tries - 1)

-----------------------------------------------------------------------------
(* RpcServer::mutate_state at the node that is where the request goes *)

Reply(c, kind, n) ==
    call' = [call EXCEPT ![c].pc = "answered",
                         ![c].answer = [kind |-> kind, node |-> n,
                                        addr |-> IF n = NoNode THEN NoAddr
                                                 ELSE addrOf[n]]]

\* client_write at a node that is not the leader, or no longer runs.
Refuse(c) ==
    /\ call[c].pc = "sent"
    /\ \E n \in Nodes :
         /\ addrOf[n] = call[c].addr
         /\ \/ n \in stopped /\ Reply(c, "fatal", NoNode)
            \/ n \notin stopped /\ knows[n] # n /\ Reply(c, "forward", knows[n])
    /\ UNCHANGED <<leader, clients, accepted, cluster>>

\* From here on call[c].node is the node that works on the statement.
Propose(c) ==
    /\ call[c].pc = "sent"
    /\ \E n \in Nodes \ stopped :
         /\ addrOf[n] = call[c].addr
         /\ knows[n] = n
         /\ call' = [call EXCEPT ![c].pc = "writing", ![c].node = n]
    /\ UNCHANGED <<leader, clients, accepted, cluster>>

\* The entry is committed: by the leader, or by its successor, which has
\* received it.
Commit(c) ==
    /\ call[c].pc = "writing"
    /\ call' = [call EXCEPT ![c].pc = "committed"]
    /\ accepted' = [accepted EXCEPT ![c] = @ + 1]
    /\ UNCHANGED <<leader, clients, cluster>>

Written(c) ==
    /\ call[c].pc = "committed"
    /\ call[c].node \notin stopped
    /\ Reply(c, "ok", NoNode)
    /\ UNCHANGED <<leader, clients, accepted, cluster>>

\* A core that stops, or finds itself deposed, drops the calls in progress,
\* which the Raft handle turns into Fatal.
Dropped(c) ==
    /\ call[c].pc \in {"writing", "committed"}
    /\ \/ call[c].node \in stopped
       \/ knows[call[c].node] # call[c].node
    /\ Reply(c, "fatal", NoNode)
    /\ UNCHANGED <<leader, clients, accepted, cluster>>

\* Nobody is there, the request does not arrive, or its answer does not.
Lose(c) ==
    /\ call[c].pc \in {"sent", "writing", "committed"}
    /\ Reply(c, "lost", NoNode)
    /\ UNCHANGED <<leader, clients, accepted, cluster>>

-----------------------------------------------------------------------------
(* The cluster *)

\* A change also ends the calm of the calls that are under way.
Change ==
    /\ changes < MaxChanges
    /\ changes' = changes + 1
    /\ call' = [c \in Calls |-> [call[c] EXCEPT !.calm = FALSE]]
    /\ UNCHANGED <<leader, clients, accepted>>

Elect(n) ==
    /\ n \notin stopped /\ n # raftLeader
    /\ Change
    /\ raftLeader' = n
    /\ knows' = [knows EXCEPT ![n] = n]
    /\ UNCHANGED <<stopped, addrOf, had>>

\* A node stands for election and is not elected.
Forget(n) ==
    /\ n # raftLeader /\ knows[n] # NoNode
    /\ Change
    /\ knows' = [knows EXCEPT ![n] = NoNode]
    /\ UNCHANGED <<raftLeader, stopped, addrOf, had>>

Stop(n) ==
    /\ n \notin stopped
    /\ Change
    /\ stopped' = stopped \cup {n}
    /\ UNCHANGED <<raftLeader, knows, addrOf, had>>

\* A node comes back at another address, and the membership says so.
Move(n, a) ==
    /\ \A m \in Nodes : addrOf[m] # a
    /\ Change
    /\ addrOf' = [addrOf EXCEPT ![n] = a]
    /\ had' = [had EXCEPT ![n] = @ \cup {a}]
    /\ UNCHANGED <<raftLeader, knows, stopped>>

Learn(n) ==
    /\ knows[n] # raftLeader
    /\ knows' = [knows EXCEPT ![n] = raftLeader]
    /\ UNCHANGED <<leader, clients, call, accepted, raftLeader, stopped, addrOf,
                   had, changes>>

ClientStep(c) ==
    \/ ReadCell(c) \/ LookUp(c) \/ Connect(c) \/ ConnectInvalid(c)
    \/ TakeOk(c) \/ TakeLost(c) \/ TakeNoLeader(c) \/ Redirect(c)

RemoteStep(c) ==
    Refuse(c) \/ Propose(c) \/ Commit(c) \/ Written(c) \/ Dropped(c) \/ Lose(c)

Next ==
    \/ \E c \in Calls : Start(c) \/ ClientStep(c) \/ RemoteStep(c)
    \/ \E n \in Nodes :
         \/ Elect(n) \/ Learn(n) \/ Forget(n) \/ Stop(n)
         \/ \E a \in Addrs : Move(n, a)

Spec == Init /\ [][Next]_vars

\* The runtime polls a call that can go on.  Nothing is assumed of the cluster:
\* a leader without a quorum may leave client_write without an answer for ever.
FairSpec == Spec /\ \A c \in Calls : WF_vars(ClientStep(c))

-----------------------------------------------------------------------------
TypeOK ==
    /\ leader \in [node : Nodes, addr : Addrs]
    /\ clients \in [Nodes -> Addrs \cup {NoAddr}]
    /\ call \in [Calls -> Call]
    /\ accepted \in [Calls -> Nat]
    /\ raftLeader \in Nodes
    /\ knows \in [Nodes -> Nodes \cup {NoNode}]
    /\ stopped \subseteq Nodes
    /\ addrOf \in [Nodes -> Addrs]
    /\ had \in [Nodes -> SUBSET Addrs]
    /\ changes \in 0..MaxChanges

\* execute retries, but a statement gets into the log at most once, also when
\* an answer is lost; and when it gives up with UnknownLeader it did not.
AtMostOnce ==
    \A c \in Calls :
        /\ accepted[c] <= 1
        /\ call[c].result = "unknown_leader" => accepted[c] = 0

\* The calls overwrite the cell and the table without holding a lock between
\* reading and writing; still an id is never paired with another node's address.
AddressesBelong ==
    /\ leader.addr \in had[leader.node]
    /\ \A n \in Nodes : clients[n] \in had[n] \cup {NoAddr}

\* Three tries are enough for two calls: while the cluster does not change, the
\* stale redirect of another call can send a call astray once, but not for good.
FoundWhenSettled ==
    \A c \in Calls : call[c].calm => call[c].result # "unknown_leader"

\* A call ends or waits for one node's answer; it does not follow redirects for
\* ever, even when nodes redirect in a circle or a moved node cannot be reached.
RedirectsEnd ==
    \A c \in Calls :
        <>[](call[c].pc \in {"new", "sent", "writing", "committed", "done"})

\* A statement that execute reports as done is in the log: "This is executed
\* on the leader node" (client.rs:82).
SuccessMeansAccepted ==
    \A c \in Calls : call[c].result = "ok" => accepted[c] = 1
=============================================================================
