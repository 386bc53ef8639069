---------------------------- MODULE ClientProofs ----------------------------
(***************************************************************************)
(* Theorems about Client for any number of calls, nodes and changes of the *)
(* cluster: how far a call has come says how often its statement may be in *)
(* the log, and whatever id it holds comes with an address of that node.   *)
(***************************************************************************)
EXTENDS Client, TLAPS

\* A call x whose statement is in the log as often as times says.
Once(x, times) ==
    /\ times \in {0, 1}
    /\ x.pc \in {"new", "cell", "lookup", "connect", "sent", "writing"} => times = 0
    /\ x.answer.kind = "forward" => times = 0 /\ x.pc = "answered"
    /\ x.result = "unknown_leader" => times = 0 /\ x.pc = "done"

\* What a call x has read from the cell, and what it has been told.
Paired(x) ==
    /\ x.pc \in {"lookup", "connect"} => x.node \in Nodes /\ x.addr \in had[x.node]
    /\ x.pc \in {"writing", "committed"} => x.node \in Nodes
    /\ x.answer.node \in Nodes => x.answer.addr \in had[x.answer.node]

NodesSound == \A n \in Nodes : addrOf[n] \in had[n]

CallsSound == \A c \in Calls : Once(call[c], accepted[c]) /\ Paired(call[c])

IInv == TypeOK /\ AddressesBelong /\ NodesSound /\ CallsSound

-----------------------------------------------------------------------------
LEMMA InitIInv == Init => IInv
<1> SUFFICES ASSUME Init PROVE IInv
  OBVIOUS
<1> USE ClientAssumption DEF Init, NoAnswer
<1>1. TypeOK
  BY DEF TypeOK, Call, Tries, Answer
<1>2. CallsSound
  BY DEF CallsSound, Once, Paired
<1>3. NodesSound /\ AddressesBelong
  BY DEF NodesSound, AddressesBelong
<1> QED
  BY <1>1, <1>2, <1>3 DEF IInv

-----------------------------------------------------------------------------
(* A step of one call: the call gets the value x, and nothing else is said  *)
(* of the step than what the invariant asks for.                            *)

LEMMA OneCall ==
    ASSUME IInv, NEW c \in Calls, NEW x \in Call,
           call' = [call EXCEPT ![c] = x],
           NEW times \in {0, 1}, accepted' = [accepted EXCEPT ![c] = times],
           Once(x, times), Paired(x),
           leader' \in [node : Nodes, addr : Addrs],
           leader'.addr \in had[leader'.node],
           clients' \in [Nodes -> Addrs \cup {NoAddr}],
           \A n \in Nodes : clients'[n] \in had[n] \cup {NoAddr},
           UNCHANGED cluster
    PROVE  IInv'
<1> USE DEF cluster
<1>1. TypeOK'
  BY DEF IInv, TypeOK
<1>2. AddressesBelong' /\ NodesSound'
  BY DEF IInv, AddressesBelong, NodesSound
<1>3. CallsSound'
  <2> SUFFICES ASSUME NEW d \in Calls PROVE Once(call'[d], accepted'[d]) /\ Paired(call'[d])
    BY DEF CallsSound, Paired
  <2>1. CASE d = c
    <3>1. call'[d] = x /\ accepted'[d] = times
      BY <2>1 DEF IInv, TypeOK
    <3> QED
      BY <3>1
  <2>2. CASE d # c
    <3>1. call'[d] = call[d] /\ accepted'[d] = accepted[d]
      BY <2>2 DEF IInv, TypeOK
    <3> QED
      BY <3>1 DEF IInv, CallsSound
  <2> QED
    BY <2>1, <2>2
<1> QED
  BY <1>1, <1>2, <1>3 DEF IInv

\* The same for a step that changes nothing but the call.
LEMMA OnlyCall ==
    ASSUME IInv, NEW c \in Calls, NEW x \in Call,
           call' = [call EXCEPT ![c] = x],
           Once(x, accepted[c]), Paired(x),
           UNCHANGED <<leader, clients, accepted, cluster>>
    PROVE  IInv'
<1>1. accepted[c] \in {0, 1}
  BY DEF IInv, CallsSound, Once
<1>2. accepted' = [accepted EXCEPT ![c] = accepted[c]]
  BY DEF IInv, TypeOK
<1>3. /\ leader' \in [node : Nodes, addr : Addrs]
      /\ leader'.addr \in had[leader'.node]
      /\ clients' \in [Nodes -> Addrs \cup {NoAddr}]
      /\ \A n \in Nodes : clients'[n] \in had[n] \cup {NoAddr}
  BY DEF IInv, TypeOK, AddressesBelong
<1> QED
  BY <1>1, <1>2, <1>3, OneCall

LEMMA StepsBeforeSending ==
    ASSUME IInv, NEW c \in Calls, Start(c) \/ ReadCell(c) \/ LookUp(c)
    PROVE  IInv'
<1>0. call[c] \in Call /\ Once(call[c], accepted[c]) /\ Paired(call[c])
  BY DEF IInv, TypeOK, CallsSound
<1>1. CASE Start(c)
  <2> DEFINE x == [call[c] EXCEPT !.pc = "cell", !.calm = Settled]
  <2>1. call' = [call EXCEPT ![c] = x] /\ call[c].pc = "new"
    BY <1>1 DEF Start, IInv, TypeOK
  <2>2. x \in Call
    BY <1>0 DEF Call, Settled
  <2>3. Once(x, accepted[c]) /\ Paired(x)
    BY <1>0, <2>1 DEF Once, Paired, Call
  <2> QED
    BY <1>1, <2>1, <2>2, <2>3, OnlyCall DEF Start
<1>2. CASE ReadCell(c)
  <2> DEFINE x == [call[c] EXCEPT !.pc = "lookup", !.node = leader.node,
                                  !.addr = leader.addr]
  <2>1. call' = [call EXCEPT ![c] = x] /\ call[c].pc = "cell"
    BY <1>2 DEF ReadCell, IInv, TypeOK
  <2>2. leader.node \in Nodes /\ leader.addr \in Addrs /\ leader.addr \in had[leader.node]
    BY DEF IInv, TypeOK, AddressesBelong
  <2>3. x \in Call
    BY <1>0, <2>2 DEF Call
  <2>4. Once(x, accepted[c]) /\ Paired(x)
    BY <1>0, <2>1, <2>2 DEF Once, Paired, Call
  <2> QED
    BY <1>2, <2>1, <2>3, <2>4, OnlyCall DEF ReadCell
<1>3. CASE LookUp(c) /\ clients[call[c].node] = NoAddr
  <2> DEFINE x == [call[c] EXCEPT !.pc = "connect"]
  <2>1. call' = [call EXCEPT ![c] = x] /\ call[c].pc = "lookup"
    BY <1>3 DEF LookUp, IInv, TypeOK
  <2>2. x \in Call
    BY <1>0 DEF Call
  <2>3. Once(x, accepted[c]) /\ Paired(x)
    BY <1>0, <2>1 DEF Once, Paired, Call
  <2> QED
    BY <1>3, <2>1, <2>2, <2>3, OnlyCall DEF LookUp
<1>4. CASE LookUp(c) /\ clients[call[c].node] # NoAddr
  <2> DEFINE x == [call[c] EXCEPT !.pc = "sent", !.addr = clients[call[c].node]]
  <2>1. call' = [call EXCEPT ![c] = x] /\ call[c].pc = "lookup"
    BY <1>4 DEF LookUp, IInv, TypeOK
  <2>2. clients[call[c].node] \in Addrs
    BY <1>0, <1>4, <2>1 DEF IInv, TypeOK, Paired
  <2>3. x \in Call
    BY <1>0, <2>2 DEF Call
  <2>4. Once(x, accepted[c]) /\ Paired(x)
    BY <1>0, <2>1 DEF Once, Paired, Call
  <2> QED
    BY <1>4, <2>1, <2>3, <2>4, OnlyCall DEF LookUp
<1> QED
  BY <1>1, <1>2, <1>3, <1>4

LEMMA ConnectKeepsIInv ==
    ASSUME IInv, NEW c \in Calls, Connect(c)
    PROVE  IInv'
<1> DEFINE x == [call[c] EXCEPT !.pc = "sent"]
<1>1. call' = [call EXCEPT ![c] = x] /\ call[c].pc = "connect"
  BY DEF Connect, IInv, TypeOK
<1>2. /\ call[c] \in Call /\ Once(call[c], accepted[c]) /\ Paired(call[c])
      /\ accepted[c] \in {0, 1}
  BY DEF IInv, TypeOK, CallsSound, Once
<1>3. x \in Call
  BY <1>2 DEF Call
<1>4. Once(x, accepted[c]) /\ Paired(x)
  BY <1>1, <1>2 DEF Once, Paired, Call
<1>5. call[c].node \in Nodes /\ call[c].addr \in had[call[c].node]
  BY <1>1, <1>2 DEF Paired
<1>6. /\ clients' \in [Nodes -> Addrs \cup {NoAddr}]
      /\ \A n \in Nodes : clients'[n] \in had[n] \cup {NoAddr}
  BY <1>2, <1>5 DEF Connect, IInv, TypeOK, AddressesBelong, Call
<1>7. /\ leader' \in [node : Nodes, addr : Addrs]
      /\ leader'.addr \in had[leader'.node]
      /\ accepted' = [accepted EXCEPT ![c] = accepted[c]]
  BY DEF Connect, IInv, TypeOK, AddressesBelong
<1> QED
  BY <1>1, <1>2, <1>3, <1>4, <1>6, <1>7, OneCall DEF Connect

LEMMA FinishSound ==
    ASSUME IInv, NEW c \in Calls, call[c].pc \in {"connect", "answered"},
           NEW result \in {"ok", "network", "unknown_leader", "panicked"},
           result = "unknown_leader" => accepted[c] = 0,
           Finish(c, result)
    PROVE  \E x \in Call : /\ call' = [call EXCEPT ![c] = x]
                           /\ Once(x, accepted[c]) /\ Paired(x)
<1> DEFINE x == [call[c] EXCEPT !.pc = "done", !.result = result, !.answer = NoAnswer]
<1>1. call' = [call EXCEPT ![c] = x]
  BY DEF Finish, IInv, TypeOK
<1>2. call[c] \in Call /\ Once(call[c], accepted[c])
  BY DEF IInv, TypeOK, CallsSound
<1>3. x \in Call
  BY <1>2 DEF Call, NoAnswer, Answer
<1>4. Once(x, accepted[c]) /\ Paired(x)
  BY <1>2, ClientAssumption DEF Once, Paired, Call, NoAnswer
<1> QED
  BY <1>1, <1>3, <1>4

LEMMA AgainSound ==
    ASSUME IInv, NEW c \in Calls, call[c].pc = "answered", accepted[c] = 0,
           NEW tries \in 1..Tries, Again(c, tries)
    PROVE  \E x \in Call : /\ call' = [call EXCEPT ![c] = x]
                           /\ Once(x, accepted[c]) /\ Paired(x)
<1> DEFINE x == [call[c] EXCEPT !.pc = "cell", !.tries = tries, !.answer = NoAnswer]
<1>1. call' = [call EXCEPT ![c] = x]
  BY DEF Again, IInv, TypeOK
<1>2. call[c] \in Call /\ Once(call[c], accepted[c])
  BY DEF IInv, TypeOK, CallsSound
<1>3. x \in Call
  BY <1>2 DEF Call, NoAnswer, Answer
<1>4. Once(x, accepted[c]) /\ Paired(x)
  BY <1>2, ClientAssumption DEF Once, Paired, Call, NoAnswer
<1> QED
  BY <1>1, <1>3, <1>4

LEMMA TakeKeepsIInv ==
    ASSUME IInv, NEW c \in Calls,
           \/ ConnectInvalid(c) \/ TakeOk(c) \/ TakeLost(c) \/ TakeNoLeader(c)
           \/ Redirect(c)
    PROVE  IInv'
<1>1. /\ call[c].pc \in {"connect", "answered"}
      /\ UNCHANGED <<clients, accepted, cluster>>
  BY DEF ConnectInvalid, TakeOk, TakeLost, TakeNoLeader, Redirect, UpdateLeader, Take
<1>2. CASE ConnectInvalid(c) \/ TakeOk(c) \/ TakeLost(c) \/ TakeNoLeader(c)
  <2>1. UNCHANGED leader
        /\ \E result \in {"ok", "network", "panicked"} : Finish(c, result)
    BY <1>2 DEF ConnectInvalid, TakeOk, TakeLost, TakeNoLeader
  <2>2. PICK x \in Call : /\ call' = [call EXCEPT ![c] = x]
                          /\ Once(x, accepted[c]) /\ Paired(x)
    BY <1>1, <2>1, FinishSound
  <2> QED
    BY <1>1, <2>1, <2>2, OnlyCall
<1>3. CASE Redirect(c)
  <2>1. /\ call[c].pc = "answered"
        /\ call[c].answer.kind = "forward" /\ call[c].answer.node # NoNode
        /\ leader' = [node |-> call[c].answer.node, addr |-> call[c].answer.addr]
    BY <1>3 DEF Redirect, UpdateLeader, Take
  <2>2. /\ call[c] \in Call /\ Once(call[c], accepted[c]) /\ Paired(call[c])
    BY DEF IInv, TypeOK, CallsSound
  <2>3. accepted[c] = 0
    BY <2>1, <2>2 DEF Once
  <2>4. /\ call[c].answer.node \in Nodes
        /\ call[c].answer.addr \in had[call[c].answer.node]
    BY <2>1, <2>2 DEF Paired, Call, Answer
  <2>5. /\ leader' \in [node : Nodes, addr : Addrs]
        /\ leader'.addr \in had[leader'.node]
    BY <2>1, <2>4 DEF IInv, TypeOK
  <2>6. PICK x \in Call : /\ call' = [call EXCEPT ![c] = x]
                          /\ Once(x, accepted[c]) /\ Paired(x)
    <3>1. CASE call[c].tries = 1
      BY <1>1, <1>3, <2>3, <3>1, FinishSound DEF Redirect
    <3>2. CASE call[c].tries # 1
      <4>1. call[c].tries - 1 \in 1..Tries /\ Again(c, call[c].tries - 1)
        BY <1>3, <2>2, <3>2 DEF Redirect, Call, Tries
      <4> QED
        BY <2>1, <2>3, <4>1, AgainSound
    <3> QED
      BY <3>1, <3>2
  <2>7. /\ accepted' = [accepted EXCEPT ![c] = accepted[c]]
        /\ clients' \in [Nodes -> Addrs \cup {NoAddr}]
        /\ \A n \in Nodes : clients'[n] \in had[n] \cup {NoAddr}
    BY <1>1 DEF IInv, TypeOK, AddressesBelong
  <2> QED
    BY <1>1, <2>3, <2>5, <2>6, <2>7, OneCall
<1> QED
  BY <1>2, <1>3

-----------------------------------------------------------------------------
LEMMA ReplySound ==
    ASSUME IInv, NEW c \in Calls, call[c].pc \in {"sent", "writing", "committed"},
           NEW kind \in {"ok", "forward", "fatal", "lost"},
           NEW n \in Nodes \cup {NoNode},
           kind = "forward" => accepted[c] = 0,
           Reply(c, kind, n)
    PROVE  \E x \in Call : /\ call' = [call EXCEPT ![c] = x]
                           /\ Once(x, accepted[c]) /\ Paired(x)
<1> DEFINE answer == [kind |-> kind, node |-> n,
                      addr |-> IF n = NoNode THEN NoAddr ELSE addrOf[n]]
           x == [call[c] EXCEPT !.pc = "answered", !.answer = answer]
<1>1. call' = [call EXCEPT ![c] = x]
  BY DEF Reply, IInv, TypeOK
<1>2. call[c] \in Call /\ Once(call[c], accepted[c])
  BY DEF IInv, TypeOK, CallsSound
<1>3. answer \in Answer
  BY DEF Answer, IInv, TypeOK
<1>4. x \in Call
  BY <1>2, <1>3 DEF Call
<1>5. Once(x, accepted[c])
  BY <1>2 DEF Once, Call
<1>6. Paired(x)
  BY <1>2, ClientAssumption DEF Paired, Call, IInv, NodesSound
<1> QED
  BY <1>1, <1>4, <1>5, <1>6

LEMMA RemoteKeepsIInv ==
    ASSUME IInv, NEW c \in Calls, RemoteStep(c)
    PROVE  IInv'
<1>0. call[c] \in Call /\ Once(call[c], accepted[c]) /\ Paired(call[c])
  BY DEF IInv, TypeOK, CallsSound
<1>1. CASE Refuse(c) \/ Written(c) \/ Dropped(c) \/ Lose(c)
  <2>1. /\ call[c].pc \in {"sent", "writing", "committed"}
        /\ \E kind \in {"ok", "forward", "fatal", "lost"}, n \in Nodes \cup {NoNode} :
             /\ kind = "forward" => call[c].pc = "sent"
             /\ Reply(c, kind, n)
        /\ UNCHANGED <<leader, clients, accepted, cluster>>
    BY <1>1 DEF Refuse, Written, Dropped, Lose, IInv, TypeOK
  <2>2. call[c].pc = "sent" => accepted[c] = 0
    BY <1>0 DEF Once
  <2>3. PICK x \in Call : /\ call' = [call EXCEPT ![c] = x]
                          /\ Once(x, accepted[c]) /\ Paired(x)
    BY <2>1, <2>2, ReplySound
  <2> QED
    BY <2>1, <2>3, OnlyCall
<1>2. CASE Propose(c)
  <2>1. PICK n \in Nodes : call' = [call EXCEPT ![c].pc = "writing", ![c].node = n]
    BY <1>2 DEF Propose
  <2> DEFINE x == [call[c] EXCEPT !.pc = "writing", !.node = n]
  <2>2. call' = [call EXCEPT ![c] = x] /\ call[c].pc = "sent"
    BY <1>2, <2>1 DEF Propose, IInv, TypeOK
  <2>3. x \in Call
    BY <1>0 DEF Call
  <2>4. Once(x, accepted[c]) /\ Paired(x)
    BY <1>0, <2>2 DEF Once, Paired, Call
  <2> QED
    BY <1>2, <2>2, <2>3, <2>4, OnlyCall DEF Propose
<1>3. CASE Commit(c)
  <2> DEFINE x == [call[c] EXCEPT !.pc = "committed"]
  <2>1. call' = [call EXCEPT ![c] = x] /\ call[c].pc = "writing"
    BY <1>3 DEF Commit, IInv, TypeOK
  <2>2. accepted[c] = 0
    BY <1>0, <2>1 DEF Once
  <2>3. accepted' = [accepted EXCEPT ![c] = 1]
    BY <1>3, <2>2 DEF Commit
  <2>4. x \in Call
    BY <1>0 DEF Call
  <2>5. Once(x, 1) /\ Paired(x)
    BY <1>0, <2>1 DEF Once, Paired, Call
  <2> QED
    BY <1>3, <2>1, <2>3, <2>4, <2>5, OneCall DEF Commit, IInv, TypeOK, AddressesBelong
<1> QED
  BY <1>1, <1>2, <1>3 DEF RemoteStep

-----------------------------------------------------------------------------
LEMMA ChangeKeepsCalls ==
    ASSUME IInv, Change, NEW had2, had' = had2,
           \A n \in Nodes : had[n] \subseteq had2[n]
    PROVE  /\ call' \in [Calls -> Call]
           /\ CallsSound'
           /\ AddressesBelong'
<1>1. ASSUME NEW c \in Calls
      PROVE  /\ call'[c] \in Call
             /\ Once(call'[c], accepted[c])
             /\ Paired(call[c])'
  <2> DEFINE x == [call[c] EXCEPT !.calm = FALSE]
  <2>1. call'[c] = x
    BY DEF Change
  <2>2. call[c] \in Call /\ Once(call[c], accepted[c]) /\ Paired(call[c])
    BY DEF IInv, TypeOK, CallsSound
  <2>3. x \in Call
    BY <2>2 DEF Call
  <2>4. Once(x, accepted[c])
    BY <2>2 DEF Once, Call
  <2>5. Paired(call[c])'
    <3>1. /\ call'[c].pc = call[c].pc /\ call'[c].node = call[c].node
          /\ call'[c].addr = call[c].addr /\ call'[c].answer = call[c].answer
      BY <2>1, <2>2 DEF Call
    <3>2. call[c].answer.node \in Nodes \cup {NoNode}
      BY <2>2 DEF Call, Answer
    <3> QED
      BY <2>2, <3>1, <3>2 DEF Paired
  <2> QED
    BY <2>1, <2>3, <2>4, <2>5
<1>2. call' \in [Calls -> Call]
  BY <1>1 DEF Change
<1>3. CallsSound'
  BY <1>1 DEF CallsSound, Change
<1>4. AddressesBelong'
  BY DEF IInv, TypeOK, AddressesBelong, Change
<1> QED
  BY <1>2, <1>3, <1>4

LEMMA ClusterKeepsIInv ==
    ASSUME IInv, NEW n \in Nodes,
           \/ Elect(n) \/ Learn(n) \/ Forget(n) \/ Stop(n)
           \/ \E a \in Addrs : Move(n, a)
    PROVE  IInv'
<1>1. CASE Elect(n) \/ Forget(n) \/ Stop(n)
  <2>1. Change /\ UNCHANGED <<addrOf, had>>
    BY <1>1 DEF Elect, Forget, Stop
  <2>2. call' \in [Calls -> Call] /\ CallsSound' /\ AddressesBelong'
    BY <2>1, ChangeKeepsCalls
  <2>3. /\ raftLeader' \in Nodes
        /\ knows' \in [Nodes -> Nodes \cup {NoNode}]
        /\ stopped' \subseteq Nodes
    BY <1>1 DEF Elect, Forget, Stop, IInv, TypeOK
  <2>4. TypeOK'
    BY <2>1, <2>2, <2>3, ClientAssumption DEF Change, IInv, TypeOK
  <2> QED
    BY <2>1, <2>2, <2>4 DEF IInv, NodesSound
<1>2. ASSUME NEW a \in Addrs, Move(n, a)
      PROVE  IInv'
  <2>1. /\ Change
        /\ addrOf' = [addrOf EXCEPT ![n] = a]
        /\ had' = [had EXCEPT ![n] = @ \cup {a}]
        /\ UNCHANGED <<raftLeader, knows, stopped>>
    BY <1>2 DEF Move
  <2>2. \A m \in Nodes : had[m] \subseteq had'[m]
    BY <2>1 DEF IInv, TypeOK
  <2>3. call' \in [Calls -> Call] /\ CallsSound' /\ AddressesBelong'
    BY <2>1, <2>2, ChangeKeepsCalls
  <2>4. TypeOK'
    BY <2>1, <2>3, ClientAssumption DEF Change, IInv, TypeOK
  <2>5. NodesSound'
    BY <2>1 DEF IInv, TypeOK, NodesSound
  <2> QED
    BY <2>3, <2>4, <2>5 DEF IInv
<1>3. CASE Learn(n)
  <2>1. TypeOK'
    BY <1>3 DEF Learn, IInv, TypeOK
  <2>2. AddressesBelong' /\ NodesSound' /\ CallsSound'
    BY <1>3 DEF Learn, IInv, AddressesBelong, NodesSound, CallsSound, Paired
  <2> QED
    BY <2>1, <2>2 DEF IInv
<1> QED
  BY <1>1, <1>2, <1>3

LEMMA NextKeepsIInv == IInv /\ [Next]_vars => IInv'
<1> SUFFICES ASSUME IInv, [Next]_vars PROVE IInv'
  OBVIOUS
<1>1. ASSUME NEW c \in Calls, Start(c) \/ ClientStep(c) \/ RemoteStep(c)
      PROVE  IInv'
  BY <1>1, StepsBeforeSending, ConnectKeepsIInv, TakeKeepsIInv, RemoteKeepsIInv
     DEF ClientStep
<1>2. CASE UNCHANGED vars
  BY <1>2 DEF vars, IInv, TypeOK, AddressesBelong, NodesSound, CallsSound, Paired
<1> QED
  BY <1>1, <1>2, ClusterKeepsIInv DEF Next

LEMMA SpecKeepsIInv == Spec => []IInv
  BY InitIInv, NextKeepsIInv, PTL DEF Spec

-----------------------------------------------------------------------------
\* Every variable of the client and the cluster keeps its type.
THEOREM TypeCorrect == Spec => []TypeOK
<1>1. IInv => TypeOK
  BY DEF IInv
<1> QED
  BY <1>1, SpecKeepsIInv, PTL

\* However many calls race on the cell, and however often nodes are elected,
\* stop and move, a statement gets into the log at most once, and not at all
\* when execute gives up with UnknownLeader.
THEOREM StatementsOnce == Spec => []AtMostOnce
<1>1. IInv => AtMostOnce
  BY DEF IInv, CallsSound, Once, AtMostOnce
<1> QED
  BY <1>1, SpecKeepsIInv, PTL

\* The cell and the table of connections never pair an id with an address that
\* its node did not have, though no lock is held between reading and writing.
THEOREM AddressesPaired == Spec => []AddressesBelong
<1>1. IInv => AddressesBelong
  BY DEF IInv
<1> QED
  BY <1>1, SpecKeepsIInv, PTL

-----------------------------------------------------------------------------
(* How a call that the cluster leaves in peace finds the leader.  It can be *)
(* led astray by what the cell holds when it begins, and by the redirect    *)
(* another call was given before that and has yet to follow.                *)

\* A call x is about to put another node than the leader into the cell.
Stale(x) ==
    x.pc = "answered" /\ x.answer.kind = "forward" /\ x.answer.node # raftLeader

\* A call x is on its way to another node than the leader, or back.
Astray(x) ==
    \/ x.pc \in {"lookup", "connect"} /\ x.node # raftLeader
    \/ x.pc = "sent" /\ x.addr # addrOf[raftLeader]
    \/ x.pc = "answered" /\ x.answer.kind = "forward"

CellDetour == IF leader.node = raftLeader THEN 0 ELSE 1

OtherDetour(c) == IF \E d \in Calls \ {c} : Stale(call[d]) THEN 1 ELSE 0

\* Each detour costs a call x one of its tries, and the last one finds the leader.
Enough(x, cell, other) ==
    /\ x.pc = "cell" => x.tries >= 1 + cell + other
    /\ Astray(x) => x.tries >= 2 + other
    /\ ~Stale(x)
    /\ x.result # "unknown_leader"

AddrsDistinct == \A m, n \in Nodes : addrOf[m] = addrOf[n] => m = n

TriesLeft ==
    \A c \in Calls :
        /\ call[c].pc = "new" => call[c].tries = Tries
        /\ call[c].calm => Settled /\ Enough(call[c], CellDetour, OtherDetour(c))

FInv == IInv /\ AddrsDistinct /\ TriesLeft

\* A node's own id never leads to another node while the cluster is settled.
LEMMA SettledAddress ==
    ASSUME FInv, Settled, NEW n \in Nodes, NEW a \in had[n]
    PROVE  a = addrOf[n]
  BY DEF Settled

\* What a step of call c does to the call itself, when the cluster is settled.
StepOf(c, x) ==
    /\ call' = [call EXCEPT ![c] = x]
    /\ x \in Call
    /\ UNCHANGED cluster
    /\ call[c].pc = "new" \/ (x.calm = call[c].calm /\ x.pc # "new")

LEMMA StartStep ==
    ASSUME FInv, NEW c \in Calls, Start(c)
    PROVE  \E x : /\ StepOf(c, x) /\ UNCHANGED leader
                  /\ x.pc = "cell" /\ x.tries = Tries /\ x.calm = Settled
                  /\ x.result # "unknown_leader"
<1> DEFINE x == [call[c] EXCEPT !.pc = "cell", !.calm = Settled]
<1>1. call[c] \in Call /\ Once(call[c], accepted[c]) /\ Settled \in BOOLEAN
  BY DEF FInv, IInv, TypeOK, CallsSound, Settled
<1>2. x \in Call
  BY <1>1 DEF Call
<1>3. call' = [call EXCEPT ![c] = x] /\ call[c].pc = "new" /\ UNCHANGED <<leader, cluster>>
  BY DEF Start, FInv, IInv, TypeOK
<1>4. x.pc = "cell" /\ x.calm = Settled /\ x.tries = call[c].tries
      /\ x.result = call[c].result
  BY <1>1 DEF Call
<1>5. call[c].tries = Tries /\ call[c].result # "unknown_leader"
  BY <1>1, <1>3 DEF FInv, TriesLeft, Once
<1> HIDE DEF x
<1> QED
  BY <1>2, <1>3, <1>4, <1>5 DEF StepOf

LEMMA SeekStep ==
    ASSUME FInv, NEW c \in Calls, ReadCell(c) \/ LookUp(c) \/ Connect(c)
    PROVE  \E x : /\ StepOf(c, x) /\ UNCHANGED leader
                  /\ x.pc \in {"lookup", "connect", "sent"}
                  /\ x.tries = call[c].tries /\ x.result = call[c].result
                  /\ Settled /\ Astray(x) =>
                       \/ call[c].pc = "cell" /\ leader.node # raftLeader
                       \/ Astray(call[c])
<1>1. call[c] \in Call /\ Paired(call[c])
  BY DEF FInv, IInv, TypeOK, CallsSound
<1>2. CASE ReadCell(c)
  <2> DEFINE x == [call[c] EXCEPT !.pc = "lookup", !.node = leader.node,
                                  !.addr = leader.addr]
  <2>1. call' = [call EXCEPT ![c] = x] /\ call[c].pc = "cell" /\ UNCHANGED <<leader, cluster>>
    BY <1>2 DEF ReadCell, FInv, IInv, TypeOK
  <2>2. x \in Call
    BY <1>1 DEF Call, FInv, IInv, TypeOK
  <2>3. /\ x.pc = "lookup" /\ x.node = leader.node /\ x.calm = call[c].calm
        /\ x.tries = call[c].tries /\ x.result = call[c].result
    BY <1>1 DEF Call
  <2> HIDE DEF x
  <2> QED
    BY <2>1, <2>2, <2>3 DEF StepOf, Astray
<1>3. CASE LookUp(c) /\ clients[call[c].node] = NoAddr
  <2> DEFINE x == [call[c] EXCEPT !.pc = "connect"]
  <2>1. call' = [call EXCEPT ![c] = x] /\ call[c].pc = "lookup" /\ UNCHANGED <<leader, cluster>>
    BY <1>3 DEF LookUp, FInv, IInv, TypeOK
  <2>2. x \in Call
    BY <1>1 DEF Call
  <2>3. /\ x.pc = "connect" /\ x.node = call[c].node /\ x.calm = call[c].calm
        /\ x.tries = call[c].tries /\ x.result = call[c].result
    BY <1>1 DEF Call
  <2> HIDE DEF x
  <2> QED
    BY <2>1, <2>2, <2>3 DEF StepOf, Astray
<1>4. CASE LookUp(c) /\ clients[call[c].node] # NoAddr
  <2> DEFINE a == clients[call[c].node]
             x == [call[c] EXCEPT !.pc = "sent", !.addr = a]
  <2>1. call' = [call EXCEPT ![c] = x] /\ call[c].pc = "lookup" /\ UNCHANGED <<leader, cluster>>
    BY <1>4 DEF LookUp, FInv, IInv, TypeOK
  <2>2. call[c].node \in Nodes /\ a \in Addrs /\ a \in had[call[c].node]
    BY <1>1, <1>4, <2>1 DEF FInv, IInv, TypeOK, AddressesBelong, Paired
  <2>3. x \in Call
    BY <1>1, <2>2 DEF Call
  <2>4. /\ x.pc = "sent" /\ x.addr = a /\ x.calm = call[c].calm
        /\ x.tries = call[c].tries /\ x.result = call[c].result
    BY <1>1 DEF Call
  <2>5. Settled => a = addrOf[call[c].node]
    BY <2>2, SettledAddress
  <2> HIDE DEF x, a
  <2> QED
    BY <2>1, <2>3, <2>4, <2>5 DEF StepOf, Astray
<1>5. CASE Connect(c)
  <2> DEFINE x == [call[c] EXCEPT !.pc = "sent"]
  <2>1. call' = [call EXCEPT ![c] = x] /\ call[c].pc = "connect" /\ UNCHANGED <<leader, cluster>>
    BY <1>5 DEF Connect, FInv, IInv, TypeOK
  <2>2. call[c].node \in Nodes /\ call[c].addr \in had[call[c].node]
    BY <1>1, <2>1 DEF Paired
  <2>3. x \in Call
    BY <1>1 DEF Call
  <2>4. /\ x.pc = "sent" /\ x.addr = call[c].addr /\ x.calm = call[c].calm
        /\ x.tries = call[c].tries /\ x.result = call[c].result
    BY <1>1 DEF Call
  <2>5. Settled => call[c].addr = addrOf[call[c].node]
    BY <2>2, SettledAddress
  <2> HIDE DEF x
  <2> QED
    BY <2>1, <2>3, <2>4, <2>5 DEF StepOf, Astray
<1> QED
  BY <1>2, <1>3, <1>4, <1>5

\* In a settled cluster only the leader's address gets no redirect, and every
\* redirect is to the leader.
LEMMA RemoteStepOf ==
    ASSUME FInv, NEW c \in Calls, RemoteStep(c)
    PROVE  \E x : /\ StepOf(c, x) /\ UNCHANGED leader
                  /\ x.pc \in {"writing", "committed", "answered"}
                  /\ x.tries = call[c].tries /\ x.result = call[c].result
                  /\ Settled /\ x.pc = "answered" /\ x.answer.kind = "forward" =>
                       x.answer.node = raftLeader /\ Astray(call[c])
<1>1. call[c] \in Call
  BY DEF FInv, IInv, TypeOK
<1>2. CASE Propose(c)
  <2>1. PICK n \in Nodes : call' = [call EXCEPT ![c].pc = "writing", ![c].node = n]
    BY <1>2 DEF Propose
  <2> DEFINE x == [call[c] EXCEPT !.pc = "writing", !.node = n]
  <2>2. call' = [call EXCEPT ![c] = x] /\ call[c].pc = "sent" /\ UNCHANGED <<leader, cluster>>
    BY <1>2, <2>1 DEF Propose, FInv, IInv, TypeOK
  <2>3. x \in Call
    BY <1>1 DEF Call
  <2>4. /\ x.pc = "writing" /\ x.calm = call[c].calm
        /\ x.tries = call[c].tries /\ x.result = call[c].result
    BY <1>1 DEF Call
  <2> HIDE DEF x
  <2> QED
    BY <2>2, <2>3, <2>4 DEF StepOf
<1>3. CASE Commit(c)
  <2> DEFINE x == [call[c] EXCEPT !.pc = "committed"]
  <2>1. call' = [call EXCEPT ![c] = x] /\ call[c].pc = "writing" /\ UNCHANGED <<leader, cluster>>
    BY <1>3 DEF Commit, FInv, IInv, TypeOK
  <2>2. x \in Call
    BY <1>1 DEF Call
  <2>3. /\ x.pc = "committed" /\ x.calm = call[c].calm
        /\ x.tries = call[c].tries /\ x.result = call[c].result
    BY <1>1 DEF Call
  <2> HIDE DEF x
  <2> QED
    BY <2>1, <2>2, <2>3 DEF StepOf
<1>4. CASE Refuse(c) \/ Written(c) \/ Dropped(c) \/ Lose(c)
  <2>1. PICK kind \in {"ok", "forward", "fatal", "lost"}, n \in Nodes \cup {NoNode} :
          /\ Reply(c, kind, n)
          /\ kind = "forward" =>
               /\ call[c].pc = "sent"
               /\ \E m \in Nodes : /\ addrOf[m] = call[c].addr
                                   /\ knows[m] # m /\ n = knows[m]
    BY <1>4 DEF Refuse, Written, Dropped, Lose, FInv, IInv, TypeOK
  <2>2. UNCHANGED <<leader, cluster>> /\ call[c].pc \in {"sent", "writing", "committed"}
    BY <1>4 DEF Refuse, Written, Dropped, Lose
  <2> DEFINE answer == [kind |-> kind, node |-> n,
                        addr |-> IF n = NoNode THEN NoAddr ELSE addrOf[n]]
             x == [call[c] EXCEPT !.pc = "answered", !.answer = answer]
  <2>3. call' = [call EXCEPT ![c] = x]
    BY <2>1 DEF Reply, FInv, IInv, TypeOK
  <2>4. answer \in Answer /\ answer.kind = kind /\ answer.node = n
    BY DEF Answer, FInv, IInv, TypeOK
  <2> HIDE DEF answer
  <2>5. x \in Call
    BY <1>1, <2>4 DEF Call
  <2>6. /\ x.pc = "answered" /\ x.answer = answer /\ x.calm = call[c].calm
        /\ x.tries = call[c].tries /\ x.result = call[c].result
    BY <1>1 DEF Call
  <2>7. Settled /\ kind = "forward" => n = raftLeader /\ Astray(call[c])
    <3> SUFFICES ASSUME Settled, kind = "forward"
                 PROVE  n = raftLeader /\ Astray(call[c])
      OBVIOUS
    <3>1. PICK m \in Nodes : addrOf[m] = call[c].addr /\ knows[m] # m /\ n = knows[m]
      BY <2>1
    <3>2. n = raftLeader /\ m # raftLeader
      BY <3>1 DEF Settled
    <3>3. addrOf[raftLeader] # call[c].addr
      BY <3>1, <3>2 DEF FInv, IInv, TypeOK, AddrsDistinct
    <3> QED
      BY <2>1, <3>2, <3>3 DEF Astray
  <2> HIDE DEF x
  <2> QED
    BY <2>2, <2>3, <2>4, <2>5, <2>6, <2>7 DEF StepOf
<1> QED
  BY <1>2, <1>3, <1>4 DEF RemoteStep

\* A call that ends without a redirect.
LEMMA EndStep ==
    ASSUME FInv, NEW c \in Calls,
           ConnectInvalid(c) \/ TakeOk(c) \/ TakeLost(c) \/ TakeNoLeader(c)
    PROVE  \E x : /\ StepOf(c, x) /\ UNCHANGED leader
                  /\ x.pc = "done" /\ x.result # "unknown_leader"
<1>1. /\ call[c].pc \in {"connect", "answered"} /\ UNCHANGED <<leader, cluster>>
      /\ \E result \in {"ok", "network", "panicked"} : Finish(c, result)
  BY DEF ConnectInvalid, TakeOk, TakeLost, TakeNoLeader, Take
<1>2. PICK result \in {"ok", "network", "panicked"} : Finish(c, result)
  BY <1>1
<1> DEFINE x == [call[c] EXCEPT !.pc = "done", !.result = result, !.answer = NoAnswer]
<1>3. call[c] \in Call
  BY DEF FInv, IInv, TypeOK
<1>4. call' = [call EXCEPT ![c] = x]
  BY <1>2 DEF Finish, FInv, IInv, TypeOK
<1>5. x \in Call
  BY <1>3 DEF Call, NoAnswer, Answer
<1>6. x.pc = "done" /\ x.result = result /\ x.calm = call[c].calm
  BY <1>3 DEF Call
<1> HIDE DEF x
<1> QED
  BY <1>1, <1>4, <1>5, <1>6 DEF StepOf

\* A redirect overwrites the cell, and costs a try.
LEMMA RedirectStep ==
    ASSUME FInv, NEW c \in Calls, Redirect(c)
    PROVE  /\ call[c].pc = "answered" /\ call[c].answer.kind = "forward"
           /\ leader'.node = call[c].answer.node
           /\ \E x : /\ StepOf(c, x) /\ x.pc \in {"cell", "done"}
                     /\ call[c].tries # 1 =>
                          /\ x.tries = call[c].tries - 1
                          /\ x.result = call[c].result
<1>1. /\ call[c].pc = "answered" /\ call[c].answer.kind = "forward"
      /\ leader'.node = call[c].answer.node /\ UNCHANGED cluster
  BY DEF Redirect, UpdateLeader, Take
<1>2. call[c] \in Call
  BY DEF FInv, IInv, TypeOK
<1>3. CASE call[c].tries = 1
  <2> DEFINE x == [call[c] EXCEPT !.pc = "done", !.result = "unknown_leader",
                                  !.answer = NoAnswer]
  <2>1. call' = [call EXCEPT ![c] = x]
    BY <1>3 DEF Redirect, Finish, FInv, IInv, TypeOK
  <2>2. x \in Call /\ x.pc = "done" /\ x.calm = call[c].calm
    BY <1>2 DEF Call, NoAnswer, Answer
  <2> HIDE DEF x
  <2> QED
    BY <1>1, <1>3, <2>1, <2>2 DEF StepOf
<1>4. CASE call[c].tries # 1
  <2> DEFINE t == call[c].tries - 1
             x == [call[c] EXCEPT !.pc = "cell", !.tries = t, !.answer = NoAnswer]
  <2>1. call' = [call EXCEPT ![c] = x]
    BY <1>4 DEF Redirect, Again, FInv, IInv, TypeOK
  <2>2. t \in 1..Tries
    BY <1>2, <1>4 DEF Call, Tries
  <2> HIDE DEF t
  <2>3. x \in Call /\ x.pc = "cell" /\ x.calm = call[c].calm /\ x.tries = t
        /\ x.result = call[c].result
    BY <1>2, <2>2 DEF Call, NoAnswer, Answer
  <2> HIDE DEF x
  <2> QED
    BY <1>1, <1>4, <2>1, <2>3 DEF StepOf, t
<1> QED
  BY <1>3, <1>4

\* What a step of call e to x leaves of the tries of both calls.
LEMMA StepKeepsTries ==
    ASSUME FInv, NEW a, NEW b, Calls \subseteq {a, b},
           NEW e \in Calls, NEW x, StepOf(e, x), x.pc # "new",
           x.calm => Settled /\ Enough(x, CellDetour', OtherDetour(e)),
           Stale(x) /\ Settled => Stale(call[e]) /\ CellDetour' = CellDetour,
           ~Stale(x) /\ Settled => CellDetour' <= CellDetour \/ Stale(call[e])
    PROVE  TriesLeft'
<1>1. /\ \A c \in Calls : call'[c] = IF c = e THEN x ELSE call[c]
      /\ UNCHANGED <<raftLeader, knows, stopped, addrOf, had>>
  BY DEF StepOf, cluster, FInv, IInv, TypeOK
<1>2. Settled' = Settled /\ CellDetour' \in {0, 1} /\ CellDetour \in {0, 1}
  BY <1>1 DEF Settled, CellDetour
<1>3. ASSUME NEW c \in Calls
      PROVE  /\ call'[c].pc = "new" => call'[c].tries = Tries
             /\ call'[c].calm => Settled' /\ Enough(call[c], CellDetour, OtherDetour(c))'
  <2>1. CASE c = e
    <3>1. OtherDetour(c)' = OtherDetour(e)
      BY <1>1, <2>1 DEF OtherDetour, Stale
    <3>2. call'[c] = x
      BY <1>1, <2>1
    <3> QED
      BY <1>1, <1>2, <3>1, <3>2 DEF Enough, Astray, Stale
  <2>2. CASE c # e
    <3>1. call'[c] = call[c]
      BY <1>1, <2>2
    <3>2. Calls \ {c} = {e}
      BY <2>2
    <3>3. /\ OtherDetour(c) = IF Stale(call[e]) THEN 1 ELSE 0
          /\ OtherDetour(c)' = IF Stale(x) THEN 1 ELSE 0
      <4>1. call'[e] = x
        BY <1>1
      <4> QED
        BY <1>1, <3>2, <4>1 DEF OtherDetour, Stale
    <3>4. ASSUME call[c].calm
          PROVE  Enough(call[c], CellDetour, OtherDetour(c))'
      <4>1. Settled /\ Enough(call[c], CellDetour, OtherDetour(c)) /\ call[c].tries \in Int
        BY <3>4 DEF FInv, TriesLeft, IInv, TypeOK, Call, Tries
      <4>2. /\ CellDetour' + OtherDetour(c)' <= CellDetour + OtherDetour(c)
            /\ OtherDetour(c)' <= OtherDetour(c)
            /\ OtherDetour(c) \in {0, 1} /\ OtherDetour(c)' \in {0, 1}
        BY <1>2, <3>3, <4>1
      <4> DEFINE k == OtherDetour(c)
                 l == OtherDetour(c)'
                 m == CellDetour
                 n == CellDetour'
      <4>3. /\ Enough(call[c], m, k) /\ n + l <= m + k /\ l <= k
            /\ k \in Int /\ l \in Int /\ m \in Int /\ n \in Int
        BY <1>2, <4>1, <4>2
      <4> HIDE DEF k, l, m, n
      <4>4. Enough(call[c], n, l)
        BY <4>1, <4>3 DEF Enough
      <4>5. /\ Astray(call[c])' <=> Astray(call[c])
            /\ Stale(call[c])' <=> Stale(call[c])
        BY <1>1, <3>1 DEF Astray, Stale
      <4>6. /\ call'[c].pc = "cell" => call'[c].tries >= 1 + n + l
            /\ Astray(call[c])' => call'[c].tries >= 2 + l
            /\ ~Stale(call[c])'
            /\ call'[c].result # "unknown_leader"
        BY <3>1, <4>4, <4>5 DEF Enough
      <4> QED
        BY <4>6 DEF Enough, l, n
    <3> QED
      BY <1>2, <3>1, <3>4 DEF FInv, TriesLeft
  <2> QED
    BY <2>1, <2>2
<1> QED
  BY <1>3 DEF TriesLeft

LEMMA CallKeepsTries ==
    ASSUME FInv, NEW a, NEW b, Calls \subseteq {a, b}, NEW c \in Calls,
           Start(c) \/ ClientStep(c) \/ RemoteStep(c)
    PROVE  TriesLeft'
<1>1. /\ OtherDetour(c) \in {0, 1} /\ CellDetour \in {0, 1}
      /\ call[c].tries \in 1..3
      /\ call[c].calm => Settled /\ Enough(call[c], CellDetour, OtherDetour(c))
      /\ call[c].result = "unknown_leader" => call[c].pc = "done"
  BY DEF OtherDetour, CellDetour, FInv, TriesLeft, IInv, TypeOK, Call, Tries, CallsSound, Once
<1>2. ASSUME UNCHANGED <<leader, raftLeader>>
      PROVE  CellDetour' = CellDetour
  BY <1>2 DEF CellDetour
<1>3. CASE Start(c)
  <2>1. PICK x : /\ StepOf(c, x) /\ UNCHANGED leader
                 /\ x.pc = "cell" /\ x.tries = Tries /\ x.calm = Settled
                 /\ x.result # "unknown_leader"
    BY <1>3, StartStep
  <2>2. CellDetour' = CellDetour
    BY <1>2, <2>1 DEF StepOf, cluster
  <2>3. Enough(x, CellDetour', OtherDetour(c)) /\ ~Stale(x)
    BY <1>1, <2>1, <2>2 DEF Enough, Astray, Stale, Tries
  <2> QED
    BY <1>1, <2>1, <2>2, <2>3, StepKeepsTries
<1>4. CASE ReadCell(c) \/ LookUp(c) \/ Connect(c)
  <2>1. PICK x : /\ StepOf(c, x) /\ UNCHANGED leader
                 /\ x.pc \in {"lookup", "connect", "sent"}
                 /\ x.tries = call[c].tries /\ x.result = call[c].result
                 /\ Settled /\ Astray(x) =>
                      \/ call[c].pc = "cell" /\ leader.node # raftLeader
                      \/ Astray(call[c])
    BY <1>4, SeekStep
  <2>2. CellDetour' = CellDetour /\ call[c].pc # "new"
    BY <1>2, <1>4, <2>1 DEF StepOf, cluster, ReadCell, LookUp, Connect
  <2>3. ~Stale(x) /\ x.pc # "new" /\ x.pc # "cell" /\ x.calm = call[c].calm
    BY <2>1, <2>2 DEF Stale, StepOf
  <2>4. call[c].calm => Enough(x, CellDetour', OtherDetour(c))
    <3> SUFFICES ASSUME call[c].calm
                 PROVE  Enough(x, CellDetour', OtherDetour(c))
      OBVIOUS
    <3> DEFINE k == OtherDetour(c)
               m == CellDetour
    <3>1. Settled /\ Enough(call[c], m, k) /\ k \in Int /\ m \in Int
      BY <1>1
    <3>2. leader.node # raftLeader => m = 1
      BY DEF CellDetour
    <3> HIDE DEF k, m
    <3>3. ASSUME Astray(x)
          PROVE  x.tries >= 2 + k
      <4>1. CASE call[c].pc = "cell" /\ leader.node # raftLeader
        BY <1>1, <2>1, <3>1, <3>2, <4>1 DEF Enough
      <4>2. CASE Astray(call[c])
        BY <2>1, <3>1, <4>2 DEF Enough
      <4> QED
        BY <2>1, <3>1, <3>3, <4>1, <4>2
    <3>4. x.result # "unknown_leader"
      BY <2>1, <3>1 DEF Enough
    <3> QED
      BY <2>3, <3>3, <3>4 DEF Enough, k
  <2>5. StepOf(c, x) /\ x.pc # "new"
    BY <2>1, <2>3
  <2>6. x.calm => Settled /\ Enough(x, CellDetour', OtherDetour(c))
    BY <1>1, <2>3, <2>4
  <2>7. /\ Stale(x) /\ Settled => Stale(call[c]) /\ CellDetour' = CellDetour
        /\ ~Stale(x) /\ Settled => CellDetour' <= CellDetour \/ Stale(call[c])
    BY <1>1, <2>2, <2>3
  <2> QED
    BY <2>5, <2>6, <2>7, StepKeepsTries
<1>5. CASE RemoteStep(c)
  <2>1. PICK x : /\ StepOf(c, x) /\ UNCHANGED leader
                 /\ x.pc \in {"writing", "committed", "answered"}
                 /\ x.tries = call[c].tries /\ x.result = call[c].result
                 /\ Settled /\ x.pc = "answered" /\ x.answer.kind = "forward" =>
                      x.answer.node = raftLeader /\ Astray(call[c])
    BY <1>5, RemoteStepOf
  <2>2. CellDetour' = CellDetour /\ call[c].pc # "new"
    BY <1>2, <1>5, <2>1 DEF StepOf, cluster, RemoteStep, Refuse, Propose, Commit,
                            Written, Dropped, Lose
  <2>3. /\ x.pc \notin {"new", "cell", "lookup", "connect", "sent"}
        /\ x.calm = call[c].calm
        /\ Settled => ~Stale(x)
    BY <2>1, <2>2 DEF Stale, StepOf
  <2>4. call[c].calm => Enough(x, CellDetour', OtherDetour(c))
    <3> SUFFICES ASSUME call[c].calm
                 PROVE  Enough(x, CellDetour', OtherDetour(c))
      OBVIOUS
    <3>1. Settled /\ Enough(call[c], CellDetour, OtherDetour(c))
      BY <1>1
    <3>2. ASSUME Astray(x)
          PROVE  x.tries >= 2 + OtherDetour(c)
      <4>1. Astray(call[c])
        BY <2>1, <2>3, <3>1, <3>2 DEF Astray
      <4> QED
        BY <2>1, <3>1, <4>1 DEF Enough
    <3>3. x.result # "unknown_leader"
      BY <2>1, <3>1 DEF Enough
    <3> QED
      BY <2>3, <3>1, <3>2, <3>3 DEF Enough
  <2>5. StepOf(c, x) /\ x.pc # "new"
    BY <2>1, <2>3
  <2>6. x.calm => Settled /\ Enough(x, CellDetour', OtherDetour(c))
    BY <1>1, <2>3, <2>4
  <2>7. /\ Stale(x) /\ Settled => Stale(call[c]) /\ CellDetour' = CellDetour
        /\ ~Stale(x) /\ Settled => CellDetour' <= CellDetour \/ Stale(call[c])
    BY <1>1, <2>2, <2>3
  <2> QED
    BY <2>5, <2>6, <2>7, StepKeepsTries
<1>6. CASE ConnectInvalid(c) \/ TakeOk(c) \/ TakeLost(c) \/ TakeNoLeader(c)
  <2>1. PICK x : /\ StepOf(c, x) /\ UNCHANGED leader
                 /\ x.pc = "done" /\ x.result # "unknown_leader"
    BY <1>6, EndStep
  <2>2. CellDetour' = CellDetour /\ call[c].pc # "new"
    BY <1>2, <1>6, <2>1 DEF StepOf, cluster, ConnectInvalid, TakeOk, TakeLost,
                            TakeNoLeader, Take
  <2>3. ~Stale(x) /\ Enough(x, CellDetour', OtherDetour(c)) /\ x.calm = call[c].calm
    BY <2>1, <2>2 DEF Stale, Enough, Astray, StepOf
  <2> QED
    BY <1>1, <2>1, <2>2, <2>3, StepKeepsTries
<1>7. CASE Redirect(c)
  <2>1. /\ call[c].pc = "answered" /\ call[c].answer.kind = "forward"
        /\ leader'.node = call[c].answer.node
    BY <1>7, RedirectStep
  <2>2. PICK x : /\ StepOf(c, x) /\ x.pc \in {"cell", "done"}
                 /\ call[c].tries # 1 => /\ x.tries = call[c].tries - 1
                                         /\ x.result = call[c].result
    BY <1>7, RedirectStep
  <2>3. ~Stale(x) /\ x.pc # "new" /\ x.calm = call[c].calm
    BY <2>1, <2>2 DEF Stale, StepOf
  <2>4. raftLeader' = raftLeader
    BY <2>2 DEF StepOf, cluster
  <2>5. ~Stale(call[c]) => CellDetour' = 0
    BY <2>1, <2>4 DEF Stale, CellDetour
  <2>6. call[c].calm => Enough(x, CellDetour', OtherDetour(c))
    <3> SUFFICES ASSUME call[c].calm
                 PROVE  Enough(x, CellDetour', OtherDetour(c))
      OBVIOUS
    <3>1. /\ Settled /\ ~Stale(call[c]) /\ Astray(call[c])
          /\ call[c].tries >= 2 + OtherDetour(c)
          /\ call[c].result # "unknown_leader"
      BY <1>1, <2>1 DEF Enough, Astray
    <3>2. /\ x.tries = call[c].tries - 1 /\ x.result = call[c].result
          /\ CellDetour' = 0
      BY <1>1, <2>2, <2>5, <3>1
    <3>3. x.tries >= 1 + CellDetour' + OtherDetour(c)
      BY <1>1, <3>1, <3>2
    <3> QED
      BY <2>2, <2>3, <3>1, <3>2, <3>3 DEF Enough, Astray
  <2>7. CellDetour' <= CellDetour \/ Stale(call[c])
    BY <1>1, <2>5
  <2> QED
    BY <1>1, <2>2, <2>3, <2>6, <2>7, StepKeepsTries
<1> QED
  BY <1>3, <1>4, <1>5, <1>6, <1>7 DEF ClientStep

LEMMA ClusterKeepsTries ==
    ASSUME FInv, NEW n \in Nodes,
           \/ Elect(n) \/ Learn(n) \/ Forget(n) \/ Stop(n)
           \/ \E a \in Addrs : Move(n, a)
    PROVE  TriesLeft' /\ AddrsDistinct'
<1>1. CASE Learn(n)
  <2>1. \A c \in Calls : ~call[c].calm
    BY <1>1 DEF Learn, FInv, TriesLeft, Settled
  <2>2. call' = call /\ addrOf' = addrOf
    BY <1>1 DEF Learn
  <2>3. TriesLeft'
    BY <2>1, <2>2 DEF TriesLeft, FInv
  <2> QED
    BY <2>2, <2>3 DEF AddrsDistinct, FInv
<1>2. CASE ~Learn(n)
  <2>1. Change
    BY <1>2 DEF Elect, Forget, Stop, Move
  <2>2. \A c \in Calls : /\ ~call'[c].calm
                         /\ call'[c].pc = call[c].pc /\ call'[c].tries = call[c].tries
    <3> TAKE c \in Calls
    <3>1. call[c] \in Call /\ call'[c] = [call[c] EXCEPT !.calm = FALSE]
      BY <2>1 DEF Change, FInv, IInv, TypeOK
    <3> QED
      BY <3>1 DEF Call
  <2>3. TriesLeft'
    BY <2>2 DEF TriesLeft, FInv
  <2>4. AddrsDistinct'
    BY <1>2 DEF Elect, Forget, Stop, Move, FInv, IInv, TypeOK, AddrsDistinct
  <2> QED
    BY <2>3, <2>4
<1> QED
  BY <1>1, <1>2

\* Three tries find the leader of a cluster that does not change, whatever one
\* other call does: for any number of nodes, and however often leaders, nodes
\* and addresses have changed before.
THEOREM FoundInTime ==
    ASSUME NEW a, NEW b, Calls \subseteq {a, b}
    PROVE  Spec => []FoundWhenSettled
<1>1. Init => FInv
  <2> SUFFICES ASSUME Init PROVE FInv
    OBVIOUS
  <2>1. AddrsDistinct
    BY ClientAssumption DEF Init, AddrsDistinct
  <2>2. TriesLeft
    BY DEF Init, TriesLeft
  <2> QED
    BY <2>1, <2>2, InitIInv DEF FInv
<1>2. FInv /\ [Next]_vars => FInv'
  <2> SUFFICES ASSUME FInv, [Next]_vars PROVE FInv'
    OBVIOUS
  <2>1. IInv'
    BY NextKeepsIInv DEF FInv
  <2>2. ASSUME NEW c \in Calls, Start(c) \/ ClientStep(c) \/ RemoteStep(c)
        PROVE  TriesLeft' /\ AddrsDistinct'
    <3>1. addrOf' = addrOf
      BY <2>2 DEF Start, ClientStep, ReadCell, LookUp, Connect, ConnectInvalid,
                  TakeOk, TakeLost, TakeNoLeader, Redirect, UpdateLeader, Take, RemoteStep, Refuse,
                  Propose, Commit, Written, Dropped, Lose, cluster
    <3>2. TriesLeft'
      BY <2>2, CallKeepsTries
    <3> QED
      BY <3>1, <3>2 DEF AddrsDistinct, FInv
  <2>3. CASE UNCHANGED vars
    <3>1. UNCHANGED <<call, leader, raftLeader, knows, stopped, addrOf, had>>
      BY <2>3 DEF vars
    <3>2. AddrsDistinct'
      BY <3>1 DEF FInv, AddrsDistinct
    <3>3. TriesLeft'
      BY <3>1 DEF FInv, TriesLeft, Settled, Enough, Astray, Stale, CellDetour, OtherDetour
    <3> QED
      BY <2>1, <3>2, <3>3 DEF FInv
  <2> QED
    BY <2>1, <2>2, <2>3, ClusterKeepsTries DEF Next, FInv
<1>3. FInv => FoundWhenSettled
  BY DEF FInv, TriesLeft, Enough, FoundWhenSettled
<1> QED
  BY <1>1, <1>2, <1>3, PTL DEF Spec
=============================================================================
