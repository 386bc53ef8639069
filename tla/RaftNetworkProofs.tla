-------------------------- MODULE RaftNetworkProofs --------------------------
(***************************************************************************)
(* Theorems about RaftNetwork for every number of nodes, every bound and   *)
(* every size of a snapshot.                                               *)
(***************************************************************************)
EXTENDS RaftNetwork, FiniteSetTheorems, WellFoundedInduction, TLAPS

CoreType ==
    [role : {"follower", "candidate", "leader", "stopped"},
     vote : Vote, log : Log, granted : SUBSET Nodes, stored : SUBSET Nodes,
     sending : [Nodes -> 0..Chunks - 1],
     receiving : [of : Vote, chunks : SUBSET (0..Chunks - 1)]]

CallType ==
    [kind : {"vote", "append", "chunk"}, from : Nodes, to : Nodes,
     addr : Addrs, vote : Vote, log : Log, chunk : 0..Chunks - 1, told : Vote,
     answer : {"none", "granted", "success", "refused", "mismatch", "fatal"}]

Active == {"candidate", "leader"}

\* Every log that is kept or on its way.
Logs ==
    {core[n].log : n \in Nodes} \cup {call.log : call \in calls}
      \cup {c.log : c \in chosen}

-----------------------------------------------------------------------------
(* Where the nodes are *)

\* An address leads to one node, and a node that sends has an address for all.
PlacesSound ==
    /\ \A n \in Nodes : addrOf[n] \in had[n]
    /\ \A m, n \in Nodes : m # n => had[m] \cap had[n] = {}
    /\ \A m, n \in Nodes :
         /\ clients[m][n] \in had[n] \cup {NoAddr}
         /\ core[m].role \in Active /\ m # n => clients[m][n] # NoAddr
    /\ \A call \in calls : call.addr \in had[call.to]

-----------------------------------------------------------------------------
(* Votes and logs *)

\* A vote that somebody has stood for election under.
Issued(v) ==
    \/ v = NoVote
    \/ v[2] \in Nodes /\ v[1] \in 1..spent.elections /\ AtLeast(core[v[2]].vote, v)

Spent == [elections : 0..MaxElections, restarts : Nat, stops : Nat]

VotesSound ==
    /\ spent \in Spent
    /\ \A n \in Nodes : Issued(core[n].vote)
    /\ \A call \in calls :
         /\ Issued(call.vote) /\ Issued(call.told)
         /\ call.vote[2] = call.from /\ call.from # call.to

\* An entry belongs to a leader that has been elected, and the terms rise.
LogSound(log) ==
    \A i \in DOMAIN log :
        /\ Issued(log[i]) /\ log[i][1] >= i
        /\ core[log[i][2]].vote = log[i] => core[log[i][2]].role # "candidate"
        /\ \A j \in DOMAIN log : i < j => log[i][1] < log[j][1]

\* Logs that share an entry agree up to it.
Agree(log, other) ==
    \A i \in DOMAIN log, j \in DOMAIN other :
        log[i] = other[j] => i = j /\ \A h \in 1..i : log[h] = other[h]

LogsSound == \A log \in Logs : LogSound(log)
LogsAgree == \A log, other \in Logs : Agree(log, other)

CoreSound(n) ==
    /\ saved[n] = [vote |-> core[n].vote, log |-> core[n].log]
    /\ AtLeast(core[n].vote, LastLogId(core[n].log))
    /\ core[n].role \in Active => core[n].vote[2] = n
    /\ core[n].role \notin Active => core[n].granted = {}
    /\ core[n].role = "candidate" => LastLogId(core[n].log)[1] < core[n].vote[1]
    /\ IF core[n].role = "leader"
       THEN n \in core[n].stored /\ LastLogId(core[n].log) = core[n].vote
       ELSE core[n].stored = {}
    /\ \A k \in core[n].granted : AtLeast(core[k].vote, core[n].vote)

CallSound(call) ==
    /\ IF call.kind = "vote"
       THEN core[call.from].vote = call.vote /\ core[call.from].role = "candidate"
              => call.log = core[call.from].log
       ELSE LastLogId(call.log) = call.vote
    /\ call.answer = "granted" =>
         call.kind = "vote" /\ AtLeast(core[call.to].vote, call.vote)
    /\ call.answer = "success" => call.kind # "vote"
    /\ call \in Awaited({call}, core)

CoresSound == \A n \in Nodes : CoreSound(n)
CallsSound == \A call \in calls : CallSound(call)

-----------------------------------------------------------------------------
(* Snapshots *)

SameTransfer(call, other) ==
    /\ call.kind # "vote" /\ other.kind # "vote"
    /\ call.vote = other.vote /\ call.to = other.to

\* A receiver that can go on with a transfer has what the leader has sent.
ChunksSound ==
    /\ \A call, other \in calls : SameTransfer(call, other) => call = other
    /\ \A call \in calls :
         call.kind = "chunk" =>
           /\ core[call.from].role = "leader" /\ core[call.from].vote = call.vote
                => core[call.from].sending[call.to] = call.chunk
           /\ core[call.to].receiving.of = call.vote =>
                /\ 0..call.chunk - 1 \subseteq core[call.to].receiving.chunks
                /\ call.answer = "success" => call.chunk \in core[call.to].receiving.chunks
    /\ \A m, n \in Nodes :
         /\ core[m].role = "candidate" => core[m].sending[n] = 0
         /\ core[m].role = "leader" /\ core[n].receiving.of = core[m].vote =>
              0..core[m].sending[n] - 1 \subseteq core[n].receiving.chunks

-----------------------------------------------------------------------------
(* Quorums *)

\* n has granted vote v to a candidate whose log ends in w.
Granted(n, v, w) ==
    \/ \E m \in Nodes :
         /\ core[m].role = "candidate" /\ n \in core[m].granted
         /\ core[m].vote = v /\ LastLogId(core[m].log) = w
    \/ \E call \in calls :
         /\ call.answer = "granted" /\ call.to = n
         /\ call.vote = v /\ LastLogId(call.log) = w

Whole(call) ==
    call.kind = "append" \/ (call.kind = "chunk" /\ call.chunk = Chunks - 1)

\* n has stored the log of the leader under vote u, who counts it or may.
StoredAt(u, n) ==
    \/ \E m \in Nodes : core[m].vote = u /\ n \in core[m].stored
    \/ \E call \in calls :
         /\ call.answer = "success" /\ Whole(call)
         /\ call.vote = u /\ call.to = n

\* What n has stored under vote u it gives up for a later entry only, and every
\* grant it gives under a later vote is to a candidate that has one too.
Kept(u, n) ==
    /\ AtLeast(core[n].vote, u) /\ AtLeast(LastLogId(core[n].log), u)
    /\ \A v, w \in Vote : Granted(n, v, w) /\ Below(u, v) => AtLeast(w, u)

StoredKept == \A u \in Vote, n \in Nodes : StoredAt(u, n) => Kept(u, n)

\* A quorum has granted the vote of an entry, and for what one of them has
\* stored before, the elected node's log had the entry or a later one.
ElectedAt(log, i, nodes) ==
    \A n \in nodes :
        /\ AtLeast(core[n].vote, log[i])
        /\ \A u \in Vote : Below(u, log[i]) /\ StoredAt(u, n)
                             => i > 1 /\ AtLeast(log[i - 1], u)

LogsElected ==
    \A log \in Logs : \A i \in DOMAIN log :
        \E nodes \in SUBSET Nodes : Quorum(nodes) /\ ElectedAt(log, i, nodes)

\* A quorum keeps what is committed, and every log that goes as far has it.
Committable(c) ==
    /\ c.log # <<>> /\ LastLogId(c.log) = c.vote
    /\ \A log \in Logs : AtLeast(LastLogId(log), c.vote) => IsPrefix(c.log, log)
    /\ \E nodes \in SUBSET Nodes : Quorum(nodes) /\ \A n \in nodes : Kept(c.vote, n)

ChosenSound == \A c \in chosen : Committable(c)

IInv ==
    /\ TypeOK
    /\ PlacesSound
    /\ VotesSound
    /\ LogsSound
    /\ LogsAgree
    /\ CoresSound
    /\ CallsSound
    /\ ChunksSound
    /\ StoredKept
    /\ LogsElected
    /\ ChosenSound

-----------------------------------------------------------------------------
(* The order of votes *)

LEMMA VoteOrder ==
    /\ NoVote \in Vote
    /\ \A u \in Vote : AtLeast(u, u) /\ AtLeast(u, NoVote)
    /\ \A u, v \in Vote :
         /\ AtLeast(u, v) \/ AtLeast(v, u)
         /\ AtLeast(u, v) /\ AtLeast(v, u) => u = v
         /\ Below(u, v) <=> AtLeast(v, u) /\ u # v
         /\ AtLeast(u, v) => u[1] >= v[1]
         /\ u[1] > v[1] => Below(v, u)
    /\ \A u, v, w \in Vote : AtLeast(u, v) /\ AtLeast(v, w) => AtLeast(u, w)
<1>1. MaxElections \in Nat /\ N \in Nat
  BY NetworkAssumption
<1>2. NoVote \in Vote
  BY <1>1 DEF NoVote, Vote
<1>3. \A u \in Vote : u[1] \in 0..MaxElections /\ u[2] \in 0..N /\ u = <<u[1], u[2]>>
  BY DEF Vote
<1>4. \A u \in Vote : AtLeast(u, u) /\ AtLeast(u, NoVote)
  BY <1>1, <1>3 DEF AtLeast, Below, NoVote
<1>5. \A u, v \in Vote : AtLeast(u, v) \/ AtLeast(v, u)
  BY <1>1, <1>3 DEF AtLeast, Below
<1>6. \A u, v \in Vote : AtLeast(u, v) /\ AtLeast(v, u) => u = v
  <2> TAKE u, v \in Vote
  <2>1. AtLeast(u, v) /\ AtLeast(v, u) => u[1] = v[1] /\ u[2] = v[2]
    BY <1>1, <1>3 DEF AtLeast, Below
  <2> QED
    BY <1>3, <2>1
<1>7. \A u, v \in Vote : Below(u, v) <=> AtLeast(v, u) /\ u # v
  <2> TAKE u, v \in Vote
  <2>1. Below(u, v) => AtLeast(v, u) /\ u # v
    BY <1>1, <1>3 DEF AtLeast, Below
  <2>2. ~Below(u, v) /\ AtLeast(v, u) => u = v
    BY <1>6 DEF AtLeast
  <2> QED
    BY <2>1, <2>2
<1>8. \A u, v \in Vote : /\ AtLeast(u, v) => u[1] >= v[1]
                         /\ u[1] > v[1] => Below(v, u)
  BY <1>1, <1>3 DEF AtLeast, Below
<1>9. \A u, v, w \in Vote : AtLeast(u, v) /\ AtLeast(v, w) => AtLeast(u, w)
  BY <1>1, <1>3 DEF AtLeast, Below
<1> QED
  BY <1>2, <1>4, <1>5, <1>6, <1>7, <1>8, <1>9

-----------------------------------------------------------------------------
(* Logs *)

LEMMA LogType ==
    /\ \A log : log \in Log <=> log \in Seq(Vote) /\ Len(log) <= MaxElections
    /\ <<>> \in Log /\ LastLogId(<<>>) = NoVote
    /\ \A log \in Log :
         /\ LastLogId(log) \in Vote
         /\ log # <<>> => /\ Len(log) \in DOMAIN log
                          /\ LastLogId(log) = log[Len(log)]
<1>1. MaxElections \in Nat
  BY NetworkAssumption
<1>2. \A log : log \in Log <=> log \in Seq(Vote) /\ Len(log) <= MaxElections
  <2> TAKE log
  <2>1. ASSUME log \in Log
        PROVE  log \in Seq(Vote) /\ Len(log) <= MaxElections
    <3>1. PICK m \in 0..MaxElections : log \in [1..m -> Vote]
      BY <2>1 DEF Log, BoundedSeq, SeqOf
    <3> QED
      BY <1>1, <3>1
  <2>2. ASSUME log \in Seq(Vote), Len(log) <= MaxElections
        PROVE  log \in Log
    <3>1. Len(log) \in 0..MaxElections /\ log \in [1..Len(log) -> Vote]
      BY <1>1, <2>2
    <3> QED
      BY <3>1 DEF Log, BoundedSeq, SeqOf
  <2> QED
    BY <2>1, <2>2
<1>3. <<>> \in Log /\ LastLogId(<<>>) = NoVote
  <2>1. <<>> \in Seq(Vote)
    OBVIOUS
  <2>2. Len(<<>>) <= MaxElections
    BY <1>1
  <2>3. <<>> \in Log
    BY <1>2, <2>1, <2>2
  <2> QED
    BY <2>3 DEF LastLogId
<1>4. \A log \in Log : log # <<>> => /\ Len(log) \in DOMAIN log
                                     /\ LastLogId(log) = log[Len(log)]
  BY <1>2 DEF LastLogId, Last
<1>5. \A log \in Log : LastLogId(log) \in Vote
  <2> TAKE log \in Log
  <2>1. CASE log = <<>>
    BY <1>3, <2>1, VoteOrder
  <2>2. CASE log # <<>>
    BY <1>2, <1>4, <2>2
  <2> QED
    BY <2>1, <2>2
<1> QED
  BY <1>2, <1>3, <1>4, <1>5

LEMMA AppendedLog ==
    ASSUME NEW log \in Log, NEW v \in Vote
    PROVE  /\ Append(log, v) \in Seq(Vote) /\ Append(log, v) # <<>>
           /\ DOMAIN log = 1..Len(log)
           /\ DOMAIN Append(log, v) = 1..Len(log) + 1
           /\ Len(Append(log, v)) = Len(log) + 1
           /\ Append(log, v)[Len(log) + 1] = v
           /\ \A i \in 1..Len(log) : Append(log, v)[i] = log[i]
           /\ LastLogId(Append(log, v)) = v
<1>1. log \in Seq(Vote)
  BY LogType
<1> QED
  BY <1>1 DEF LastLogId, Last

LEMMA PrefixPointwise ==
    ASSUME NEW log \in Seq(Vote), NEW other \in Seq(Vote)
    PROVE  IsPrefix(log, other) <=>
             Len(log) <= Len(other) /\ \A i \in 1..Len(log) : log[i] = other[i]
<1>1. ASSUME Len(log) <= Len(other)
      PROVE  /\ SubSeq(log, 1, Len(log)) = [i \in 1..Len(log) |-> log[i]]
             /\ SubSeq(other, 1, Len(log)) = [i \in 1..Len(log) |-> other[i]]
  BY <1>1
<1>2. ASSUME Len(log) <= Len(other), \A i \in 1..Len(log) : log[i] = other[i]
      PROVE  SubSeq(log, 1, Len(log)) = SubSeq(other, 1, Len(log))
  BY <1>1, <1>2
<1>3. ASSUME Len(log) <= Len(other), NEW i \in 1..Len(log),
             SubSeq(log, 1, Len(log)) = SubSeq(other, 1, Len(log))
      PROVE  log[i] = other[i]
  BY <1>1, <1>3
<1> QED
  BY <1>2, <1>3 DEF IsPrefix

\* Two logs that end in the same entry are the same, and one that has the last
\* entry of another one goes on from there.
LEMMA AgreeFacts ==
    ASSUME NEW log \in Log, NEW other \in Log, Agree(log, other), log # <<>>
    PROVE  /\ \A j \in DOMAIN other :
                other[j] = LastLogId(log) => IsPrefix(log, other)
           /\ LastLogId(log) = LastLogId(other) /\ other # <<>> => log = other
<1>1. log \in Seq(Vote) /\ other \in Seq(Vote)
  BY LogType
<1>2. Len(log) \in DOMAIN log /\ LastLogId(log) = log[Len(log)]
  BY LogType
<1>3. ASSUME NEW j \in DOMAIN other, other[j] = LastLogId(log)
      PROVE  j = Len(log) /\ \A h \in 1..j : log[h] = other[h]
  BY <1>2, <1>3 DEF Agree
<1>4. \A j \in DOMAIN other : other[j] = LastLogId(log) => IsPrefix(log, other)
  <2> TAKE j \in DOMAIN other
  <2> HAVE other[j] = LastLogId(log)
  <2>1. Len(log) <= Len(other) /\ \A h \in 1..Len(log) : log[h] = other[h]
    BY <1>1, <1>3
  <2> QED
    BY <1>1, <2>1, PrefixPointwise
<1>5. ASSUME LastLogId(log) = LastLogId(other), other # <<>>
      PROVE  log = other
  <2>1. Len(other) \in DOMAIN other /\ other[Len(other)] = LastLogId(log)
    BY <1>5, LogType
  <2>2. Len(log) = Len(other) /\ \A h \in 1..Len(log) : log[h] = other[h]
    BY <1>3, <2>1
  <2> QED
    BY <1>1, <2>2
<1> QED
  BY <1>4, <1>5

LEMMA QuorumsMeet ==
    ASSUME NEW P \in SUBSET Nodes, NEW Q \in SUBSET Nodes, Quorum(P), Quorum(Q)
    PROVE  \E n \in P : n \in Q
<1>1. N \in Nat
  BY NetworkAssumption
<1>2. IsFiniteSet(Nodes) /\ Cardinality(Nodes) = N
  BY <1>1, FS_Interval DEF Nodes
<1>3. /\ IsFiniteSet(P) /\ IsFiniteSet(Q)
      /\ Cardinality(P) \in Nat /\ Cardinality(Q) \in Nat
  BY <1>2, FS_Subset, FS_CardinalityType
<1>4. Cardinality(P) + Cardinality(Q) > Cardinality(Nodes)
  BY <1>1, <1>2, <1>3 DEF Quorum
<1>5. P \cap Q # {}
  BY <1>2, <1>4, FS_MajoritiesIntersect
<1> QED
  BY <1>5

-----------------------------------------------------------------------------
(* Types *)

LEMMA Typed ==
    TypeOK <=> /\ saved \in [Nodes -> [vote : Vote, log : Log]]
               /\ core \in [Nodes -> CoreType]
               /\ clients \in [Nodes -> [Nodes -> Addrs \cup {NoAddr}]]
               /\ addrOf \in [Nodes -> Addrs]
               /\ had \in [Nodes -> SUBSET Addrs]
               /\ calls \subseteq CallType
               /\ chosen \subseteq [vote : Vote, log : Log]
BY DEF TypeOK, CoreType, CallType

LEMMA TypeFacts ==
    ASSUME TypeOK
    PROVE  /\ \A n \in Nodes :
                /\ core[n] \in CoreType /\ core[n].vote \in Vote /\ core[n].log \in Log
                /\ core[n].granted \subseteq Nodes /\ core[n].stored \subseteq Nodes
                /\ LastLogId(core[n].log) \in Vote
           /\ \A call \in calls :
                /\ call \in CallType /\ call.from \in Nodes /\ call.to \in Nodes
                /\ call.vote \in Vote /\ call.told \in Vote /\ call.log \in Log
                /\ LastLogId(call.log) \in Vote
           /\ \A c \in chosen : c.vote \in Vote /\ c.log \in Log
           /\ Logs \subseteq Log
<1>1. \A n \in Nodes :
        /\ core[n] \in CoreType /\ core[n].vote \in Vote /\ core[n].log \in Log
        /\ core[n].granted \subseteq Nodes /\ core[n].stored \subseteq Nodes
  BY Typed DEF CoreType
<1>2. \A call \in calls :
        /\ call \in CallType /\ call.from \in Nodes /\ call.to \in Nodes
        /\ call.vote \in Vote /\ call.told \in Vote /\ call.log \in Log
  BY Typed DEF CallType
<1>3. \A c \in chosen : c.vote \in Vote /\ c.log \in Log
  BY Typed
<1>4. Logs \subseteq Log
  BY <1>1, <1>2, <1>3 DEF Logs
<1> QED
  BY <1>1, <1>2, <1>3, <1>4, LogType

-----------------------------------------------------------------------------
(* What every step does *)

\* A node that becomes a candidate does so under a new term.
Stands(n) ==
    core'[n].role = "candidate" =>
      \/ core'[n].vote[1] > core[n].vote[1]
      \/ /\ core[n].role = "candidate"
         /\ core'[n].vote = core[n].vote /\ core'[n].log = core[n].log

Forward ==
    /\ core' \in [Nodes -> CoreType]
    /\ spent'.elections \in Int /\ spent'.elections >= spent.elections
    /\ \A n \in Nodes : AtLeast(core'[n].vote, core[n].vote) /\ Stands(n)

LEMMA ForwardType ==
    ASSUME Forward
    PROVE  \A n \in Nodes : /\ core'[n] \in CoreType
                            /\ core'[n].vote \in Vote /\ core'[n].log \in Log
                            /\ LastLogId(core'[n].log) \in Vote
<1>1. \A n \in Nodes : /\ core'[n] \in CoreType
                       /\ core'[n].vote \in Vote /\ core'[n].log \in Log
  BY DEF Forward, CoreType
<1> QED
  BY <1>1, LogType

LEMMA IssuedForward ==
    ASSUME TypeOK, VotesSound, Forward, NEW v \in Vote, Issued(v)
    PROVE  Issued(v)'
<1>1. CASE v = NoVote
  BY <1>1 DEF Issued, NoVote
<1>2. CASE v # NoVote
  <2>1. v[2] \in Nodes /\ v[1] \in 1..spent.elections /\ AtLeast(core[v[2]].vote, v)
    BY <1>2 DEF Issued
  <2>2. v[1] \in 1..spent'.elections
    BY <2>1 DEF Forward, VotesSound, Spent
  <2>3. AtLeast(core'[v[2]].vote, v)
    BY <2>1, VoteOrder, TypeFacts, ForwardType DEF Forward
  <2> QED
    BY <2>1, <2>2, <2>3 DEF Issued
<1> QED
  BY <1>1, <1>2

LEMMA LogForward ==
    ASSUME TypeOK, VotesSound, Forward, NEW log \in Log, LogSound(log)
    PROVE  LogSound(log)'
<1> SUFFICES ASSUME NEW i \in DOMAIN log
             PROVE  /\ Issued(log[i])' /\ log[i][1] >= i
                    /\ core'[log[i][2]].vote = log[i] => core'[log[i][2]].role # "candidate"
                    /\ \A j \in DOMAIN log : i < j => log[i][1] < log[j][1]
  BY DEF LogSound
<1> DEFINE v == log[i]
<1>1. v \in Vote /\ v[1] \in Int /\ i \in Nat \ {0}
  <2>1. log \in Seq(Vote)
    BY LogType
  <2>2. v \in Vote /\ i \in Nat \ {0}
    BY <2>1
  <2> QED
    BY <2>2 DEF Vote
<1>2. /\ Issued(v) /\ v[1] >= i
      /\ core[v[2]].vote = v => core[v[2]].role # "candidate"
      /\ \A j \in DOMAIN log : i < j => v[1] < log[j][1]
  BY DEF LogSound
<1>3. v[2] \in Nodes /\ AtLeast(core[v[2]].vote, v)
  BY <1>1, <1>2 DEF Issued, NoVote
<1>4. ASSUME core'[v[2]].vote = v, core'[v[2]].role = "candidate"
      PROVE  FALSE
  <2>1. CASE core'[v[2]].vote[1] > core[v[2]].vote[1]
    BY <1>1, <1>3, <1>4, <2>1, VoteOrder, TypeFacts DEF Below, AtLeast
  <2>2. CASE core[v[2]].role = "candidate" /\ core'[v[2]].vote = core[v[2]].vote
    BY <1>2, <1>4, <2>2
  <2> QED
    BY <1>3, <1>4, <2>1, <2>2 DEF Forward, Stands
<1>5. Issued(v)'
  BY <1>1, <1>2, IssuedForward
<1> QED
  BY <1>2, <1>4, <1>5

SameCall(c, call) ==
    /\ c.kind = call.kind /\ c.from = call.from /\ c.to = call.to /\ c.addr = call.addr
    /\ c.vote = call.vote /\ c.log = call.log /\ c.chunk = call.chunk

Truthful(c) ==
    /\ c.answer = "granted" => c.kind = "vote" /\ AtLeast(core'[c.to].vote, c.vote)
    /\ c.answer = "success" => c.kind # "vote"

\* A call stays sound as long as somebody will look at its answer.
LEMMA CallForward ==
    ASSUME TypeOK, VotesSound, CallsSound, Forward, NEW call \in calls,
           NEW c, SameCall(c, call), c \in Awaited({c}, core'),
           c.answer = call.answer \/ Truthful(c)
    PROVE  CallSound(c)'
<1>1. /\ CallSound(call) /\ Issued(call.vote) /\ call.vote[2] = call.from
      /\ call.from \in Nodes /\ call.to \in Nodes /\ call.vote \in Vote
  BY TypeFacts DEF CallsSound, VotesSound
<1>2. /\ c.kind = call.kind /\ c.from = call.from /\ c.to = call.to
      /\ c.vote = call.vote /\ c.log = call.log
  BY DEF SameCall
<1>3. ASSUME c.kind = "vote", core'[c.from].vote = c.vote,
             core'[c.from].role = "candidate"
      PROVE  c.log = core'[c.from].log
  <2>1. CASE core'[call.from].vote[1] > core[call.from].vote[1]
    <3>1. AtLeast(core[call.from].vote, call.vote)
      BY <1>1, VoteOrder, TypeFacts DEF Issued
    <3> QED
      BY <1>1, <1>2, <1>3, <2>1, <3>1, VoteOrder, TypeFacts, NetworkAssumption DEF Vote
  <2>2. CASE /\ core[call.from].role = "candidate"
             /\ core'[call.from].vote = core[call.from].vote
             /\ core'[call.from].log = core[call.from].log
    BY <1>1, <1>2, <1>3, <2>2 DEF CallSound
  <2> QED
    BY <1>1, <1>2, <1>3, <2>1, <2>2 DEF Forward, Stands
<1>4. AtLeast(core[call.to].vote, call.vote) => AtLeast(core'[call.to].vote, call.vote)
  BY <1>1, VoteOrder, TypeFacts, ForwardType DEF Forward
<1>5. (c \in Awaited({c}, core))'
  OBVIOUS
<1>6. Truthful(c)
  BY <1>1, <1>2, <1>4 DEF CallSound, Truthful
<1> QED
  BY <1>1, <1>2, <1>3, <1>5, <1>6 DEF CallSound, Truthful

\* A step that makes no new call may answer one, which then is x.
CallsTame(x) ==
    /\ \A c \in calls' : c \in Awaited({c}, core') /\ (c \in calls \/ c = x)
    /\ x \in calls' =>
         \E call \in calls :
           /\ x \in CallType /\ SameCall(x, call) /\ Issued(x.told)
           /\ x.answer = call.answer \/ Truthful(x)
           /\ call \in calls' => call = x

LEMMA CallsTameFacts ==
    ASSUME TypeOK, VotesSound, CallsSound, PlacesSound, Forward, NEW x, CallsTame(x)
    PROVE  /\ calls' \subseteq CallType /\ CallsSound'
           /\ \A c \in calls' :
                /\ Issued(c.vote)' /\ Issued(c.told)'
                /\ c.vote[2] = c.from /\ c.from # c.to
                /\ c.log \in Logs /\ c.addr \in had[c.to]
<1> SUFFICES ASSUME NEW c \in calls'
             PROVE  /\ c \in CallType /\ CallSound(c)'
                    /\ Issued(c.vote)' /\ Issued(c.told)'
                    /\ c.vote[2] = c.from /\ c.from # c.to
                    /\ c.log \in Logs /\ c.addr \in had[c.to]
  BY DEF CallsSound
<1>1. PICK call \in calls :
        /\ c \in CallType /\ SameCall(c, call) /\ Issued(c.told)
        /\ c.answer = call.answer \/ Truthful(c)
  <2>1. CASE c \in calls
    BY <2>1, TypeFacts DEF SameCall, VotesSound
  <2>2. CASE c = x
    BY <2>2 DEF CallsTame
  <2> QED
    BY <2>1, <2>2 DEF CallsTame
<1>2. c \in Awaited({c}, core')
  BY DEF CallsTame
<1>3. CallSound(c)'
  BY <1>1, <1>2, CallForward
<1>4. /\ Issued(call.vote) /\ call.vote[2] = call.from /\ call.from # call.to
      /\ call.log \in Logs /\ call.addr \in had[call.to]
  BY DEF VotesSound, Logs, PlacesSound
<1>5. c.vote \in Vote /\ c.told \in Vote
  BY <1>1 DEF CallType
<1>6. Issued(c.vote)' /\ Issued(c.told)'
  <2>1. Issued(c.vote)
    BY <1>1, <1>4 DEF SameCall
  <2> QED
    BY <1>1, <1>5, <2>1, IssuedForward
<1> QED
  BY <1>1, <1>3, <1>4, <1>6 DEF SameCall

-----------------------------------------------------------------------------
(* A step that neither begins nor wins an election changes one node, which  *)
(* goes on as it was or stands back, with a log that is known and no shorter. *)

Rests(n) ==
    core'[n].role \notin Active /\ core'[n].granted = {} /\ core'[n].stored = {}

Holds(n) ==
    /\ core'[n].role = core[n].role
    /\ core'[n].vote = core[n].vote
    /\ core'[n].log = core[n].log
    /\ \A k \in core'[n].granted : AtLeast(core[k].vote, core[n].vote)
    /\ core[n].role \notin Active => core'[n].granted = {}
    /\ IF core[n].role = "leader" THEN core[n].stored \subseteq core'[n].stored
                                  ELSE core'[n].stored = {}

Tame(n) ==
    /\ core' \in [Nodes -> CoreType]
    /\ saved' \in [Nodes -> [vote : Vote, log : Log]]
    /\ saved'[n] = [vote |-> core'[n].vote, log |-> core'[n].log]
    /\ \A k \in Nodes \ {n} : core'[k] = core[k] /\ saved'[k] = saved[k]
    /\ AtLeast(core'[n].vote, core[n].vote) /\ Issued(core'[n].vote)
    /\ core'[n].log \in Logs
    /\ AtLeast(LastLogId(core'[n].log), LastLogId(core[n].log))
    /\ AtLeast(core'[n].vote, LastLogId(core'[n].log))
    /\ Rests(n) \/ Holds(n)
    /\ spent' \in Spent /\ spent'.elections = spent.elections

LEMMA TameForward ==
    ASSUME TypeOK, VotesSound, NEW n \in Nodes, Tame(n)
    PROVE  Forward
<1>1. spent'.elections \in Int /\ spent'.elections >= spent.elections
  BY DEF Tame, VotesSound, Spent
<1>2. \A k \in Nodes : AtLeast(core'[k].vote, core[k].vote)
  BY VoteOrder, TypeFacts DEF Tame
<1>3. \A k \in Nodes : Stands(k)
  BY DEF Tame, Stands, Rests, Holds, Active
<1> QED
  BY <1>1, <1>2, <1>3 DEF Tame, Forward

LEMMA TameKeeps ==
    ASSUME TypeOK, VotesSound, LogsSound, LogsAgree, CoresSound,
           NEW n \in Nodes, Tame(n), Logs' \subseteq Logs
    PROVE  /\ LogsSound' /\ LogsAgree' /\ CoresSound'
           /\ \A k \in Nodes : Issued(core[k].vote)'
           /\ \A k \in Nodes : AtLeast(LastLogId(core'[k].log), LastLogId(core[k].log))
<1>1. Forward
  BY TameForward
<1>2. LogsSound'
  BY <1>1, LogForward, TypeFacts DEF LogsSound
<1>3. LogsAgree'
  BY DEF LogsAgree, Agree
<1>4. \A k \in Nodes : Issued(core[k].vote)'
  <2> TAKE k \in Nodes
  <2>1. core'[k].vote \in Vote /\ Issued(core'[k].vote)
    BY <1>1, ForwardType DEF Tame, VotesSound
  <2> QED
    BY <1>1, <2>1, IssuedForward DEF Issued
<1>5. \A k \in Nodes : AtLeast(LastLogId(core'[k].log), LastLogId(core[k].log))
  BY VoteOrder, TypeFacts DEF Tame
<1>6. \A j, k \in Nodes : AtLeast(core[j].vote, core[k].vote) =>
                            AtLeast(core'[j].vote, core[k].vote)
  BY <1>1, VoteOrder, TypeFacts, ForwardType DEF Forward
<1>7. ASSUME NEW k \in Nodes
      PROVE  CoreSound(k)'
  <2>1. CoreSound(k) /\ core[k].granted \subseteq Nodes
    BY TypeFacts DEF CoresSound
  <2>2. CASE k # n
    <3>1. core'[k] = core[k] /\ saved'[k] = saved[k]
      BY <2>2 DEF Tame
    <3> QED
      BY <1>6, <2>1, <3>1 DEF CoreSound
  <2>3. CASE k = n /\ Rests(n)
    BY <2>3 DEF Rests, Tame, CoreSound, Active
  <2>4. CASE k = n /\ Holds(n)
    <3>1. \A j \in core'[n].granted : j \in Nodes /\ AtLeast(core'[j].vote, core[n].vote)
      BY <1>1, <1>6, <2>4, ForwardType DEF Holds, CoreType
    <3> QED
      BY <2>1, <2>4, <3>1 DEF Holds, Tame, CoreSound, Active
  <2> QED
    BY <2>2, <2>3, <2>4 DEF Tame
<1> QED
  BY <1>2, <1>3, <1>4, <1>5, <1>7 DEF CoresSound

-----------------------------------------------------------------------------
(* What a step may do to grants and copies, and what follows for what is    *)
(* committed.                                                               *)

Rising ==
    /\ core' \in [Nodes -> CoreType]
    /\ \A n \in Nodes : /\ AtLeast(core'[n].vote, core[n].vote)
                        /\ AtLeast(LastLogId(core'[n].log), LastLogId(core[n].log))

GrantsFrom(n, v, w) ==
    Granted(n, v, w)' => Granted(n, v, w) \/ AtLeast(w, LastLogId(core[n].log))

StoresFrom(u, n) ==
    StoredAt(u, n)' => \/ StoredAt(u, n)
                       \/ /\ AtLeast(u, core[n].vote) /\ AtLeast(core'[n].vote, u)
                          /\ AtLeast(LastLogId(core'[n].log), u)

SafeStep ==
    /\ Rising
    /\ \/ /\ \A n \in Nodes, v, w \in Vote : GrantsFrom(n, v, w)
          /\ \A u \in Vote, n \in Nodes : StoredAt(u, n)' => StoredAt(u, n)
       \/ /\ \A n \in Nodes, v, w \in Vote : Granted(n, v, w)' => Granted(n, v, w)
          /\ \A u \in Vote, n \in Nodes : StoresFrom(u, n)

LEMMA RisingType ==
    ASSUME Rising, NEW n \in Nodes
    PROVE  core'[n].vote \in Vote /\ LastLogId(core'[n].log) \in Vote
<1>1. core'[n].vote \in Vote /\ core'[n].log \in Log
  BY DEF Rising, CoreType
<1> QED
  BY <1>1, LogType

LEMMA GrantSound ==
    ASSUME TypeOK, CoresSound, CallsSound, NEW n \in Nodes, NEW v \in Vote, NEW w \in Vote,
           Granted(n, v, w)
    PROVE  AtLeast(core[n].vote, v)
BY DEF Granted, CoresSound, CoreSound, CallsSound, CallSound

LEMMA KeptSafe ==
    ASSUME TypeOK, SafeStep, NEW u \in Vote, NEW n \in Nodes, Kept(u, n)
    PROVE  Kept(u, n)'
<1>1. AtLeast(core'[n].vote, u) /\ AtLeast(LastLogId(core'[n].log), u)
  BY VoteOrder, TypeFacts, RisingType DEF SafeStep, Rising, Kept
<1>2. ASSUME NEW v \in Vote, NEW w \in Vote, Granted(n, v, w)', Below(u, v)
      PROVE  AtLeast(w, u)
  <2>1. Granted(n, v, w) \/ AtLeast(w, LastLogId(core[n].log))
    BY <1>2 DEF SafeStep, GrantsFrom
  <2>2. AtLeast(w, LastLogId(core[n].log)) => AtLeast(w, u)
    BY VoteOrder, TypeFacts DEF Kept
  <2> QED
    BY <1>2, <2>1, <2>2 DEF Kept
<1> QED
  BY <1>1, <1>2 DEF Kept

LEMMA StoredKeptSafe ==
    ASSUME TypeOK, CoresSound, CallsSound, StoredKept, SafeStep
    PROVE  StoredKept'
<1> SUFFICES ASSUME NEW u \in Vote, NEW n \in Nodes, StoredAt(u, n)'
             PROVE  Kept(u, n)'
  BY DEF StoredKept
<1>1. CASE StoredAt(u, n)
  BY <1>1, KeptSafe DEF StoredKept
<1>2. CASE ~StoredAt(u, n)
  <2>1. /\ AtLeast(u, core[n].vote) /\ AtLeast(core'[n].vote, u)
        /\ AtLeast(LastLogId(core'[n].log), u)
        /\ \A v, w \in Vote : Granted(n, v, w)' => Granted(n, v, w)
    BY <1>2 DEF SafeStep, StoresFrom
  <2>2. ASSUME NEW v \in Vote, NEW w \in Vote, Granted(n, v, w), Below(u, v)
        PROVE  FALSE
    <3>1. AtLeast(core[n].vote, v)
      BY <2>2, GrantSound
    <3> QED
      BY <2>1, <2>2, <3>1, VoteOrder, TypeFacts
  <2> QED
    BY <2>1, <2>2 DEF Kept
<1> QED
  BY <1>1, <1>2

LEMMA ElectedSafe ==
    ASSUME TypeOK, SafeStep, NEW log \in Log, NEW i \in DOMAIN log,
           NEW nodes \in SUBSET Nodes, ElectedAt(log, i, nodes)
    PROVE  ElectedAt(log, i, nodes)'
<1> SUFFICES ASSUME NEW n \in nodes
             PROVE  /\ AtLeast(core'[n].vote, log[i])
                    /\ \A u \in Vote : Below(u, log[i]) /\ StoredAt(u, n)'
                                         => i > 1 /\ AtLeast(log[i - 1], u)
  BY DEF ElectedAt
<1>1. log[i] \in Vote /\ n \in Nodes
  BY LogType
<1>2. AtLeast(core[n].vote, log[i])
  BY DEF ElectedAt
<1>3. AtLeast(core'[n].vote, log[i])
  BY <1>1, <1>2, VoteOrder, TypeFacts, RisingType DEF SafeStep, Rising
<1>4. ASSUME NEW u \in Vote, Below(u, log[i]), StoredAt(u, n)'
      PROVE  StoredAt(u, n)
  <2>1. StoredAt(u, n) \/ AtLeast(u, core[n].vote)
    BY <1>1, <1>4 DEF SafeStep, StoresFrom
  <2>2. ~AtLeast(u, core[n].vote)
    BY <1>1, <1>2, <1>4, VoteOrder, TypeFacts
  <2> QED
    BY <2>1, <2>2
<1> QED
  BY <1>3, <1>4 DEF ElectedAt

CommitsSound ==
    \A c \in chosen' :
        c \in [vote : Vote, log : Log] /\ c.log \in Logs /\ Committable(c)

LEMMA NoCommit ==
    ASSUME IInv, chosen' = chosen
    PROVE  CommitsSound
BY Typed DEF IInv, ChosenSound, CommitsSound, Logs

\* A step that adds no log and commits nothing but what may be.
LEMMA ChosenSafe ==
    ASSUME IInv, SafeStep, Logs' \subseteq Logs, CommitsSound
    PROVE  StoredKept' /\ LogsElected' /\ ChosenSound'
<1>1. StoredKept'
  BY StoredKeptSafe DEF IInv
<1>2. LogsElected'
  <2> SUFFICES ASSUME NEW log \in Logs, NEW i \in DOMAIN log
               PROVE  \E nodes \in SUBSET Nodes :
                        Quorum(nodes) /\ ElectedAt(log, i, nodes)'
    BY DEF LogsElected
  <2>1. PICK nodes \in SUBSET Nodes : Quorum(nodes) /\ ElectedAt(log, i, nodes)
    BY DEF IInv, LogsElected
  <2>2. log \in Log
    BY TypeFacts DEF IInv
  <2>3. ElectedAt(log, i, nodes)'
    BY <2>1, <2>2, ElectedSafe DEF IInv
  <2> QED
    BY <2>1, <2>3
<1>3. ChosenSound'
  <2> SUFFICES ASSUME NEW c \in chosen'
               PROVE  Committable(c)'
    BY DEF ChosenSound
  <2>1. /\ c.log # <<>> /\ LastLogId(c.log) = c.vote /\ c.vote \in Vote
        /\ \A log \in Logs : AtLeast(LastLogId(log), c.vote) => IsPrefix(c.log, log)
    BY DEF CommitsSound, Committable
  <2>2. PICK nodes \in SUBSET Nodes : Quorum(nodes) /\ \A n \in nodes : Kept(c.vote, n)
    BY DEF CommitsSound, Committable
  <2>3. \A n \in nodes : Kept(c.vote, n)'
    BY <2>1, <2>2, KeptSafe DEF IInv
  <2> QED
    BY <2>1, <2>2, <2>3 DEF Committable
<1> QED
  BY <1>1, <1>2, <1>3

-----------------------------------------------------------------------------
(* Tame steps, put together *)

\* Nobody counts a grant, or a copy, that has not been given.
GrantsOld(n) ==
    core[n].role = "candidate" =>
      \A k \in core'[n].granted :
        k \in core[n].granted \/ Granted(k, core[n].vote, LastLogId(core[n].log))

StoresOld(n) ==
    \A k \in core'[n].stored : k \in core[n].stored \/ StoredAt(core[n].vote, k)

LEMMA TameGrants ==
    ASSUME TypeOK, NEW n \in Nodes, Tame(n), GrantsOld(n),
           NEW k \in Nodes, NEW v \in Vote, NEW w \in Vote, Granted(k, v, w)'
    PROVE  \/ Granted(k, v, w)
           \/ \E c \in calls' \ calls : /\ c.answer = "granted" /\ c.to = k
                                        /\ c.vote = v /\ LastLogId(c.log) = w
<1>1. ASSUME NEW m \in Nodes, core'[m].role = "candidate", k \in core'[m].granted,
             core'[m].vote = v, LastLogId(core'[m].log) = w
      PROVE  Granted(k, v, w)
  <2>1. CASE m # n
    BY <1>1, <2>1 DEF Tame, Granted
  <2>2. CASE m = n
    <3>1. Holds(n)
      BY <1>1, <2>2 DEF Tame, Rests, Active
    <3> QED
      BY <1>1, <2>2, <3>1 DEF Holds, GrantsOld, Granted
  <2> QED
    BY <2>1, <2>2
<1>2. ASSUME NEW c \in calls', c.answer = "granted", c.to = k,
             c.vote = v, LastLogId(c.log) = w, c \in calls
      PROVE  Granted(k, v, w)
  BY <1>2 DEF Granted
<1> QED
  BY <1>1, <1>2 DEF Granted

LEMMA TameStores ==
    ASSUME TypeOK, NEW n \in Nodes, Tame(n), StoresOld(n),
           NEW k \in Nodes, NEW u \in Vote, StoredAt(u, k)'
    PROVE  \/ StoredAt(u, k)
           \/ \E c \in calls' \ calls : /\ c.answer = "success" /\ Whole(c)
                                        /\ c.vote = u /\ c.to = k
<1>1. ASSUME NEW m \in Nodes, core'[m].vote = u, k \in core'[m].stored
      PROVE  StoredAt(u, k)
  <2>1. CASE m # n
    BY <1>1, <2>1 DEF Tame, StoredAt
  <2>2. CASE m = n
    <3>1. Holds(n)
      BY <1>1, <2>2 DEF Tame, Rests
    <3> QED
      BY <1>1, <2>2, <3>1 DEF Holds, StoresOld, StoredAt
  <2> QED
    BY <2>1, <2>2
<1>2. ASSUME NEW c \in calls', c.answer = "success", Whole(c), c.vote = u, c.to = k,
             c \in calls
      PROVE  StoredAt(u, k)
  BY <1>2 DEF StoredAt
<1> QED
  BY <1>1, <1>2 DEF StoredAt

\* What a new answer says is true: a grant goes to a log no shorter than the
\* granting node's, and what is stored is there and under no lower vote.
AnswersSafe(x) ==
    x \in calls' \ calls =>
      /\ x.answer = "granted" =>
           AtLeast(LastLogId(x.log), LastLogId(core[x.to].log))
      /\ x.answer = "success" /\ Whole(x) =>
           /\ AtLeast(x.vote, core[x.to].vote) /\ AtLeast(core'[x.to].vote, x.vote)
           /\ AtLeast(LastLogId(core'[x.to].log), x.vote)

LEMMA TameSafe ==
    ASSUME IInv, NEW n \in Nodes, Tame(n), Logs' \subseteq Logs,
           NEW x, CallsTame(x), GrantsOld(n), StoresOld(n), AnswersSafe(x)
    PROVE  SafeStep
<1>1. Rising
  BY TameKeeps, TameForward DEF IInv, Tame, Rising, Forward
<1>2. \A c \in calls' \ calls : c = x
  BY DEF CallsTame
<1>3. CASE x \in calls' \ calls /\ x.answer = "granted"
  <2>1. ASSUME NEW k \in Nodes, NEW v \in Vote, NEW w \in Vote
        PROVE  GrantsFrom(k, v, w)
    <3> SUFFICES ASSUME Granted(k, v, w)', ~Granted(k, v, w)
                 PROVE  AtLeast(w, LastLogId(core[k].log))
      BY DEF GrantsFrom
    <3>1. x.to = k /\ LastLogId(x.log) = w
      BY <1>2, TameGrants DEF IInv
    <3> QED
      BY <1>3, <3>1 DEF AnswersSafe
  <2>2. ASSUME NEW u \in Vote, NEW k \in Nodes, StoredAt(u, k)'
        PROVE  StoredAt(u, k)
    BY <1>2, <1>3, <2>2, TameStores DEF IInv
  <2> QED
    BY <1>1, <2>1, <2>2 DEF SafeStep
<1>4. CASE ~(x \in calls' \ calls /\ x.answer = "granted")
  <2>1. ASSUME NEW k \in Nodes, NEW v \in Vote, NEW w \in Vote, Granted(k, v, w)'
        PROVE  Granted(k, v, w)
    BY <1>2, <1>4, <2>1, TameGrants DEF IInv
  <2>2. ASSUME NEW u \in Vote, NEW k \in Nodes
        PROVE  StoresFrom(u, k)
    <3> SUFFICES ASSUME StoredAt(u, k)', ~StoredAt(u, k)
                 PROVE  /\ AtLeast(u, core[k].vote) /\ AtLeast(core'[k].vote, u)
                        /\ AtLeast(LastLogId(core'[k].log), u)
      BY DEF StoresFrom
    <3>1. /\ x \in calls' \ calls /\ x.answer = "success" /\ Whole(x)
          /\ x.vote = u /\ x.to = k
      BY <1>2, TameStores DEF IInv
    <3> QED
      BY <3>1 DEF AnswersSafe
  <2> QED
    BY <1>1, <2>1, <2>2 DEF SafeStep
<1> QED
  BY <1>3, <1>4

\* No chunk is received or counted.
ChunksQuiet(n, x) ==
    /\ core'[n].role \in Active => core'[n].sending = core[n].sending
    /\ core'[n].receiving \in {core[n].receiving, NoTransfer}
    /\ x \in calls' \ calls /\ x.kind = "chunk" => x.answer # "success"

LEMMA RealVotes ==
    ASSUME VotesSound, CoresSound, TypeOK
    PROVE  /\ \A call \in calls : call.vote # NoVote
           /\ \A m \in Nodes : core[m].role \in Active => core[m].vote # NoVote
<1>1. \A n \in Nodes : n # 0
  BY NetworkAssumption DEF Nodes
<1>2. NoVote[2] = 0
  BY DEF NoVote
<1>3. \A call \in calls : call.vote[2] \in Nodes
  BY TypeFacts DEF VotesSound
<1>4. \A m \in Nodes : core[m].role \in Active => core[m].vote[2] \in Nodes
  BY DEF CoresSound, CoreSound
<1> QED
  BY <1>1, <1>2, <1>3, <1>4

LEMMA TameRoles ==
    ASSUME NEW n \in Nodes, Tame(n), NEW m \in Nodes, core'[m].role \in Active
    PROVE  /\ core[m].role = core'[m].role /\ core[m].vote = core'[m].vote
           /\ core[m].log = core'[m].log
           /\ m # n => core'[m] = core[m]
BY DEF Tame, Rests, Holds

LEMMA OneCallEach ==
    ASSUME ChunksSound, NEW x, CallsTame(x)
    PROVE  \A c, d \in calls' : SameTransfer(c, d) => c = d
<1> SUFFICES ASSUME NEW c \in calls', NEW d \in calls', SameTransfer(c, d)
             PROVE  c = d
  OBVIOUS
<1>1. CASE c \in calls /\ d \in calls
  BY <1>1 DEF ChunksSound
<1>2. CASE c = x /\ d = x
  BY <1>2
<1>3. CASE c = x /\ d \in calls
  <2>1. PICK call \in calls : SameCall(x, call) /\ (call \in calls' => call = x)
    BY <1>3 DEF CallsTame
  <2>2. call = d
    BY <1>3, <2>1 DEF SameTransfer, SameCall, ChunksSound
  <2> QED
    BY <1>3, <2>1, <2>2
<1>4. CASE c \in calls /\ d = x
  <2>1. PICK call \in calls : SameCall(x, call) /\ (call \in calls' => call = x)
    BY <1>4 DEF CallsTame
  <2>2. call = c
    BY <1>4, <2>1 DEF SameTransfer, SameCall, ChunksSound
  <2> QED
    BY <1>4, <2>1, <2>2
<1> QED
  BY <1>1, <1>2, <1>3, <1>4 DEF CallsTame

LEMMA OldCall ==
    ASSUME NEW x, CallsTame(x), NEW c \in calls'
    PROVE  \E call \in calls : SameCall(c, call) /\ (c \in calls => call = c)
<1>1. CASE c \in calls
  BY <1>1 DEF SameCall
<1>2. CASE c \notin calls
  BY <1>2 DEF CallsTame
<1> QED
  BY <1>1, <1>2

LEMMA TameChunks ==
    ASSUME TypeOK, VotesSound, CoresSound, ChunksSound,
           NEW n \in Nodes, Tame(n), NEW x, CallsTame(x), ChunksQuiet(n, x)
    PROVE  ChunksSound'
<1>1. ASSUME NEW m \in Nodes, core'[m].role \in Active
      PROVE  core'[m].sending = core[m].sending
  BY <1>1, TameRoles DEF ChunksQuiet
<1>2. ASSUME NEW k \in Nodes, core'[k].receiving.of # NoVote
      PROVE  core'[k].receiving = core[k].receiving
  BY <1>2 DEF Tame, ChunksQuiet, NoTransfer
<1>3. ASSUME NEW c \in calls', c.kind = "chunk"
      PROVE  /\ core'[c.from].role = "leader" /\ core'[c.from].vote = c.vote
                  => core'[c.from].sending[c.to] = c.chunk
             /\ core'[c.to].receiving.of = c.vote =>
                  /\ 0..c.chunk - 1 \subseteq core'[c.to].receiving.chunks
                  /\ c.answer = "success" => c.chunk \in core'[c.to].receiving.chunks
  <2>1. PICK call \in calls : SameCall(c, call) /\ (c \in calls => call = c)
    BY OldCall
  <2>2. /\ call.from \in Nodes /\ call.to \in Nodes /\ call.vote # NoVote
        /\ c.from = call.from /\ c.to = call.to /\ c.vote = call.vote
        /\ c.chunk = call.chunk /\ call.kind = "chunk"
    BY <1>3, <2>1, RealVotes, TypeFacts DEF SameCall
  <2>3. ASSUME core'[c.from].role = "leader", core'[c.from].vote = c.vote
        PROVE  core'[c.from].sending[c.to] = c.chunk
    <3>1. core[call.from].role = "leader" /\ core[call.from].vote = call.vote
      BY <2>2, <2>3, TameRoles DEF Active
    <3>2. core'[call.from].sending = core[call.from].sending
      BY <1>1, <2>2, <2>3 DEF Active
    <3> QED
      BY <2>2, <3>1, <3>2 DEF ChunksSound
  <2>4. ASSUME core'[c.to].receiving.of = c.vote
        PROVE  /\ 0..c.chunk - 1 \subseteq core'[c.to].receiving.chunks
               /\ c.answer = "success" => c.chunk \in core'[c.to].receiving.chunks
    <3>1. core'[call.to].receiving = core[call.to].receiving
      BY <1>2, <2>2, <2>4
    <3>2. c.answer = "success" => call = c
      BY <1>3, <2>1 DEF ChunksQuiet, CallsTame
    <3> QED
      BY <2>2, <2>4, <3>1, <3>2 DEF ChunksSound
  <2> QED
    BY <2>3, <2>4
<1>4. ASSUME NEW m \in Nodes, NEW k \in Nodes
      PROVE  /\ core'[m].role = "candidate" => core'[m].sending[k] = 0
             /\ core'[m].role = "leader" /\ core'[k].receiving.of = core'[m].vote =>
                  0..core'[m].sending[k] - 1 \subseteq core'[k].receiving.chunks
  <2>1. ASSUME core'[m].role = "candidate"
        PROVE  core'[m].sending[k] = 0
    BY <1>1, <2>1, TameRoles DEF Active, ChunksSound
  <2>2. ASSUME core'[m].role = "leader", core'[k].receiving.of = core'[m].vote
        PROVE  0..core'[m].sending[k] - 1 \subseteq core'[k].receiving.chunks
    <3>1. core[m].role = "leader" /\ core[m].vote = core'[m].vote
      BY <2>2, TameRoles DEF Active
    <3>2. core'[k].receiving = core[k].receiving
      BY <1>2, <2>2, <3>1, RealVotes DEF Active
    <3> QED
      BY <1>1, <2>2, <3>1, <3>2 DEF Active, ChunksSound
  <2> QED
    BY <2>1, <2>2
<1>5. \A c, d \in calls' : SameTransfer(c, d) => c = d
  BY OneCallEach
<1> QED
  BY <1>3, <1>4, <1>5 DEF ChunksSound, SameTransfer

LEMMA TameCore ==
    ASSUME IInv, NEW n \in Nodes, Tame(n), NEW x, CallsTame(x),
           GrantsOld(n), StoresOld(n), AnswersSafe(x), CommitsSound
    PROVE  /\ VotesSound' /\ LogsSound' /\ LogsAgree' /\ CoresSound' /\ CallsSound'
           /\ StoredKept' /\ LogsElected' /\ ChosenSound'
           /\ calls' \subseteq CallType
           /\ \A call \in calls' : call.addr \in had[call.to]
<1>1. Forward
  BY TameForward DEF IInv
<1>2. /\ calls' \subseteq CallType /\ CallsSound'
      /\ \A c \in calls' : /\ Issued(c.vote)' /\ Issued(c.told)'
                           /\ c.vote[2] = c.from /\ c.from # c.to
                           /\ c.log \in Logs /\ c.addr \in had[c.to]
  BY <1>1, CallsTameFacts DEF IInv
<1>3. Logs' \subseteq Logs
  <2>1. \A k \in Nodes : core'[k].log \in Logs
    BY DEF Tame, Logs
  <2>2. \A c \in chosen' : c.log \in Logs
    BY DEF CommitsSound
  <2> QED
    BY <1>2, <2>1, <2>2 DEF Logs
<1>4. /\ LogsSound' /\ LogsAgree' /\ CoresSound'
      /\ \A k \in Nodes : Issued(core[k].vote)'
  BY <1>3, TameKeeps DEF IInv
<1>5. StoredKept' /\ LogsElected' /\ ChosenSound'
  <2>1. SafeStep
    BY <1>3, TameSafe
  <2> QED
    BY <1>3, <2>1, ChosenSafe
<1>6. VotesSound'
  BY <1>2, <1>4 DEF IInv, VotesSound, Tame
<1> QED
  BY <1>2, <1>4, <1>5, <1>6

LEMMA TameCommits ==
    ASSUME IInv, NEW n \in Nodes, Tame(n), NEW x, CallsTame(x),
           GrantsOld(n), StoresOld(n), AnswersSafe(x),
           UNCHANGED places, CommitsSound, ChunksSound'
    PROVE  IInv'
<1>1. /\ VotesSound' /\ LogsSound' /\ LogsAgree' /\ CoresSound' /\ CallsSound'
      /\ StoredKept' /\ LogsElected' /\ ChosenSound'
      /\ calls' \subseteq CallType
      /\ \A call \in calls' : call.addr \in had[call.to]
  BY TameCore
<1>2. TypeOK'
  BY <1>1, Typed DEF IInv, Tame, places, CommitsSound, TypeOK, CoreType, CallType
<1>3. PlacesSound'
  BY <1>1, TameRoles DEF IInv, PlacesSound, places, Active
<1> QED
  BY <1>1, <1>2, <1>3 DEF IInv

LEMMA TameInv ==
    ASSUME IInv, NEW n \in Nodes, Tame(n), NEW x, CallsTame(x),
           GrantsOld(n), StoresOld(n), AnswersSafe(x),
           UNCHANGED <<places, chosen>>, ChunksSound'
    PROVE  IInv'
<1>1. UNCHANGED places /\ CommitsSound
  BY NoCommit
<1> QED
  BY <1>1, TameCommits

-----------------------------------------------------------------------------
(* What the actions are made of *)

LEMMA IdleFacts ==
    ASSUME NEW v \in Vote, NEW log \in Log
    PROVE  /\ Idle(v, log) \in CoreType
           /\ Idle(v, log).role = "follower" /\ Idle(v, log).vote = v
           /\ Idle(v, log).log = log /\ Idle(v, log).granted = {}
           /\ Idle(v, log).stored = {} /\ Idle(v, log).receiving = NoTransfer
           /\ Idle(v, log).sending = [n \in Nodes |-> 0]
<1>1. 0 \in 0..Chunks - 1
  BY NetworkAssumption
<1>2. NoTransfer \in [of : Vote, chunks : SUBSET (0..Chunks - 1)]
  BY VoteOrder DEF NoTransfer
<1> QED
  BY <1>1, <1>2 DEF Idle, CoreType

LEMMA AnswerFacts ==
    ASSUME TypeOK, NEW call \in calls,
           NEW answer \in {"granted", "success", "refused", "mismatch", "fatal"},
           NEW told \in Vote, Issued(told), Answer(call, answer, told),
           answer = "granted" => call.kind = "vote" /\ AtLeast(core'[call.to].vote, call.vote),
           answer = "success" => call.kind # "vote"
    PROVE  \E x : CallsTame(x) /\ SameCall(x, call) /\ x.answer = answer
<1> DEFINE x == [call EXCEPT !.answer = answer, !.told = told]
<1>1. call \in CallType
  BY TypeFacts
<1>2. x \in CallType /\ SameCall(x, call) /\ x.answer = answer /\ x.told = told
  BY <1>1 DEF CallType, SameCall
<1>3. calls' = Awaited((calls \ {call}) \cup {x}, core')
  BY DEF Answer
<1> HIDE DEF x
<1>4. \A c \in calls' : c \in Awaited({c}, core') /\ (c \in calls \ {call} \/ c = x)
  BY <1>3 DEF Awaited
<1>5. Truthful(x)
  BY <1>2 DEF Truthful, SameCall
<1>6. CallsTame(x)
  BY <1>2, <1>4, <1>5 DEF CallsTame
<1> QED
  BY <1>2, <1>6

LEMMA StillFacts ==
    ASSUME IInv, NEW n \in Nodes, UNCHANGED <<core, saved, spent>>
    PROVE  /\ Tame(n) /\ GrantsOld(n) /\ StoresOld(n)
           /\ core'[n].receiving = core[n].receiving /\ core'[n].sending = core[n].sending
<1>1. core \in [Nodes -> CoreType] /\ saved \in [Nodes -> [vote : Vote, log : Log]]
  BY Typed DEF IInv
<1>2. CoreSound(n) /\ Issued(core[n].vote) /\ core[n].log \in Logs
  BY DEF IInv, CoresSound, VotesSound, Logs
<1>3. AtLeast(core[n].vote, core[n].vote)
      /\ AtLeast(LastLogId(core[n].log), LastLogId(core[n].log))
  BY VoteOrder, TypeFacts DEF IInv
<1>4. Holds(n)
  BY <1>2 DEF Holds, CoreSound, Active
<1>5. spent' \in Spent
  BY DEF IInv, VotesSound
<1> QED
  BY <1>1, <1>2, <1>3, <1>4, <1>5 DEF Tame, GrantsOld, StoresOld, CoreSound

LEMMA AdoptFacts ==
    ASSUME IInv, NEW n \in Nodes, NEW v \in Vote, NEW log \in Logs, Adopt(n, v, log),
           Issued(v), AtLeast(v, core[n].vote), UNCHANGED spent,
           v = core[n].vote => core[n].role \notin Active,
           AtLeast(LastLogId(log), LastLogId(core[n].log)), AtLeast(v, LastLogId(log))
    PROVE  /\ Tame(n) /\ GrantsOld(n) /\ StoresOld(n) /\ Rests(n)
           /\ core'[n].vote = v /\ core'[n].log = log
           /\ core'[n].receiving \in {core[n].receiving, NoTransfer}
<1>1. /\ core \in [Nodes -> CoreType] /\ saved \in [Nodes -> [vote : Vote, log : Log]]
      /\ log \in Log /\ core[n] \in CoreType
  BY Typed, TypeFacts DEF IInv
<1> DEFINE x == IF v = core[n].vote THEN [core[n] EXCEPT !.log = log] ELSE Idle(v, log)
<1>2. core' = [core EXCEPT ![n] = x]
  BY <1>1 DEF Adopt
<1>3. /\ x \in CoreType /\ x.vote = v /\ x.log = log
      /\ x.role \notin Active /\ x.granted = {} /\ x.stored = {}
      /\ x.receiving \in {core[n].receiving, NoTransfer}
  <2>1. CASE v = core[n].vote
    BY <1>1, <2>1 DEF CoreType, IInv, CoresSound, CoreSound, Active
  <2>2. CASE v # core[n].vote
    BY <1>1, <2>2, IdleFacts DEF Active
  <2> QED
    BY <2>1, <2>2
<1> HIDE DEF x
<1>4. /\ core' \in [Nodes -> CoreType] /\ core'[n] = x
      /\ \A k \in Nodes \ {n} : core'[k] = core[k]
  BY <1>1, <1>2, <1>3
<1>5. /\ saved' \in [Nodes -> [vote : Vote, log : Log]]
      /\ saved'[n] = [vote |-> v, log |-> log]
      /\ \A k \in Nodes \ {n} : saved'[k] = saved[k]
  BY <1>1 DEF Adopt, Save
<1>6. Rests(n)
  BY <1>3, <1>4 DEF Rests
<1>7. spent' \in Spent
  BY DEF IInv, VotesSound
<1> QED
  BY <1>3, <1>4, <1>5, <1>6, <1>7 DEF Tame, GrantsOld, StoresOld, Rests, Active

\* A call is answered by the node it was sent to, which is not under its vote
\* on its own behalf.
LEMMA Addressee ==
    ASSUME IInv, NEW n \in Nodes, NEW call \in calls, call.addr = addrOf[n]
    PROVE  /\ call.to = n
           /\ call.vote = core[n].vote => core[n].role \notin Active
<1>1. call.addr \in had[call.to] /\ addrOf[n] \in had[n] /\ call.to \in Nodes
  BY TypeFacts DEF IInv, PlacesSound
<1>2. call.to = n
  BY <1>1 DEF IInv, PlacesSound
<1>3. call.vote[2] # n
  BY <1>2 DEF IInv, VotesSound
<1> QED
  BY <1>2, <1>3 DEF IInv, CoresSound, CoreSound

LEMMA PrefixLast ==
    ASSUME NEW log \in Log, NEW other \in Log, LogSound(other), log # <<>>,
           IsPrefix(log, other)
    PROVE  AtLeast(LastLogId(other), LastLogId(log))
<1>1. log \in Seq(Vote) /\ other \in Seq(Vote)
  BY LogType
<1>2. Len(log) <= Len(other) /\ \A i \in 1..Len(log) : log[i] = other[i]
  BY <1>1, PrefixPointwise
<1>3. /\ Len(log) \in 1..Len(log) /\ LastLogId(log) = log[Len(log)]
      /\ Len(other) \in DOMAIN other /\ LastLogId(other) = other[Len(other)]
      /\ Len(log) \in DOMAIN other
  <2>1. other # <<>>
    BY <1>1, <1>2
  <2> QED
    BY <1>1, <1>2, <2>1, LogType
<1>4. LastLogId(log) = other[Len(log)]
  BY <1>2, <1>3
<1>5. CASE Len(log) = Len(other)
  BY <1>3, <1>4, <1>5, LogType, VoteOrder
<1>6. CASE Len(log) < Len(other)
  <2>1. other[Len(log)][1] < other[Len(other)][1]
    BY <1>3, <1>6 DEF LogSound
  <2>2. LastLogId(log)[1] < LastLogId(other)[1]
    BY <1>3, <1>4, <2>1
  <2>3. LastLogId(log) \in Vote /\ LastLogId(other) \in Vote
    BY LogType
  <2>4. LastLogId(log)[1] \in Int /\ LastLogId(other)[1] \in Int
    BY <2>3 DEF Vote
  <2> QED
    BY <2>2, <2>3, <2>4, VoteOrder
<1> QED
  BY <1>1, <1>2, <1>5, <1>6

-----------------------------------------------------------------------------
(* The actions, one by one *)

\* An answer that leaves the node as it was.
LEMMA RefusalKeeps ==
    ASSUME IInv, NEW n \in Nodes, NEW call \in calls,
           NEW answer \in {"refused", "fatal"}, NEW told \in Vote, Issued(told),
           Answer(call, answer, told), UNCHANGED <<saved, core, places, chosen, spent>>
    PROVE  IInv'
<1>1. /\ Tame(n) /\ GrantsOld(n) /\ StoresOld(n)
      /\ core'[n].receiving = core[n].receiving /\ core'[n].sending = core[n].sending
  BY StillFacts
<1>2. PICK x : CallsTame(x) /\ SameCall(x, call) /\ x.answer = answer
  BY AnswerFacts DEF IInv
<1>3. AnswersSafe(x) /\ ChunksQuiet(n, x)
  BY <1>1, <1>2 DEF AnswersSafe, ChunksQuiet
<1>4. ChunksSound'
  BY <1>1, <1>2, <1>3, TameChunks DEF IInv
<1> QED
  BY <1>1, <1>2, <1>3, <1>4, TameInv

LEMMA AnswerFatalKeeps ==
    ASSUME IInv, NEW n \in Nodes, NEW call \in calls, AnswerFatal(n, call)
    PROVE  IInv'
<1>1. NoVote \in Vote /\ Issued(NoVote)
  BY VoteOrder DEF Issued
<1>2. UNCHANGED <<saved, core, places, chosen, spent>> /\ Answer(call, "fatal", NoVote)
  BY DEF AnswerFatal
<1> QED
  BY <1>1, <1>2, RefusalKeeps

LEMMA AnswerHigherVoteKeeps ==
    ASSUME IInv, NEW n \in Nodes, NEW call \in calls, AnswerHigherVote(n, call)
    PROVE  IInv'
<1>1. core[n].vote \in Vote /\ Issued(core[n].vote)
  BY TypeFacts DEF IInv, VotesSound
<1>2. UNCHANGED <<saved, core, places, chosen, spent>>
      /\ Answer(call, "refused", core[n].vote)
  BY DEF AnswerHigherVote
<1> QED
  BY <1>1, <1>2, RefusalKeeps

LEMMA AnswerVoteKeeps ==
    ASSUME IInv, NEW n \in Nodes, NEW call \in calls, AnswerVote(n, call)
    PROVE  IInv'
<1>1. /\ call.kind = "vote" /\ call.to = n /\ UNCHANGED <<places, chosen, spent>>
      /\ call.vote = core[n].vote => core[n].role \notin Active
  BY Addressee DEF AnswerVote, Arrives
<1>2. /\ call.vote \in Vote /\ Issued(call.vote) /\ core[n].vote \in Vote
      /\ Issued(core[n].vote) /\ LastLogId(core[n].log) \in Vote
      /\ LastLogId(call.log) \in Vote
  BY TypeFacts DEF IInv, VotesSound
<1>3. CASE AtLeast(call.vote, core[n].vote) /\ LogAtLeast(call.log, core[n].log)
  <2>1. /\ Adopt(n, call.vote, core[n].log) /\ Answer(call, "granted", call.vote)
        /\ AtLeast(call.vote, core[n].vote) /\ core[n].log \in Logs
    BY <1>3 DEF AnswerVote, Logs
  <2>2. AtLeast(core[n].vote, LastLogId(core[n].log))
    BY DEF IInv, CoresSound, CoreSound
  <2>3. /\ AtLeast(call.vote, LastLogId(core[n].log))
        /\ AtLeast(LastLogId(core[n].log), LastLogId(core[n].log))
    BY <1>2, <2>1, <2>2, VoteOrder
  <2>4. /\ Tame(n) /\ GrantsOld(n) /\ StoresOld(n) /\ Rests(n)
        /\ core'[n].vote = call.vote
        /\ core'[n].receiving \in {core[n].receiving, NoTransfer}
    BY <1>1, <1>2, <2>1, <2>3, AdoptFacts
  <2>5. AtLeast(core'[call.to].vote, call.vote)
    BY <1>1, <1>2, <2>4, VoteOrder
  <2>6. PICK x : CallsTame(x) /\ SameCall(x, call) /\ x.answer = "granted"
    BY <1>1, <1>2, <2>1, <2>5, AnswerFacts DEF IInv
  <2>7. AtLeast(LastLogId(call.log), LastLogId(core[n].log))
    BY <1>2, <1>3, VoteOrder DEF LogAtLeast
  <2>8. AnswersSafe(x) /\ ChunksQuiet(n, x)
    BY <1>1, <2>4, <2>6, <2>7 DEF AnswersSafe, ChunksQuiet, SameCall, Rests
  <2>9. ChunksSound'
    BY <2>4, <2>6, <2>8, TameChunks DEF IInv
  <2> QED
    BY <1>1, <2>4, <2>6, <2>8, <2>9, TameInv
<1>4. CASE ~(AtLeast(call.vote, core[n].vote) /\ LogAtLeast(call.log, core[n].log))
  <2>1. UNCHANGED <<saved, core, places, chosen, spent>>
        /\ Answer(call, "refused", core[n].vote)
    BY <1>4 DEF AnswerVote
  <2> QED
    BY <1>2, <2>1, RefusalKeeps
<1> QED
  BY <1>3, <1>4

LEMMA AnswerMismatchKeeps ==
    ASSUME IInv, NEW n \in Nodes, NEW call \in calls, AnswerMismatch(n, call)
    PROVE  IInv'
<1>1. /\ call.to = n /\ UNCHANGED <<places, chosen, spent>>
      /\ call.vote = core[n].vote => core[n].role \notin Active
  BY Addressee DEF AnswerMismatch, Arrives
<1>2. /\ call.vote \in Vote /\ Issued(call.vote) /\ core[n].vote \in Vote
      /\ LastLogId(core[n].log) \in Vote
  BY TypeFacts DEF IInv, VotesSound
<1>3. /\ Adopt(n, call.vote, core[n].log) /\ Answer(call, "mismatch", call.vote)
      /\ AtLeast(call.vote, core[n].vote) /\ core[n].log \in Logs
  BY DEF AnswerMismatch, Logs
<1>4. AtLeast(core[n].vote, LastLogId(core[n].log))
  BY DEF IInv, CoresSound, CoreSound
<1>5. /\ AtLeast(call.vote, LastLogId(core[n].log))
      /\ AtLeast(LastLogId(core[n].log), LastLogId(core[n].log))
  BY <1>2, <1>3, <1>4, VoteOrder
<1>6. /\ Tame(n) /\ GrantsOld(n) /\ StoresOld(n) /\ Rests(n)
      /\ core'[n].receiving \in {core[n].receiving, NoTransfer}
  BY <1>1, <1>2, <1>3, <1>5, AdoptFacts
<1>7. PICK x : CallsTame(x) /\ SameCall(x, call) /\ x.answer = "mismatch"
  BY <1>2, <1>3, AnswerFacts DEF IInv
<1>8. AnswersSafe(x) /\ ChunksQuiet(n, x)
  BY <1>6, <1>7 DEF AnswersSafe, ChunksQuiet, Rests
<1>9. ChunksSound'
  BY <1>6, <1>7, <1>8, TameChunks DEF IInv
<1> QED
  BY <1>1, <1>6, <1>7, <1>8, <1>9, TameInv

LEMMA AnswerAppendKeeps ==
    ASSUME IInv, NEW n \in Nodes, NEW call \in calls, AnswerAppend(n, call)
    PROVE  IInv'
<1>1. /\ call.kind = "append" /\ call.to = n /\ UNCHANGED <<places, chosen, spent>>
      /\ call.vote = core[n].vote => core[n].role \notin Active
  BY Addressee DEF AnswerAppend, Arrives
<1>2. /\ call.vote \in Vote /\ Issued(call.vote) /\ core[n].vote \in Vote
      /\ LastLogId(core[n].log) \in Vote /\ LastLogId(call.log) = call.vote
      /\ call.log \in Log /\ core[n].log \in Log /\ call.vote # NoVote
      /\ LogSound(core[n].log)
  BY <1>1, TypeFacts, RealVotes
     DEF IInv, VotesSound, CallsSound, CallSound, LogsSound, Logs
<1> DEFINE log == IF IsPrefix(call.log, core[n].log) THEN core[n].log ELSE call.log
<1>3. /\ Adopt(n, call.vote, log) /\ Answer(call, "success", call.vote)
      /\ AtLeast(call.vote, core[n].vote) /\ log \in Logs
  BY DEF AnswerAppend, Logs
<1>4. AtLeast(core[n].vote, LastLogId(core[n].log))
  BY DEF IInv, CoresSound, CoreSound
<1>5. AtLeast(call.vote, LastLogId(core[n].log))
  BY <1>2, <1>3, <1>4, VoteOrder
<1>6. /\ AtLeast(call.vote, LastLogId(log)) /\ AtLeast(LastLogId(log), call.vote)
      /\ AtLeast(LastLogId(log), LastLogId(core[n].log))
  <2>1. CASE IsPrefix(call.log, core[n].log)
    <3>1. call.log # <<>>
      BY <1>2, LogType
    <3>2. AtLeast(LastLogId(core[n].log), call.vote)
      BY <1>2, <2>1, <3>1, PrefixLast
    <3> QED
      BY <1>2, <1>5, <2>1, <3>2, VoteOrder
  <2>2. CASE ~IsPrefix(call.log, core[n].log)
    BY <1>2, <1>5, <2>2, VoteOrder
  <2> QED
    BY <2>1, <2>2
<1> HIDE DEF log
<1>7. /\ Tame(n) /\ GrantsOld(n) /\ StoresOld(n) /\ Rests(n)
      /\ core'[n].vote = call.vote /\ core'[n].log = log
      /\ core'[n].receiving \in {core[n].receiving, NoTransfer}
  BY <1>1, <1>2, <1>3, <1>6, AdoptFacts
<1>8. PICK x : CallsTame(x) /\ SameCall(x, call) /\ x.answer = "success"
  BY <1>1, <1>2, <1>3, AnswerFacts DEF IInv
<1>9. AnswersSafe(x) /\ ChunksQuiet(n, x)
  <2>1. /\ AtLeast(call.vote, core[n].vote) /\ AtLeast(core'[n].vote, call.vote)
        /\ AtLeast(LastLogId(core'[n].log), call.vote)
    BY <1>2, <1>3, <1>6, <1>7, VoteOrder
  <2> QED
    BY <1>1, <1>7, <1>8, <2>1 DEF AnswersSafe, ChunksQuiet, SameCall, Rests
<1>10. ChunksSound'
  BY <1>7, <1>8, <1>9, TameChunks DEF IInv
<1> QED
  BY <1>1, <1>7, <1>8, <1>9, <1>10, TameInv

\* A step that only drops calls.
LEMMA DroppedFacts ==
    ASSUME IInv, NEW call \in calls, calls' \subseteq calls,
           \A c \in calls' : c \in Awaited({c}, core')
    PROVE  CallsTame(call) /\ AnswersSafe(call)
BY TypeFacts DEF CallsTame, AnswersSafe, SameCall, IInv, VotesSound

LEMMA LoseKeeps ==
    ASSUME IInv, NEW call \in calls, Lose(call)
    PROVE  IInv'
<1>1. calls' \subseteq calls /\ UNCHANGED <<saved, core, places, chosen, spent>>
  BY DEF Lose
<1>2. \A c \in calls' : c \in Awaited({c}, core')
  BY <1>1 DEF IInv, CallsSound, CallSound
<1>3. CallsTame(call) /\ AnswersSafe(call)
  BY <1>1, <1>2, DroppedFacts
<1>4. call.from \in Nodes
  BY TypeFacts DEF IInv
<1>5. /\ Tame(call.from) /\ GrantsOld(call.from) /\ StoresOld(call.from)
      /\ ChunksQuiet(call.from, call)
  BY <1>1, <1>4, StillFacts DEF ChunksQuiet
<1>6. ChunksSound'
  BY <1>3, <1>4, <1>5, TameChunks DEF IInv
<1> QED
  BY <1>1, <1>3, <1>4, <1>5, <1>6, TameInv

LEMMA LearnVoteKeeps ==
    ASSUME IInv, NEW call \in calls, LearnVote(call)
    PROVE  IInv'
<1> DEFINE m == call.from
<1>1. /\ call.answer = "refused" /\ Adopt(m, call.told, core[m].log)
      /\ calls' = Awaited(calls \ {call}, core') /\ UNCHANGED <<places, chosen, spent>>
  BY DEF LearnVote
<1>2. /\ m \in Nodes /\ call.told \in Vote /\ Issued(call.told) /\ core[m].vote \in Vote
      /\ LastLogId(core[m].log) \in Vote /\ core[m].log \in Logs
  BY TypeFacts DEF IInv, VotesSound, Logs
<1>3. core[m].vote = call.vote /\ Below(call.vote, call.told)
  BY <1>1 DEF IInv, CallsSound, CallSound, Awaited, Positive
<1>4. AtLeast(core[m].vote, LastLogId(core[m].log))
  BY <1>2 DEF IInv, CoresSound, CoreSound
<1>5. /\ call.told # core[m].vote /\ AtLeast(call.told, core[m].vote)
      /\ AtLeast(call.told, LastLogId(core[m].log))
      /\ AtLeast(LastLogId(core[m].log), LastLogId(core[m].log))
  BY <1>2, <1>3, <1>4, VoteOrder
<1> HIDE DEF m
<1>6. /\ Tame(m) /\ GrantsOld(m) /\ StoresOld(m) /\ Rests(m)
      /\ core'[m].receiving \in {core[m].receiving, NoTransfer}
  BY <1>1, <1>2, <1>5, AdoptFacts
<1>7. CallsTame(call) /\ AnswersSafe(call)
  <2>1. calls' \subseteq calls /\ \A c \in calls' : c \in Awaited({c}, core')
    BY <1>1 DEF Awaited
  <2> QED
    BY <2>1, DroppedFacts
<1>8. ChunksQuiet(m, call)
  BY <1>6 DEF ChunksQuiet, Rests
<1>9. ChunksSound'
  BY <1>2, <1>6, <1>7, <1>8, TameChunks DEF IInv
<1> QED
  BY <1>1, <1>2, <1>6, <1>7, <1>9, TameInv

\* A step that sets a node back to what its log.db has.
LEMMA SetBackFacts ==
    ASSUME IInv, NEW n \in Nodes, NEW role \in {"follower", "stopped"},
           core' = [core EXCEPT ![n] =
             [Idle(core[n].vote, core[n].log) EXCEPT !.role = role]],
           saved' = saved, spent' \in Spent, spent'.elections = spent.elections,
           calls' \subseteq calls, \A c \in calls' : c \in Awaited({c}, core'),
           chosen' = chosen
    PROVE  /\ VotesSound' /\ LogsSound' /\ LogsAgree' /\ CoresSound' /\ CallsSound'
           /\ StoredKept' /\ LogsElected' /\ ChosenSound' /\ ChunksSound'
           /\ calls' \subseteq CallType
           /\ \A call \in calls' : call.addr \in had[call.to]
           /\ saved' \in [Nodes -> [vote : Vote, log : Log]]
           /\ core' \in [Nodes -> CoreType] /\ core'[n].role \notin Active
           /\ \A k \in Nodes \ {n} : core'[k] = core[k]
<1> DEFINE y == [Idle(core[n].vote, core[n].log) EXCEPT !.role = role]
<1>1. /\ core \in [Nodes -> CoreType] /\ saved \in [Nodes -> [vote : Vote, log : Log]]
      /\ core[n].vote \in Vote /\ core[n].log \in Log
      /\ LastLogId(core[n].log) \in Vote
  BY Typed, TypeFacts DEF IInv
<1>2. /\ y \in CoreType /\ y.role \notin Active /\ y.vote = core[n].vote
      /\ y.log = core[n].log /\ y.granted = {} /\ y.stored = {}
      /\ y.receiving = NoTransfer
  <2> DEFINE z == Idle(core[n].vote, core[n].log)
  <2>1. /\ z \in CoreType /\ z.vote = core[n].vote /\ z.log = core[n].log
        /\ z.granted = {} /\ z.stored = {} /\ z.receiving = NoTransfer
    BY <1>1, IdleFacts
  <2>2. y = [z EXCEPT !.role = role]
    OBVIOUS
  <2> HIDE DEF z, y
  <2> QED
    BY <2>1, <2>2 DEF CoreType, Active
<1>3. core' = [core EXCEPT ![n] = y]
  OBVIOUS
<1> HIDE DEF y
<1>4. /\ core' \in [Nodes -> CoreType] /\ core'[n] = y
      /\ \A k \in Nodes \ {n} : core'[k] = core[k]
  BY <1>1, <1>2, <1>3
<1>5. /\ CoreSound(n) /\ Issued(core[n].vote) /\ core[n].log \in Logs
      /\ AtLeast(core[n].vote, core[n].vote)
      /\ AtLeast(LastLogId(core[n].log), LastLogId(core[n].log))
  BY <1>1, VoteOrder DEF IInv, CoresSound, VotesSound, Logs
<1>6. /\ Tame(n) /\ GrantsOld(n) /\ StoresOld(n)
  BY <1>1, <1>2, <1>4, <1>5 DEF Tame, GrantsOld, StoresOld, Rests, CoreSound
<1>7. PICK x : CallsTame(x) /\ AnswersSafe(x) /\ x \notin calls' \ calls
  <2>1. CASE calls' = {}
    BY <2>1 DEF CallsTame, AnswersSafe
  <2>2. CASE calls' # {}
    BY <2>2, DroppedFacts
  <2> QED
    BY <2>1, <2>2
<1>8. ChunksQuiet(n, x)
  BY <1>2, <1>4, <1>7 DEF ChunksQuiet
<1>9. ChunksSound'
  BY <1>6, <1>7, <1>8, TameChunks DEF IInv
<1>10. /\ VotesSound' /\ LogsSound' /\ LogsAgree' /\ CoresSound' /\ CallsSound'
       /\ StoredKept' /\ LogsElected' /\ ChosenSound'
       /\ calls' \subseteq CallType
       /\ \A call \in calls' : call.addr \in had[call.to]
  BY <1>6, <1>7, NoCommit, TameCore
<1> QED
  BY <1>1, <1>2, <1>4, <1>9, <1>10

LEMMA StopKeeps ==
    ASSUME IInv, NEW n \in Nodes, Stop(n)
    PROVE  IInv'
<1>1. /\ core' = [core EXCEPT ![n] =
           [Idle(core[n].vote, core[n].log) EXCEPT !.role = "stopped"]]
      /\ calls' = Awaited(calls, core') /\ UNCHANGED <<saved, places, chosen>>
  BY DEF Stop
<1>2. spent' \in Spent /\ spent'.elections = spent.elections
  BY DEF Stop, IInv, VotesSound, Spent
<1>3. calls' \subseteq calls /\ \A c \in calls' : c \in Awaited({c}, core')
  BY <1>1 DEF Awaited
<1>4. /\ VotesSound' /\ LogsSound' /\ LogsAgree' /\ CoresSound' /\ CallsSound'
      /\ StoredKept' /\ LogsElected' /\ ChosenSound' /\ ChunksSound'
      /\ calls' \subseteq CallType
      /\ \A call \in calls' : call.addr \in had[call.to]
      /\ saved' \in [Nodes -> [vote : Vote, log : Log]]
      /\ core' \in [Nodes -> CoreType] /\ core'[n].role \notin Active
      /\ \A k \in Nodes \ {n} : core'[k] = core[k]
  BY <1>1, <1>2, <1>3, SetBackFacts
<1>5. TypeOK'
  BY <1>1, <1>4, Typed DEF IInv, places, TypeOK, CoreType, CallType
<1>6. PlacesSound'
  BY <1>1, <1>4 DEF IInv, PlacesSound, places
<1> QED
  BY <1>4, <1>5, <1>6 DEF IInv

LEMMA RestartKeeps ==
    ASSUME IInv, NEW n \in Nodes, Restart(n)
    PROVE  IInv'
<1>1. /\ core' = [core EXCEPT ![n] = Idle(saved[n].vote, saved[n].log)]
      /\ clients' = [clients EXCEPT ![n] = [k \in Nodes |-> NoAddr]]
      /\ calls' = Awaited(
           {call \in calls : call.addr = addrOf[n] => addrOf'[n] = addrOf[n]}, core')
      /\ UNCHANGED <<saved, chosen>>
  BY DEF Restart
<1>2. spent' \in Spent /\ spent'.elections = spent.elections
  BY DEF Restart, IInv, VotesSound, Spent
<1>3. calls' \subseteq calls /\ \A c \in calls' : c \in Awaited({c}, core')
  BY <1>1 DEF Awaited
<1>4. core' = [core EXCEPT ![n] =
        [Idle(core[n].vote, core[n].log) EXCEPT !.role = "follower"]]
  <2>1. saved[n].vote = core[n].vote /\ saved[n].log = core[n].log
    <3>1. saved[n] = [vote |-> core[n].vote, log |-> core[n].log]
      BY DEF IInv, CoresSound, CoreSound
    <3> QED
      BY <3>1
  <2>2. Idle(core[n].vote, core[n].log)
          = [Idle(core[n].vote, core[n].log) EXCEPT !.role = "follower"]
    BY DEF Idle
  <2> QED
    BY <1>1, <2>1, <2>2
<1>5. /\ VotesSound' /\ LogsSound' /\ LogsAgree' /\ CoresSound' /\ CallsSound'
      /\ StoredKept' /\ LogsElected' /\ ChosenSound' /\ ChunksSound'
      /\ calls' \subseteq CallType
      /\ \A call \in calls' : call.addr \in had[call.to]
      /\ saved' \in [Nodes -> [vote : Vote, log : Log]]
      /\ core' \in [Nodes -> CoreType] /\ core'[n].role \notin Active
      /\ \A k \in Nodes \ {n} : core'[k] = core[k]
  BY <1>1, <1>2, <1>3, <1>4, SetBackFacts
<1>6. PICK addr \in {addrOf[n]} \cup (Addrs \ UNION {had[k] : k \in Nodes}) :
        /\ addrOf' = [addrOf EXCEPT ![n] = addr]
        /\ had' = [had EXCEPT ![n] = @ \cup {addr}]
  BY DEF Restart
<1>7. /\ clients \in [Nodes -> [Nodes -> Addrs \cup {NoAddr}]]
      /\ addrOf \in [Nodes -> Addrs] /\ had \in [Nodes -> SUBSET Addrs]
  BY Typed DEF IInv
<1>8. /\ addrOf' \in [Nodes -> Addrs] /\ addrOf'[n] = addr
      /\ had' \in [Nodes -> SUBSET Addrs] /\ had'[n] = had[n] \cup {addr}
      /\ clients' \in [Nodes -> [Nodes -> Addrs \cup {NoAddr}]]
      /\ \A k \in Nodes : clients'[n][k] = NoAddr
      /\ \A k \in Nodes \ {n} : /\ addrOf'[k] = addrOf[k] /\ had'[k] = had[k]
                               /\ clients'[k] = clients[k]
  BY <1>1, <1>6, <1>7
<1>9. TypeOK'
  BY <1>1, <1>5, <1>8, Typed DEF IInv, TypeOK, CoreType, CallType
<1>10. /\ addrOf[n] \in had[n]
       /\ \A k, m \in Nodes : k # m => had[k] \cap had[m] = {}
       /\ \A m, k \in Nodes : /\ clients[m][k] \in had[k] \cup {NoAddr}
                              /\ core[m].role \in Active /\ m # k
                                   => clients[m][k] # NoAddr
       /\ \A k \in Nodes : addrOf[k] \in had[k]
  BY DEF IInv, PlacesSound
<1>11. \A k \in Nodes : had[k] \subseteq had'[k]
  BY <1>8
<1>12. \A k \in Nodes \ {n} : addr \notin had[k]
  BY <1>10
<1>13. \A k, m \in Nodes : k # m => had'[k] \cap had'[m] = {}
  BY <1>8, <1>10, <1>12
<1>14. PlacesSound'
  <2>1. \A k \in Nodes : addrOf'[k] \in had'[k]
    BY <1>8, <1>10
  <2>2. \A m, k \in Nodes :
          /\ clients'[m][k] \in had'[k] \cup {NoAddr}
          /\ core'[m].role \in Active /\ m # k => clients'[m][k] # NoAddr
    <3> TAKE m, k \in Nodes
    <3>1. CASE m = n
      BY <1>5, <1>8, <3>1
    <3>2. CASE m # n
      <4>1. core'[m] = core[m] /\ clients'[m] = clients[m] /\ had[k] \subseteq had'[k]
        BY <1>5, <1>8, <1>11, <3>2
      <4> QED
        BY <1>10, <4>1
    <3> QED
      BY <3>1, <3>2
  <2>3. \A call \in calls' : call.addr \in had'[call.to]
    BY <1>5, <1>11 DEF CallType
  <2> QED
    BY <1>13, <2>1, <2>2, <2>3 DEF PlacesSound
<1> QED
  BY <1>5, <1>9, <1>14 DEF IInv

\* A transfer goes on where it was, so that the last chunk completes it.
LEMMA ChunkFacts ==
    ASSUME IInv, NEW n \in Nodes, NEW call \in calls, call.kind = "chunk", call.to = n,
           Follows(n, call)
    PROVE  /\ call.chunk \in 0..Chunks - 1
           /\ Received(n, call) \cup {call.chunk} \in SUBSET (0..Chunks - 1)
           /\ 0..call.chunk \subseteq Received(n, call) \cup {call.chunk}
<1>1. call.chunk \in 0..Chunks - 1 /\ core[n].receiving.chunks \subseteq 0..Chunks - 1
  BY TypeFacts DEF IInv, CallType, CoreType
<1>2. Received(n, call) \subseteq 0..Chunks - 1
  BY <1>1 DEF Received
<1>3. CASE core[n].receiving.of = call.vote
  <2>1. 0..call.chunk - 1 \subseteq Received(n, call)
    BY <1>3 DEF IInv, ChunksSound, Received
  <2> QED
    BY <1>1, <1>2, <2>1, NetworkAssumption
<1>4. CASE core[n].receiving.of # call.vote
  <2>1. call.chunk = 0
    BY <1>4 DEF Follows
  <2> QED
    BY <1>1, <1>2, <2>1
<1> QED
  BY <1>3, <1>4

LEMMA ReceivedKeeps ==
    ASSUME IInv, NEW n \in Nodes, Tame(n), Rests(n), NEW call \in calls,
           call.kind = "chunk", call.to = n, Follows(n, call),
           core'[n].receiving = NoTransfer \/
             core'[n].receiving =
               [of |-> call.vote, chunks |-> Received(n, call) \cup {call.chunk}],
           NEW x, CallsTame(x), SameCall(x, call)
    PROVE  ChunksSound'
<1>1. /\ 0..call.chunk \subseteq Received(n, call) \cup {call.chunk}
      /\ call.chunk \in Nat
  BY ChunkFacts
<1>2. ASSUME NEW v, v # NoVote, core'[n].receiving.of = v
      PROVE  /\ v = call.vote
             /\ 0..call.chunk - 1 \subseteq core'[n].receiving.chunks
             /\ call.chunk \in core'[n].receiving.chunks
  BY <1>1, <1>2 DEF NoTransfer
<1>3. \A m \in Nodes : core'[m].role \in Active => m # n /\ core'[m] = core[m]
  BY DEF Tame, Rests
<1>4. ASSUME NEW c \in calls', c.kind = "chunk"
      PROVE  /\ core'[c.from].role = "leader" /\ core'[c.from].vote = c.vote
                  => core'[c.from].sending[c.to] = c.chunk
             /\ core'[c.to].receiving.of = c.vote =>
                  /\ 0..c.chunk - 1 \subseteq core'[c.to].receiving.chunks
                  /\ c.answer = "success" => c.chunk \in core'[c.to].receiving.chunks
  <2>1. PICK d \in calls : SameCall(c, d) /\ (c \in calls => d = c)
    BY OldCall
  <2>2. /\ d.from \in Nodes /\ d.to \in Nodes /\ d.vote # NoVote /\ d.kind = "chunk"
        /\ c.from = d.from /\ c.to = d.to /\ c.vote = d.vote /\ c.chunk = d.chunk
    BY <1>4, <2>1, RealVotes, TypeFacts DEF IInv, SameCall
  <2>3. core'[c.from].role = "leader" /\ core'[c.from].vote = c.vote
          => core'[c.from].sending[c.to] = c.chunk
    BY <1>3, <2>2 DEF Active, IInv, ChunksSound
  <2>4. ASSUME core'[c.to].receiving.of = c.vote, c.to # n
        PROVE  /\ 0..c.chunk - 1 \subseteq core'[c.to].receiving.chunks
               /\ c.answer = "success" => c.chunk \in core'[c.to].receiving.chunks
    <3>1. core'[d.to] = core[d.to] /\ c \in calls
      BY <2>2, <2>4 DEF Tame, CallsTame, SameCall
    <3> QED
      BY <2>1, <2>2, <2>4, <3>1 DEF IInv, ChunksSound
  <2>5. ASSUME core'[c.to].receiving.of = c.vote, c.to = n
        PROVE  /\ 0..c.chunk - 1 \subseteq core'[c.to].receiving.chunks
               /\ c.chunk \in core'[c.to].receiving.chunks
    <3>1. c.vote = call.vote
      BY <1>2, <2>2, <2>5
    <3>2. d = call
      BY <2>2, <2>5, <3>1 DEF IInv, ChunksSound, SameTransfer
    <3> QED
      BY <1>2, <2>2, <2>5, <3>2
  <2> QED
    BY <2>3, <2>4, <2>5
<1>5. ASSUME NEW m \in Nodes, NEW k \in Nodes
      PROVE  /\ core'[m].role = "candidate" => core'[m].sending[k] = 0
             /\ core'[m].role = "leader" /\ core'[k].receiving.of = core'[m].vote =>
                  0..core'[m].sending[k] - 1 \subseteq core'[k].receiving.chunks
  <2>1. core'[m].role = "candidate" => core'[m].sending[k] = 0
    BY <1>3 DEF Active, IInv, ChunksSound
  <2>2. ASSUME core'[m].role = "leader", core'[k].receiving.of = core'[m].vote
        PROVE  0..core'[m].sending[k] - 1 \subseteq core'[k].receiving.chunks
    <3>1. core'[m] = core[m] /\ core[m].vote # NoVote /\ core[m].vote[2] = m
      BY <1>3, <2>2, RealVotes DEF Active, IInv, CoresSound, CoreSound
    <3>2. CASE k # n
      BY <2>2, <3>1, <3>2 DEF Tame, IInv, ChunksSound
    <3>3. CASE k = n
      <4>1. /\ core[m].vote = call.vote
            /\ 0..call.chunk - 1 \subseteq core'[n].receiving.chunks
        BY <1>2, <2>2, <3>1, <3>3
      <4>2. call.from = m
        BY <3>1, <4>1 DEF IInv, VotesSound
      <4>3. core[m].sending[n] = call.chunk
        BY <2>2, <3>1, <4>1, <4>2 DEF IInv, ChunksSound
      <4> QED
        BY <3>1, <3>3, <4>1, <4>3
    <3> QED
      BY <3>2, <3>3
  <2> QED
    BY <2>1, <2>2
<1>6. \A c, d \in calls' : SameTransfer(c, d) => c = d
  BY OneCallEach DEF IInv
<1> QED
  BY <1>4, <1>5, <1>6 DEF ChunksSound, SameTransfer

LEMMA AnswerChunkKeeps ==
    ASSUME IInv, NEW n \in Nodes, NEW call \in calls, AnswerChunk(n, call)
    PROVE  IInv'
<1> DEFINE chunks == Received(n, call) \cup {call.chunk}
           done == call.chunk = Chunks - 1
           log == IF ~done \/ IsPrefix(call.log, core[n].log) THEN core[n].log
                  ELSE call.log
           receiving == IF done THEN NoTransfer
                        ELSE [of |-> call.vote, chunks |-> chunks]
           y == [Idle(call.vote, log) EXCEPT !.receiving = receiving]
<1>1. /\ call.kind = "chunk" /\ call.to = n /\ UNCHANGED <<places, chosen, spent>>
      /\ Follows(n, call) /\ Answer(call, "success", call.vote)
      /\ AtLeast(call.vote, core[n].vote)
  BY Addressee DEF AnswerChunk, Arrives
<1>2. /\ call.vote \in Vote /\ Issued(call.vote) /\ core[n].vote \in Vote
      /\ LastLogId(core[n].log) \in Vote /\ LastLogId(call.log) = call.vote
      /\ call.log \in Log /\ core[n].log \in Log /\ call.vote # NoVote
      /\ LogSound(core[n].log) /\ core[n].log \in Logs /\ call.log \in Logs
  BY <1>1, TypeFacts, RealVotes
     DEF IInv, VotesSound, CallsSound, CallSound, LogsSound, Logs
<1>3. /\ chunks \in SUBSET (0..Chunks - 1) /\ call.chunk \in 0..Chunks - 1
      /\ done => chunks = 0..Chunks - 1
  BY <1>1, ChunkFacts
<1>4. Save(n, call.vote, log) /\ core' = [core EXCEPT ![n] = y]
  BY <1>3 DEF AnswerChunk
<1>5. log \in Log /\ log \in Logs
  BY <1>2
<1>6. AtLeast(core[n].vote, LastLogId(core[n].log))
  BY DEF IInv, CoresSound, CoreSound
<1>7. AtLeast(call.vote, LastLogId(core[n].log))
  BY <1>1, <1>2, <1>6, VoteOrder
<1>8. /\ AtLeast(call.vote, LastLogId(log))
      /\ AtLeast(LastLogId(log), LastLogId(core[n].log))
      /\ done => AtLeast(LastLogId(log), call.vote)
  <2>1. CASE ~done
    BY <1>2, <1>7, <2>1, VoteOrder
  <2>2. CASE done /\ IsPrefix(call.log, core[n].log)
    <3>1. call.log # <<>>
      BY <1>2, LogType
    <3>2. AtLeast(LastLogId(core[n].log), call.vote)
      BY <1>2, <2>2, <3>1, PrefixLast
    <3> QED
      BY <1>2, <1>7, <2>2, <3>2, VoteOrder
  <2>3. CASE done /\ ~IsPrefix(call.log, core[n].log)
    BY <1>2, <1>7, <2>3, VoteOrder
  <2> QED
    BY <2>1, <2>2, <2>3
<1>9. receiving \in [of : Vote, chunks : SUBSET (0..Chunks - 1)]
      /\ (receiving = NoTransfer \/ receiving = [of |-> call.vote, chunks |-> chunks])
  BY <1>2, <1>3, VoteOrder DEF NoTransfer
<1>10. done => receiving = NoTransfer
  OBVIOUS
<1> HIDE DEF chunks, log, receiving
<1>11. /\ y \in CoreType /\ y.vote = call.vote /\ y.log = log /\ y.role \notin Active
       /\ y.granted = {} /\ y.stored = {} /\ y.receiving = receiving
  <2> DEFINE z == Idle(call.vote, log)
  <2>1. /\ z \in CoreType /\ z.vote = call.vote /\ z.log = log
        /\ z.role = "follower" /\ z.granted = {} /\ z.stored = {}
    BY <1>2, <1>5, IdleFacts
  <2>2. y = [z EXCEPT !.receiving = receiving]
    OBVIOUS
  <2> HIDE DEF z, y
  <2> QED
    BY <1>9, <2>1, <2>2 DEF CoreType, Active
<1> HIDE DEF y, done
<1>12. /\ core \in [Nodes -> CoreType] /\ saved \in [Nodes -> [vote : Vote, log : Log]]
       /\ spent' \in Spent /\ spent' = spent
  BY <1>1, Typed DEF IInv, VotesSound
<1>13. /\ core' \in [Nodes -> CoreType] /\ core'[n] = y
       /\ \A k \in Nodes \ {n} : core'[k] = core[k]
  BY <1>4, <1>11, <1>12
<1>14. /\ saved' \in [Nodes -> [vote : Vote, log : Log]]
       /\ saved'[n] = [vote |-> call.vote, log |-> log]
       /\ \A k \in Nodes \ {n} : saved'[k] = saved[k]
  BY <1>2, <1>4, <1>5, <1>12 DEF Save
<1>15. Rests(n)
  BY <1>11, <1>13 DEF Rests
<1>16. Tame(n) /\ GrantsOld(n) /\ StoresOld(n)
  BY <1>1, <1>2, <1>5, <1>8, <1>11, <1>12, <1>13, <1>14, <1>15
     DEF Tame, GrantsOld, StoresOld, Rests
<1>17. PICK x : CallsTame(x) /\ SameCall(x, call) /\ x.answer = "success"
  BY <1>1, <1>2, AnswerFacts DEF IInv
<1>18. AnswersSafe(x)
  <2>1. /\ AtLeast(core'[n].vote, call.vote)
        /\ done => AtLeast(LastLogId(core'[n].log), call.vote)
    BY <1>2, <1>8, <1>11, <1>13, VoteOrder
  <2>2. Whole(x) => done
    BY <1>1, <1>17 DEF Whole, SameCall, done
  <2> QED
    BY <1>1, <1>17, <2>1, <2>2 DEF AnswersSafe, SameCall
<1>19. ChunksSound'
  BY <1>1, <1>9, <1>11, <1>13, <1>15, <1>16, <1>17, ReceivedKeeps DEF chunks
<1> QED
  BY <1>1, <1>16, <1>17, <1>18, <1>19, TameInv

\* A yes is counted by the node that asked and under the vote it asked with.
LEMMA CountedFacts ==
    ASSUME IInv, NEW call \in calls, Positive(call)
    PROVE  /\ call.from \in Nodes /\ call.to \in Nodes
           /\ core[call.from].vote = call.vote
           /\ call.kind = "vote" => /\ core[call.from].role = "candidate"
                                   /\ call.answer = "granted"
                                   /\ call.log = core[call.from].log
                                   /\ AtLeast(core[call.to].vote, call.vote)
           /\ call.kind # "vote" => /\ core[call.from].role = "leader"
                                   /\ call.answer = "success"
<1>1. call.from \in Nodes /\ call.to \in Nodes
  BY TypeFacts DEF IInv
<1>2. CallSound(call) /\ call.answer \in {"granted", "success"}
  BY DEF IInv, CallsSound, Positive
<1>3. core[call.from].vote = call.vote
      /\ core[call.from].role = IF call.kind = "vote" THEN "candidate" ELSE "leader"
  BY <1>2 DEF CallSound, Awaited
<1> QED
  BY <1>1, <1>2, <1>3 DEF CallSound

\* A step in which a node goes on under its vote and with its log.
LEMMA HoldFacts ==
    ASSUME IInv, NEW m \in Nodes, NEW y \in CoreType, core' = [core EXCEPT ![m] = y],
           saved' = saved, spent' = spent,
           y.role = core[m].role, y.vote = core[m].vote, y.log = core[m].log,
           \A k \in y.granted : AtLeast(core[k].vote, core[m].vote),
           core[m].role \notin Active => y.granted = {},
           IF core[m].role = "leader" THEN core[m].stored \subseteq y.stored
                                      ELSE y.stored = {}
    PROVE  /\ Tame(m) /\ core' \in [Nodes -> CoreType] /\ core'[m] = y
           /\ \A k \in Nodes \ {m} : core'[k] = core[k]
           /\ \A k \in Nodes : /\ core'[k].role = core[k].role
                              /\ core'[k].vote = core[k].vote
                              /\ core'[k].log = core[k].log
           /\ \A c \in calls : c \in Awaited({c}, core')
<1>1. /\ core \in [Nodes -> CoreType] /\ saved \in [Nodes -> [vote : Vote, log : Log]]
      /\ spent \in Spent
  BY Typed DEF IInv, VotesSound
<1>2. /\ core' \in [Nodes -> CoreType] /\ core'[m] = y
      /\ \A k \in Nodes \ {m} : core'[k] = core[k]
  BY <1>1
<1>3. \A k \in Nodes : /\ core'[k].role = core[k].role
                     /\ core'[k].vote = core[k].vote
                     /\ core'[k].log = core[k].log
  BY <1>2
<1>4. CoreSound(m) /\ Issued(core[m].vote) /\ core[m].log \in Logs
  BY DEF IInv, CoresSound, VotesSound, Logs
<1>5. AtLeast(core[m].vote, core[m].vote)
      /\ AtLeast(LastLogId(core[m].log), LastLogId(core[m].log))
  BY VoteOrder, TypeFacts DEF IInv
<1>6. Holds(m)
  BY <1>2 DEF Holds
<1>7. Tame(m)
  BY <1>1, <1>2, <1>3, <1>4, <1>5, <1>6 DEF Tame, CoreSound
<1>8. ASSUME NEW c \in calls
      PROVE  c \in Awaited({c}, core')
  <2>1. c \in Awaited({c}, core) /\ c.from \in Nodes
    BY TypeFacts DEF IInv, CallsSound, CallSound
  <2> QED
    BY <1>3, <2>1 DEF Awaited
<1> QED
  BY <1>2, <1>3, <1>7, <1>8

LEMMA CountChunkKeeps ==
    ASSUME IInv, NEW call \in calls, CountChunk(call)
    PROVE  IInv'
<1> DEFINE m == call.from
           k == call.to
           sending == [core[m].sending EXCEPT ![k] = call.chunk + 1]
           y == [core[m] EXCEPT !.sending = sending]
<1>1. /\ call.kind = "chunk" /\ Positive(call) /\ call.chunk < Chunks - 1
      /\ calls' = calls \ {call} /\ UNCHANGED <<saved, places, chosen, spent>>
  BY DEF CountChunk
<1>2. /\ m \in Nodes /\ k \in Nodes /\ core[m].role = "leader"
      /\ core[m].vote = call.vote /\ call.answer = "success"
  BY <1>1, CountedFacts
<1>3. /\ core[m] \in CoreType /\ call.chunk \in 0..Chunks - 1
      /\ CoreSound(m) /\ core \in [Nodes -> CoreType]
  BY <1>2, Typed, TypeFacts DEF IInv, CallType, CoresSound
<1>4. core' = [core EXCEPT ![m] = y]
  BY <1>2, <1>3 DEF CountChunk
<1>5. /\ sending \in [Nodes -> 0..Chunks - 1] /\ sending[k] = call.chunk + 1
      /\ \A n \in Nodes \ {k} : sending[n] = core[m].sending[n]
  <2>1. core[m].sending \in [Nodes -> 0..Chunks - 1]
    BY <1>3 DEF CoreType
  <2>2. call.chunk + 1 \in 0..Chunks - 1
    BY <1>1, <1>3, NetworkAssumption
  <2> QED
    BY <1>2, <2>1, <2>2
<1> HIDE DEF sending, m, k
<1>6. /\ y \in CoreType /\ y.role = core[m].role /\ y.vote = core[m].vote
      /\ y.log = core[m].log /\ y.granted = core[m].granted
      /\ y.stored = core[m].stored /\ y.receiving = core[m].receiving
      /\ y.sending = sending
  BY <1>3, <1>5 DEF CoreType
<1> HIDE DEF y
<1>7. /\ Tame(m) /\ core'[m] = y /\ \A n \in Nodes \ {m} : core'[n] = core[n]
      /\ \A c \in calls : c \in Awaited({c}, core')
  BY <1>1, <1>2, <1>3, <1>4, <1>6, HoldFacts DEF CoreSound, Active
<1>8. GrantsOld(m) /\ StoresOld(m)
  BY <1>6, <1>7 DEF GrantsOld, StoresOld
<1>9. CallsTame(call) /\ AnswersSafe(call)
  BY <1>1, <1>7, DroppedFacts
<1>10. /\ \A n \in Nodes : /\ core'[n].role = core[n].role
                         /\ core'[n].vote = core[n].vote
                         /\ core'[n].receiving = core[n].receiving
       /\ \A n, j \in Nodes : n # m \/ j # k => core'[n].sending[j] = core[n].sending[j]
       /\ core'[m].sending[k] = call.chunk + 1
  BY <1>2, <1>5, <1>6, <1>7
<1>11. ChunksSound'
  <2>1. \A c, d \in calls' : SameTransfer(c, d) => c = d
    BY <1>9, OneCallEach DEF IInv
  <2>2. ASSUME NEW c \in calls', c.kind = "chunk"
        PROVE  /\ core'[c.from].role = "leader" /\ core'[c.from].vote = c.vote
                    => core'[c.from].sending[c.to] = c.chunk
               /\ core'[c.to].receiving.of = c.vote =>
                    /\ 0..c.chunk - 1 \subseteq core'[c.to].receiving.chunks
                    /\ c.answer = "success" => c.chunk \in core'[c.to].receiving.chunks
    <3>1. c \in calls /\ c # call /\ c.from \in Nodes /\ c.to \in Nodes
      BY <1>1, TypeFacts DEF IInv
    <3>2. core[c.from].vote = c.vote => c.from # m \/ c.to # k
      BY <1>1, <1>2, <2>2, <3>1 DEF IInv, ChunksSound, SameTransfer, k
    <3> QED
      BY <1>10, <2>2, <3>1, <3>2 DEF IInv, ChunksSound
  <2>3. ASSUME NEW n \in Nodes, NEW j \in Nodes
        PROVE  /\ core'[n].role = "candidate" => core'[n].sending[j] = 0
               /\ core'[n].role = "leader" /\ core'[j].receiving.of = core'[n].vote =>
                    0..core'[n].sending[j] - 1 \subseteq core'[j].receiving.chunks
    <3>1. CASE n # m \/ j # k
      BY <1>10, <3>1 DEF IInv, ChunksSound
    <3>2. CASE n = m /\ j = k
      <4>1. core[k].receiving.of = call.vote =>
              /\ 0..call.chunk - 1 \subseteq core[k].receiving.chunks
              /\ call.chunk \in core[k].receiving.chunks
        BY <1>1, <1>2 DEF IInv, ChunksSound, k
      <4>2. core[k].receiving.of = call.vote =>
              0..(call.chunk + 1) - 1 \subseteq core[k].receiving.chunks
        BY <1>3, <4>1
      <4> QED
        BY <1>2, <1>10, <3>2, <4>2
    <3> QED
      BY <3>1, <3>2
  <2> QED
    BY <2>1, <2>2, <2>3 DEF ChunksSound, SameTransfer
<1> QED
  BY <1>1, <1>2, <1>7, <1>8, <1>9, <1>11, TameInv

LEMMA GrantKeeps ==
    ASSUME IInv, NEW call \in calls, CountGrant(call),
           ~Quorum(core[call.from].granted \cup {call.to})
    PROVE  IInv'
<1> DEFINE m == call.from
           granted == core[m].granted \cup {call.to}
           y == [core[m] EXCEPT !.granted = granted]
<1>1. /\ call.kind = "vote" /\ Positive(call) /\ calls' = Awaited(calls \ {call}, core')
      /\ UNCHANGED <<saved, places, chosen, spent>>
  BY DEF CountGrant
<1>2. /\ m \in Nodes /\ call.to \in Nodes /\ core[m].role = "candidate"
      /\ core[m].vote = call.vote /\ call.answer = "granted"
      /\ call.log = core[m].log /\ AtLeast(core[call.to].vote, call.vote)
  BY <1>1, CountedFacts
<1>3. core[m] \in CoreType /\ CoreSound(m) /\ core \in [Nodes -> CoreType]
  BY <1>2, Typed, TypeFacts DEF IInv, CoresSound
<1>4. core' = [core EXCEPT ![m] = y]
  BY <1>2, <1>3 DEF CountGrant
<1>5. /\ granted \in SUBSET Nodes
      /\ \A k \in granted : AtLeast(core[k].vote, core[m].vote)
  BY <1>2, <1>3 DEF CoreType, CoreSound
<1> HIDE DEF m
<1>6. /\ y \in CoreType /\ y.role = core[m].role /\ y.vote = core[m].vote
      /\ y.log = core[m].log /\ y.granted = granted
      /\ y.stored = core[m].stored /\ y.receiving = core[m].receiving
      /\ y.sending = core[m].sending
  BY <1>3, <1>5 DEF CoreType
<1> HIDE DEF y
<1>7. /\ Tame(m) /\ core'[m] = y /\ \A c \in calls : c \in Awaited({c}, core')
  BY <1>1, <1>2, <1>3, <1>4, <1>5, <1>6, HoldFacts DEF CoreSound, Active
<1>8. GrantsOld(m) /\ StoresOld(m)
  <2>1. Granted(call.to, core[m].vote, LastLogId(core[m].log))
    BY <1>2 DEF Granted
  <2> QED
    BY <1>6, <1>7, <2>1 DEF GrantsOld, StoresOld
<1>9. CallsTame(call) /\ AnswersSafe(call)
  <2>1. calls' \subseteq calls
    BY <1>1 DEF Awaited
  <2> QED
    BY <1>7, <2>1, DroppedFacts
<1>10. ChunksQuiet(m, call)
  BY <1>1, <1>6, <1>7 DEF ChunksQuiet
<1>11. ChunksSound'
  BY <1>2, <1>7, <1>9, <1>10, TameChunks DEF IInv
<1> QED
  BY <1>1, <1>2, <1>7, <1>8, <1>9, <1>11, TameInv

LEMMA ReplicateKeeps ==
    ASSUME IInv, NEW m \in Nodes, NEW n \in Nodes, Replicate(m, n)
    PROVE  IInv'
<1> DEFINE r == Request(IF n \in Behind THEN "chunk" ELSE "append", m, n, clients[m],
                        core[m].vote, core[m].log, core[m].sending[n])
<1>1. /\ core[m].role = "leader" /\ n \notin core[m].stored /\ calls' = calls \cup {r}
      /\ UNCHANGED <<saved, core, places, chosen, spent>>
      /\ \A c \in calls :
           c.from = m /\ c.to = n => c.vote # core[m].vote \/ c.kind = "vote"
  BY DEF Replicate
<1>2. /\ CoreSound(m) /\ Issued(core[m].vote) /\ core[m].log \in Logs
      /\ core[m] \in CoreType /\ core[m].vote \in Vote /\ core[m].log \in Log
  BY TypeFacts DEF IInv, CoresSound, VotesSound, Logs
<1>3. /\ n # m /\ core[m].vote[2] = m /\ LastLogId(core[m].log) = core[m].vote
      /\ core[m].role \in Active
  BY <1>1, <1>2 DEF CoreSound, Active
<1>4. clients[m][n] \in had[n] /\ had[n] \subseteq Addrs
  BY <1>3, Typed DEF IInv, PlacesSound
<1>5. /\ r.kind \in {"append", "chunk"} /\ r.from = m /\ r.to = n
      /\ r.addr = clients[m][n] /\ r.vote = core[m].vote /\ r.log = core[m].log
      /\ r.chunk = core[m].sending[n] /\ r.answer = "none" /\ r.told = NoVote
  BY DEF Request
<1>6. r \in CallType
  <2>1. core[m].sending[n] \in 0..Chunks - 1 /\ NoVote \in Vote
    BY <1>2, VoteOrder DEF CoreType
  <2> QED
    BY <1>2, <1>4, <2>1 DEF CallType, Request
<1> HIDE DEF r
<1>7. Tame(m)
  BY <1>1, StillFacts
<1>8. Logs' \subseteq Logs
  BY <1>1, <1>2, <1>5 DEF Logs
<1>9. LogsSound' /\ LogsAgree' /\ CoresSound' /\ \A k \in Nodes : Issued(core[k].vote)'
  BY <1>7, <1>8, TameKeeps DEF IInv
<1>10. StoredKept' /\ LogsElected' /\ ChosenSound'
  <2>1. Rising
    BY <1>1, VoteOrder, TypeFacts, Typed DEF IInv, Rising
  <2>2. \A k \in Nodes, v, w \in Vote : Granted(k, v, w)' => Granted(k, v, w)
    BY <1>1, <1>5 DEF Granted
  <2>3. \A u \in Vote, k \in Nodes : StoredAt(u, k)' => StoredAt(u, k)
    BY <1>1, <1>5 DEF StoredAt
  <2>4. SafeStep
    BY <2>1, <2>2, <2>3 DEF SafeStep, GrantsFrom
  <2> QED
    BY <1>1, <1>8, <2>4, NoCommit, ChosenSafe
<1>11. TypeOK'
  BY <1>1, <1>6, Typed DEF IInv, places, TypeOK, CoreType, CallType
<1>12. PlacesSound'
  BY <1>1, <1>4, <1>5 DEF IInv, PlacesSound, places
<1>13. VotesSound'
  <2>1. Issued(r.vote) /\ Issued(r.told) /\ r.vote[2] = r.from /\ r.from # r.to
    BY <1>2, <1>3, <1>5 DEF Issued
  <2> QED
    BY <1>1, <2>1 DEF IInv, VotesSound, Issued
<1>14. CallsSound'
  <2>1. CallSound(r)
    BY <1>3, <1>5 DEF CallSound, Awaited
  <2>2. \A c \in calls' : CallSound(c)
    BY <1>1, <2>1 DEF IInv, CallsSound
  <2>3. \A c \in calls' : CallSound(c)'
    BY <1>1, <2>2 DEF CallSound, Awaited
  <2> QED
    BY <2>3 DEF CallsSound
<1>15. ChunksSound'
  <2>1. ASSUME NEW c \in calls, c.kind # "vote", c.vote = r.vote, c.to = r.to
        PROVE  FALSE
    <3>1. c.from = m
      BY <1>3, <1>5, <2>1 DEF IInv, VotesSound
    <3> QED
      BY <1>1, <1>5, <2>1, <3>1
  <2>2. \A c, d \in calls' : SameTransfer(c, d) => c = d
    <3> TAKE c, d \in calls'
    <3> HAVE SameTransfer(c, d)
    <3>1. CASE c \in calls /\ d \in calls
      BY <3>1 DEF IInv, ChunksSound
    <3>2. CASE c = r /\ d \in calls
      BY <2>1, <3>2 DEF SameTransfer
    <3>3. CASE c \in calls /\ d = r
      BY <2>1, <3>3 DEF SameTransfer
    <3> QED
      BY <1>1, <3>1, <3>2, <3>3
  <2>3. core[n].receiving.of = r.vote => 0..r.chunk - 1 \subseteq core[n].receiving.chunks
    BY <1>1, <1>5 DEF IInv, ChunksSound
  <2>4. \A c \in calls' : c.kind = "chunk" =>
          /\ core[c.from].role = "leader" /\ core[c.from].vote = c.vote
               => core[c.from].sending[c.to] = c.chunk
          /\ core[c.to].receiving.of = c.vote =>
               /\ 0..c.chunk - 1 \subseteq core[c.to].receiving.chunks
               /\ c.answer = "success" => c.chunk \in core[c.to].receiving.chunks
    <3> TAKE c \in calls'
    <3>1. CASE c = r
      BY <1>5, <2>3, <3>1
    <3>2. CASE c \in calls
      BY <3>2 DEF IInv, ChunksSound
    <3> QED
      BY <1>1, <3>1, <3>2
  <2> QED
    BY <1>1, <2>2, <2>4 DEF IInv, ChunksSound, SameTransfer
<1> QED
  BY <1>9, <1>10, <1>11, <1>12, <1>13, <1>14, <1>15 DEF IInv

LEMMA InitSound == Init => IInv
<1> SUFFICES ASSUME Init
             PROVE  IInv
  OBVIOUS
<1>1. NoVote \in Vote /\ <<>> \in Log /\ LastLogId(<<>>) = NoVote
      /\ AtLeast(NoVote, NoVote)
  BY VoteOrder, LogType
<1> DEFINE y == Idle(NoVote, <<>>)
<1>2. /\ y \in CoreType /\ y.role = "follower" /\ y.vote = NoVote /\ y.log = <<>>
      /\ y.granted = {} /\ y.stored = {} /\ y.receiving = NoTransfer
  BY <1>1, IdleFacts
<1> HIDE DEF y
<1>3. /\ core \in [Nodes -> CoreType] /\ \A n \in Nodes : core[n] = y
      /\ calls = {} /\ chosen = {}
  BY <1>2 DEF Init, y
<1>4. TypeOK
  <2>1. /\ saved \in [Nodes -> [vote : Vote, log : Log]]
        /\ clients \in [Nodes -> [Nodes -> Addrs \cup {NoAddr}]]
    BY <1>1 DEF Init
  <2>2. addrOf \in [Nodes -> Addrs] /\ had \in [Nodes -> SUBSET Addrs]
    BY NetworkAssumption DEF Init
  <2> QED
    BY <1>3, <2>1, <2>2, Typed
<1>5. PlacesSound
  <2>1. \A m, n \in Nodes : m # n => had[m] \cap had[n] = {}
    BY NetworkAssumption DEF Init
  <2>2. \A m, n \in Nodes : clients[m][n] = NoAddr /\ core[m].role \notin Active
    BY <1>2, <1>3 DEF Init, Active
  <2>3. \A n \in Nodes : addrOf[n] \in had[n]
    BY NetworkAssumption DEF Init
  <2> QED
    BY <1>3, <2>1, <2>2, <2>3 DEF PlacesSound
<1>6. VotesSound
  BY <1>2, <1>3, NetworkAssumption DEF Init, VotesSound, Issued, Spent
<1>7. Logs \subseteq {<<>>}
  BY <1>2, <1>3 DEF Logs
<1>8. LogsSound /\ LogsAgree /\ LogsElected
  <2>1. DOMAIN <<>> = {}
    OBVIOUS
  <2> QED
    BY <1>7, <2>1 DEF LogsSound, LogsAgree, LogsElected, LogSound, Agree
<1>9. CoresSound
  <2> SUFFICES ASSUME NEW n \in Nodes
               PROVE  CoreSound(n)
    BY DEF CoresSound
  <2>1. saved[n] = [vote |-> NoVote, log |-> <<>>]
    BY DEF Init
  <2> QED
    BY <1>1, <1>2, <1>3, <2>1 DEF CoreSound, Active
<1>10. CallsSound /\ ChunksSound
  BY <1>2, <1>3 DEF CallsSound, ChunksSound
<1>11. StoredKept /\ ChosenSound
  BY <1>2, <1>3 DEF StoredKept, StoredAt, ChosenSound
<1> QED
  BY <1>4, <1>5, <1>6, <1>8, <1>9, <1>10, <1>11 DEF IInv

LEMMA LeastExists ==
    ASSUME NEW S \in SUBSET Nat, S # {}
    PROVE  \E i \in S : \A j \in S : i <= j
<1>1. PICK i \in S : \A j \in S : ~(<<j, i>> \in OpToRel(<, Nat))
  BY NatLessThanWellFounded, WFMin, Zenon
<1>2. \A j \in S : ~(j < i)
  BY <1>1 DEF OpToRel
<1> QED
  BY <1>2

\* What a quorum stores may be committed: the first entry of a log that comes
\* after it, or is it, is it, since the leader of a later one had it.
LEMMA QuorumStores ==
    ASSUME IInv, NEW m \in Nodes, core[m].role = "leader",
           NEW stored \in SUBSET Nodes, Quorum(stored),
           \A n \in stored : StoredAt(core[m].vote, n),
           NEW c, c.vote = core[m].vote, c.log = core[m].log
    PROVE  Committable(c)
<1> DEFINE u == core[m].vote
<1>1. /\ u \in Vote /\ u # NoVote /\ core[m].log \in Log /\ core[m].log \in Logs
      /\ LastLogId(core[m].log) = u
  BY TypeFacts, RealVotes DEF IInv, CoresSound, CoreSound, Logs, Active
<1>2. core[m].log # <<>>
  BY <1>1, LogType
<1>3. \A n \in stored : Kept(u, n)
  BY <1>1 DEF IInv, StoredKept
<1> HIDE DEF u
<1>4. ASSUME NEW log \in Logs, AtLeast(LastLogId(log), u)
      PROVE  IsPrefix(core[m].log, log)
  <2> DEFINE S == {i \in DOMAIN log : AtLeast(log[i], u)}
  <2>1. log \in Log /\ log \in Seq(Vote)
    BY <1>4, TypeFacts, LogType DEF IInv
  <2>2. log # <<>>
    BY <1>1, <1>4, VoteOrder, LogType
  <2>3. S \in SUBSET Nat /\ S # {}
    BY <1>4, <2>1, <2>2, LogType
  <2>4. PICK i \in S : \A j \in S : i <= j
    BY <2>3, LeastExists
  <2> HIDE DEF S
  <2>5. /\ i \in DOMAIN log /\ i \in Nat \ {0} /\ log[i] \in Vote /\ AtLeast(log[i], u)
        /\ i > 1 => i - 1 \in DOMAIN log
    BY <2>1, <2>4 DEF S
  <2>6. i > 1 => ~AtLeast(log[i - 1], u)
    BY <2>4, <2>5 DEF S
  <2>7. CASE log[i] = u
    <3>1. Agree(core[m].log, log)
      BY <1>1, <1>4 DEF IInv, LogsAgree
    <3> QED
      BY <1>1, <1>2, <2>1, <2>5, <2>7, <3>1, AgreeFacts
  <2>8. CASE log[i] # u
    <3>1. Below(u, log[i])
      BY <1>1, <2>5, <2>8, VoteOrder
    <3>2. PICK nodes \in SUBSET Nodes : Quorum(nodes) /\ ElectedAt(log, i, nodes)
      BY <1>4, <2>5 DEF IInv, LogsElected
    <3>3. PICK n \in nodes : n \in stored
      BY <3>2, QuorumsMeet
    <3>4. StoredAt(u, n)
      BY <3>3 DEF u
    <3>5. i > 1 /\ AtLeast(log[i - 1], u)
      BY <1>1, <3>1, <3>2, <3>3, <3>4 DEF ElectedAt
    <3> QED
      BY <2>6, <3>5
  <2> QED
    BY <2>7, <2>8
<1> QED
  BY <1>1, <1>2, <1>3, <1>4 DEF Committable, u

LEMMA CountStoredKeeps ==
    ASSUME IInv, NEW call \in calls, CountStored(call)
    PROVE  IInv'
<1> DEFINE m == call.from
           stored == core[m].stored \cup {call.to}
           y == [core[m] EXCEPT !.stored = stored]
           c == [vote |-> call.vote, log |-> core[m].log]
<1>1. /\ call.kind # "vote" /\ Whole(call) /\ Positive(call) /\ calls' = calls \ {call}
      /\ UNCHANGED <<saved, places, spent>>
      /\ chosen' = IF Quorum(stored) THEN chosen \cup {c} ELSE chosen
  BY DEF CountStored, Whole
<1>2. /\ m \in Nodes /\ call.to \in Nodes /\ core[m].role = "leader"
      /\ core[m].vote = call.vote /\ call.answer = "success"
  BY <1>1, CountedFacts
<1>3. core[m] \in CoreType /\ CoreSound(m) /\ core \in [Nodes -> CoreType]
  BY <1>2, Typed, TypeFacts DEF IInv, CoresSound
<1>4. core' = [core EXCEPT ![m] = y]
  BY <1>2, <1>3 DEF CountStored
<1>5. stored \in SUBSET Nodes /\ core[m].stored \subseteq stored
  BY <1>2, <1>3 DEF CoreType
<1>6. \A k \in stored : StoredAt(core[m].vote, k)
  BY <1>1, <1>2 DEF StoredAt
<1> HIDE DEF m, stored
<1>7. /\ y \in CoreType /\ y.role = core[m].role /\ y.vote = core[m].vote
      /\ y.log = core[m].log /\ y.granted = core[m].granted
      /\ y.stored = stored /\ y.receiving = core[m].receiving
      /\ y.sending = core[m].sending
  BY <1>3, <1>5 DEF CoreType
<1> HIDE DEF y
<1>8. /\ Tame(m) /\ core'[m] = y /\ \A d \in calls : d \in Awaited({d}, core')
  BY <1>1, <1>2, <1>3, <1>4, <1>5, <1>7, HoldFacts DEF CoreSound, Active
<1>9. GrantsOld(m) /\ StoresOld(m)
  BY <1>6, <1>7, <1>8 DEF GrantsOld, StoresOld
<1>10. CallsTame(call) /\ AnswersSafe(call)
  BY <1>1, <1>8, DroppedFacts
<1>11. ChunksQuiet(m, call)
  BY <1>7, <1>8 DEF ChunksQuiet
<1>12. ChunksSound'
  BY <1>2, <1>8, <1>10, <1>11, TameChunks DEF IInv
<1>13. CommitsSound
  <2>1. /\ c \in [vote : Vote, log : Log] /\ c.log \in Logs
        /\ c.vote = core[m].vote /\ c.log = core[m].log
    BY <1>2, TypeFacts DEF IInv, Logs
  <2>2. Quorum(stored) => Committable(c)
    BY <1>2, <1>5, <1>6, <2>1, QuorumStores
  <2> HIDE DEF c
  <2> QED
    BY <1>1, <2>1, <2>2, Typed DEF IInv, ChosenSound, CommitsSound, Logs
<1> QED
  BY <1>1, <1>2, <1>8, <1>9, <1>10, <1>12, <1>13, TameCommits

\* The vote of a candidate is in no log: it is no leader's yet.
LEMMA NoEntryYet ==
    ASSUME IInv, NEW m \in Nodes, core[m].role = "candidate",
           NEW log \in Logs, NEW i \in DOMAIN log
    PROVE  log[i] # core[m].vote
<1>1. core[m].vote[2] = m
  BY DEF IInv, CoresSound, CoreSound, Active
<1>2. core[log[i][2]].vote = log[i] => core[log[i][2]].role # "candidate"
  BY DEF IInv, LogsSound, LogSound
<1> QED
  BY <1>1, <1>2

LEMMA LengthBound ==
    ASSUME NEW log \in Log, LogSound(log), log # <<>>
    PROVE  LastLogId(log)[1] >= Len(log) /\ Issued(LastLogId(log))
BY LogType DEF LogSound

\* The log of an elected leader.
LEMMA WonLog ==
    ASSUME IInv, NEW m \in Nodes, core[m].role = "candidate",
           NEW old, old = core[m].log, NEW v, v = core[m].vote
    PROVE  /\ Append(old, v) \in Log /\ v[1] \in Int /\ v[1] >= Len(old) + 1
           /\ \A i \in DOMAIN old : old[i][1] < v[1]
<1>1. /\ old \in Log /\ v \in Vote /\ v # NoVote /\ Issued(v) /\ LogSound(old)
      /\ old \in Seq(Vote) /\ LastLogId(old) \in Vote
  BY TypeFacts, RealVotes, LogType
     DEF IInv, VotesSound, LogsSound, Logs, Active
<1>2. v[1] \in 1..MaxElections /\ spent.elections \in 0..MaxElections
  BY <1>1, NetworkAssumption DEF Issued, Spent, IInv, VotesSound, Vote
<1>3. LastLogId(old)[1] < v[1]
  BY DEF IInv, CoresSound, CoreSound
<1>4. \A u \in Vote : u[1] \in Int
  BY DEF Vote
<1>5. v[1] >= Len(old) + 1
  <2>1. CASE old = <<>>
    BY <1>2, <2>1
  <2>2. CASE old # <<>>
    BY <1>1, <1>2, <1>3, <1>4, <2>2, LengthBound
  <2> QED
    BY <2>1, <2>2
<1>6. Append(old, v) \in Log
  <2>1. /\ Append(old, v) \in Seq(Vote)
        /\ Len(Append(old, v)) = Len(old) + 1 /\ Len(old) \in Nat
    BY <1>1
  <2>2. Len(Append(old, v)) <= MaxElections
    BY <1>2, <1>5, <2>1, NetworkAssumption
  <2> QED
    BY <2>1, <2>2, LogType
<1>7. ASSUME NEW i \in DOMAIN old
      PROVE  old[i][1] < v[1]
  <2>1. /\ old # <<>> /\ Len(old) \in DOMAIN old /\ LastLogId(old) = old[Len(old)]
        /\ i \in 1..Len(old) /\ old[i] \in Vote
    <3>1. old # <<>>
      BY <1>1
    <3> QED
      BY <1>1, <3>1, LogType
  <2>2. CASE i = Len(old)
    BY <1>3, <2>1, <2>2
  <2>3. CASE i # Len(old)
    <3>1. old[i][1] < old[Len(old)][1]
      BY <1>1, <2>1, <2>3 DEF LogSound
    <3> QED
      BY <1>1, <1>2, <1>3, <1>4, <2>1, <3>1
  <2> QED
    BY <2>2, <2>3
<1> QED
  BY <1>2, <1>5, <1>6, <1>7

\* The new entry keeps the terms rising, and is in no other log.
LEMMA WonLogSound ==
    ASSUME IInv, NEW m \in Nodes, core[m].role = "candidate",
           Forward, core'[m].vote = core[m].vote, core'[m].role = "leader",
           NEW old, old = core[m].log, NEW v, v = core[m].vote,
           NEW log, log = Append(old, v)
    PROVE  /\ LogSound(log)' /\ Agree(log, log)
           /\ \A other \in Logs : Agree(log, other) /\ Agree(other, log)
<1> DEFINE k == Len(old) + 1
<1>1. /\ old \in Log /\ v \in Vote /\ Issued(v) /\ LogSound(old) /\ old \in Logs
      /\ old \in Seq(Vote) /\ v[2] = m
  BY TypeFacts, LogType DEF IInv, VotesSound, LogsSound, Logs, CoresSound, CoreSound, Active
<1>2. /\ log \in Log /\ v[1] \in Int /\ v[1] >= k
      /\ \A i \in DOMAIN old : old[i][1] < v[1]
  BY WonLog
<1>3. /\ LogSound(old)' /\ Issued(v)'
  BY <1>1, LogForward, IssuedForward DEF IInv
<1>4. \A other \in Logs : \A i \in DOMAIN other : other[i] # v
  BY NoEntryYet
<1>5. core'[v[2]].role # "candidate"
  BY <1>1
<1>6. /\ DOMAIN old = 1..Len(old) /\ Len(old) \in Nat /\ DOMAIN log = 1..k /\ log[k] = v
      /\ \A i \in 1..Len(old) : log[i] = old[i]
  BY <1>1, AppendedLog, LogType
<1>7. \A i \in DOMAIN log : (i \in DOMAIN old /\ log[i] = old[i]) \/ (i = k /\ log[i] = v)
  BY <1>6
<1> HIDE DEF k
<1>8. LogSound(log)'
  <2> SUFFICES ASSUME NEW i \in DOMAIN log
               PROVE  /\ Issued(log[i])' /\ log[i][1] >= i
                      /\ core'[log[i][2]].vote = log[i]
                           => core'[log[i][2]].role # "candidate"
                      /\ \A j \in DOMAIN log : i < j => log[i][1] < log[j][1]
    BY DEF LogSound
  <2>1. CASE i \in DOMAIN old /\ log[i] = old[i]
    <3>1. /\ Issued(old[i])' /\ old[i][1] >= i
          /\ core'[old[i][2]].vote = old[i] => core'[old[i][2]].role # "candidate"
          /\ \A j \in DOMAIN old : i < j => old[i][1] < old[j][1]
      BY <1>3, <2>1 DEF LogSound
    <3> QED
      BY <1>2, <1>7, <2>1, <3>1
  <2>2. CASE i = k /\ log[i] = v
    <3>1. \A j \in DOMAIN log : ~(k < j)
      BY <1>6 DEF k
    <3> QED
      BY <1>2, <1>3, <1>5, <2>2, <3>1
  <2> QED
    BY <1>7, <2>1, <2>2
<1>9. Agree(log, log)
  <2>1. \A i \in DOMAIN log : i \in Int /\ log[i][1] \in Int
    <3>1. log \in Seq(Vote)
      BY <1>2, LogType
    <3> QED
      BY <3>1 DEF Vote
  <2>2. \A i, j \in DOMAIN log : i < j => log[i][1] < log[j][1]
    BY <1>8 DEF LogSound
  <2>3. \A i, j \in DOMAIN log : log[i] = log[j] => i = j
    <3> TAKE i, j \in DOMAIN log
    <3> HAVE log[i] = log[j]
    <3>1. i \in Int /\ j \in Int /\ log[i][1] \in Int /\ log[i][1] = log[j][1]
      BY <2>1
    <3>2. ~(log[i][1] < log[j][1]) /\ ~(log[j][1] < log[i][1])
      BY <3>1
    <3>3. ~(i < j) /\ ~(j < i)
      BY <2>2, <3>2
    <3> QED
      BY <3>1, <3>3
  <2> QED
    BY <2>3 DEF Agree
<1>10. ASSUME NEW other \in Logs
       PROVE  Agree(log, other) /\ Agree(other, log)
  <2>1. Agree(old, other)
    BY <1>1 DEF IInv, LogsAgree
  <2>2. ASSUME NEW i \in DOMAIN log, NEW j \in DOMAIN other, log[i] = other[j]
        PROVE  i = j /\ \A h \in 1..i : log[h] = other[h]
    <3>1. i \in DOMAIN old /\ log[i] = old[i]
      BY <1>4, <1>7, <2>2
    <3>2. i = j /\ \A h \in 1..i : old[h] = other[h]
      BY <2>1, <2>2, <3>1 DEF Agree
    <3>3. \A h \in 1..i : h \in 1..Len(old)
      BY <1>6, <3>1
    <3> QED
      BY <1>6, <3>2, <3>3
  <2> QED
    BY <2>2 DEF Agree
<1> QED
  BY <1>8, <1>9, <1>10

\* An elected leader may have missed nothing that is committed: some node of its
\* quorum has it, and has granted its vote for a log that has it too.
LEMMA WinKeeps ==
    ASSUME IInv, NEW call \in calls, CountGrant(call),
           Quorum(core[call.from].granted \cup {call.to})
    PROVE  IInv'
<1>1. /\ call.kind = "vote" /\ Positive(call) /\ calls' = Awaited(calls \ {call}, core')
      /\ UNCHANGED <<places, chosen, spent>>
  BY DEF CountGrant
<1>2. PICK m \in Nodes : m = call.from
  BY <1>1, CountedFacts
<1>3. PICK old : old = core[m].log
  OBVIOUS
<1>4. PICK v : v = core[m].vote
  OBVIOUS
<1>5. PICK log : log = Append(old, v)
  OBVIOUS
<1>6. PICK granted : granted = core[m].granted \cup {call.to}
  OBVIOUS
<1>7. /\ call.to \in Nodes /\ core[m].role = "candidate" /\ v = call.vote
      /\ call.answer = "granted" /\ call.log = old /\ AtLeast(core[call.to].vote, v)
  BY <1>1, <1>2, <1>3, <1>4, CountedFacts
<1>8. /\ core[m] \in CoreType /\ CoreSound(m) /\ core \in [Nodes -> CoreType]
      /\ saved \in [Nodes -> [vote : Vote, log : Log]] /\ spent \in Spent
      /\ old \in Log /\ old \in Logs /\ v \in Vote /\ v # NoVote /\ v[2] = m
      /\ LastLogId(old) \in Vote /\ AtLeast(v, LastLogId(old)) /\ AtLeast(v, v)
  <2>1. /\ core[m] \in CoreType /\ core \in [Nodes -> CoreType]
        /\ saved \in [Nodes -> [vote : Vote, log : Log]] /\ spent \in Spent
        /\ old \in Log /\ old \in Logs /\ v \in Vote /\ LastLogId(old) \in Vote
    BY <1>3, <1>4, Typed, TypeFacts DEF IInv, VotesSound, Logs
  <2>2. CoreSound(m) /\ v # NoVote
    BY <1>4, <1>7, RealVotes DEF IInv, CoresSound, Active
  <2>3. v[2] = m /\ AtLeast(v, LastLogId(old))
    BY <1>3, <1>4, <1>7, <2>2 DEF CoreSound, Active
  <2> QED
    BY <2>1, <2>2, <2>3, VoteOrder
<1>9. /\ granted \in SUBSET Nodes /\ Quorum(granted)
      /\ \A k \in granted : AtLeast(core[k].vote, v)
  BY <1>2, <1>4, <1>6, <1>7, <1>8 DEF CoreType, CoreSound
<1>10. /\ log \in Log /\ v[1] \in Int /\ v[1] >= Len(old) + 1
       /\ \A i \in DOMAIN old : old[i][1] < v[1]
  BY <1>3, <1>4, <1>5, <1>7, WonLog
<1>11. /\ log # <<>> /\ LastLogId(log) = v /\ DOMAIN old = 1..Len(old)
       /\ Len(old) \in Nat /\ DOMAIN log = 1..Len(old) + 1 /\ log[Len(old) + 1] = v
       /\ \A i \in 1..Len(old) : log[i] = old[i]
  BY <1>5, <1>8, AppendedLog, LogType
<1> DEFINE y == [core[m] EXCEPT !.role = "leader", !.log = log, !.granted = granted,
                                !.stored = {m}]
<1>12. Save(m, v, log) /\ core' = [core EXCEPT ![m] = y]
  BY <1>2, <1>3, <1>4, <1>5, <1>6, <1>7, <1>8 DEF CountGrant
<1>13. /\ y \in CoreType /\ y.role = "leader" /\ y.vote = v /\ y.log = log
       /\ y.granted = granted /\ y.stored = {m}
       /\ y.sending = core[m].sending /\ y.receiving = core[m].receiving
  BY <1>4, <1>8, <1>9, <1>10 DEF CoreType
<1> HIDE DEF y
<1>14. /\ core' \in [Nodes -> CoreType] /\ core'[m] = y
       /\ \A k \in Nodes \ {m} : core'[k] = core[k]
       /\ \A k \in Nodes : core'[k].vote = core[k].vote
       /\ \A k \in Nodes : core'[k].receiving = core[k].receiving
  BY <1>4, <1>8, <1>12, <1>13
<1>15. /\ saved' \in [Nodes -> [vote : Vote, log : Log]]
       /\ saved'[m] = [vote |-> v, log |-> log]
       /\ \A k \in Nodes \ {m} : saved'[k] = saved[k]
  BY <1>8, <1>10, <1>12 DEF Save
<1>16. Forward
  <2>1. \A k \in Nodes : AtLeast(core'[k].vote, core[k].vote)
    BY <1>14, VoteOrder, TypeFacts DEF IInv
  <2>2. \A k \in Nodes : Stands(k)
    BY <1>13, <1>14 DEF Stands
  <2>3. spent'.elections \in Int /\ spent'.elections >= spent.elections
    BY <1>1, <1>8 DEF Spent
  <2> QED
    BY <1>14, <2>1, <2>2, <2>3 DEF Forward
<1>17. /\ LogSound(log)' /\ Agree(log, log)
       /\ \A other \in Logs : Agree(log, other) /\ Agree(other, log)
  <2>1. core'[m].vote = core[m].vote /\ core'[m].role = "leader"
    BY <1>13, <1>14
  <2> QED
    BY <1>3, <1>4, <1>5, <1>7, <1>16, <2>1, WonLogSound
<1>18. CallsTame(call) /\ calls' \subseteq calls
  BY <1>1, DroppedFacts DEF Awaited
<1>19. /\ calls' \subseteq CallType /\ CallsSound'
       /\ \A c \in calls' : /\ Issued(c.vote)' /\ Issued(c.told)'
                            /\ c.vote[2] = c.from /\ c.from # c.to
                            /\ c.log \in Logs /\ c.addr \in had[c.to]
  BY <1>16, <1>18, CallsTameFacts DEF IInv
<1>20. Logs' \subseteq Logs \cup {log}
  <2>1. \A k \in Nodes : core'[k].log \in Logs \cup {log}
    BY <1>13, <1>14 DEF Logs
  <2>2. \A c \in chosen' : c.log \in Logs
    BY <1>1 DEF Logs
  <2> QED
    BY <1>19, <2>1, <2>2 DEF Logs
<1>21. LogsSound' /\ LogsAgree'
  <2>1. \A other \in Logs : LogSound(other)'
    BY <1>16, LogForward, TypeFacts DEF IInv, LogsSound
  <2>2. \A l, other \in Logs \cup {log} : Agree(l, other)
    BY <1>17 DEF IInv, LogsAgree
  <2>3. LogsSound'
    BY <1>17, <1>20, <2>1 DEF LogsSound
  <2>4. LogsAgree'
    BY <1>20, <2>2 DEF LogsAgree, Agree
  <2> QED
    BY <2>3, <2>4
<1>22. VotesSound'
  <2>1. \A k \in Nodes : Issued(core[k].vote)'
    <3> TAKE k \in Nodes
    <3>1. core'[k].vote \in Vote /\ Issued(core'[k].vote)
      BY <1>14, TypeFacts DEF IInv, VotesSound
    <3> QED
      BY <1>16, <3>1, IssuedForward DEF IInv, Issued
  <2> QED
    BY <1>1, <1>8, <1>19, <2>1 DEF VotesSound
<1>23. CoresSound'
  <2> SUFFICES ASSUME NEW k \in Nodes
               PROVE  CoreSound(k)'
    BY DEF CoresSound
  <2>1. CASE k = m
    BY <1>8, <1>9, <1>11, <1>13, <1>14, <1>15, <2>1 DEF CoreSound, Active
  <2>2. CASE k # m
    <3>1. core'[k] = core[k] /\ saved'[k] = saved[k] /\ CoreSound(k)
      BY <1>14, <1>15, <2>2 DEF IInv, CoresSound
    <3>2. \A j \in core[k].granted : core'[j].vote = core[j].vote
      BY <1>14, TypeFacts DEF IInv
    <3> QED
      BY <3>1, <3>2 DEF CoreSound
  <2> QED
    BY <2>1, <2>2
<1>24. TypeOK'
  BY <1>1, <1>14, <1>15, <1>19, Typed DEF IInv, places, TypeOK, CoreType, CallType
<1>25. PlacesSound'
  <2>1. \A k \in Nodes : core'[k].role \in Active => core[k].role \in Active
    BY <1>7, <1>14 DEF Active
  <2> QED
    BY <1>1, <1>19, <2>1 DEF IInv, PlacesSound, places
<1>26. ChunksSound'
  <2>1. \A c, d \in calls' : SameTransfer(c, d) => c = d
    BY <1>18 DEF IInv, ChunksSound
  <2>2. ASSUME NEW c \in calls, c.kind = "chunk"
        PROVE  c.vote # v
    <3>1. c.log \in Logs /\ c.log \in Log /\ LastLogId(c.log) = c.vote /\ c.vote # NoVote
      BY <2>2, TypeFacts, RealVotes DEF IInv, CallsSound, CallSound, Logs
    <3>2. \E i \in DOMAIN c.log : c.log[i] = c.vote
      BY <3>1, LogType
    <3> QED
      BY <1>4, <1>7, <3>1, <3>2, NoEntryYet
  <2>3. ASSUME NEW c \in calls', c.kind = "chunk"
        PROVE  /\ core'[c.from].role = "leader" /\ core'[c.from].vote = c.vote
                    => core'[c.from].sending[c.to] = c.chunk
               /\ core'[c.to].receiving.of = c.vote =>
                    /\ 0..c.chunk - 1 \subseteq core'[c.to].receiving.chunks
                    /\ c.answer = "success" => c.chunk \in core'[c.to].receiving.chunks
    <3>1. c \in calls /\ c.from \in Nodes /\ c.to \in Nodes /\ c.vote # v
      BY <1>18, <2>2, <2>3, TypeFacts DEF IInv
    <3>2. core'[c.from].vote = c.vote => core'[c.from] = core[c.from]
      BY <1>13, <1>14, <3>1
    <3> QED
      BY <1>14, <2>3, <3>1, <3>2 DEF IInv, ChunksSound
  <2>4. ASSUME NEW j \in Nodes, NEW k \in Nodes
        PROVE  /\ core'[j].role = "candidate" => core'[j].sending[k] = 0
               /\ core'[j].role = "leader" /\ core'[k].receiving.of = core'[j].vote =>
                    0..core'[j].sending[k] - 1 \subseteq core'[k].receiving.chunks
    <3>1. CASE j = m
      <4>1. core[m].sending[k] = 0
        BY <1>7 DEF IInv, ChunksSound
      <4> QED
        BY <1>13, <1>14, <3>1, <4>1
    <3>2. CASE j # m
      BY <1>14, <3>2 DEF IInv, ChunksSound
    <3> QED
      BY <3>1, <3>2
  <2> QED
    BY <2>1, <2>3, <2>4 DEF ChunksSound, SameTransfer
<1>27. SafeStep
  <2>1. Rising
    <3>1. \A k \in Nodes : AtLeast(LastLogId(core'[k].log), LastLogId(core[k].log))
      BY <1>3, <1>8, <1>11, <1>13, <1>14, VoteOrder, TypeFacts DEF IInv
    <3> QED
      BY <1>14, <1>16, <3>1 DEF Rising, Forward
  <2>2. ASSUME NEW n \in Nodes, NEW u \in Vote, NEW w \in Vote, Granted(n, u, w)'
        PROVE  Granted(n, u, w)
    <3>1. \A k \in Nodes : core'[k].role = "candidate" => core'[k] = core[k]
      BY <1>13, <1>14
    <3> QED
      BY <1>18, <2>2, <3>1 DEF Granted
  <2>3. ASSUME NEW u \in Vote, NEW n \in Nodes
        PROVE  StoresFrom(u, n)
    <3> SUFFICES ASSUME StoredAt(u, n)', ~StoredAt(u, n)
                 PROVE  /\ AtLeast(u, core[n].vote) /\ AtLeast(core'[n].vote, u)
                        /\ AtLeast(LastLogId(core'[n].log), u)
      BY DEF StoresFrom
    <3>1. core'[m].vote = u /\ n \in core'[m].stored
      BY <1>14, <1>18 DEF StoredAt
    <3>2. u = v /\ n = m
      BY <1>13, <1>14, <3>1
    <3> QED
      BY <1>4, <1>8, <1>11, <1>13, <1>14, <3>2
  <2> QED
    BY <2>1, <2>2, <2>3 DEF SafeStep
<1>28. StoredKept'
  BY <1>27, StoredKeptSafe DEF IInv
<1>29. ASSUME NEW n \in granted, NEW u \in Vote, Below(u, v), Kept(u, n)
       PROVE  AtLeast(LastLogId(old), u)
  <2>1. Granted(n, v, LastLogId(old))
    BY <1>2, <1>3, <1>4, <1>6, <1>7 DEF Granted
  <2> QED
    BY <1>8, <1>29, <2>1 DEF Kept
<1>30. LogsElected'
  <2>1. ASSUME NEW other \in Logs, NEW i \in DOMAIN other
        PROVE  \E nodes \in SUBSET Nodes : Quorum(nodes) /\ ElectedAt(other, i, nodes)'
    <3>1. PICK nodes \in SUBSET Nodes : Quorum(nodes) /\ ElectedAt(other, i, nodes)
      BY DEF IInv, LogsElected
    <3>2. other \in Log
      BY TypeFacts DEF IInv
    <3>3. ElectedAt(other, i, nodes)'
      BY <1>27, <3>1, <3>2, ElectedSafe DEF IInv
    <3> QED
      BY <3>1, <3>3
  <2>2. ASSUME NEW i \in 1..Len(old)
        PROVE  \E nodes \in SUBSET Nodes : Quorum(nodes) /\ ElectedAt(log, i, nodes)'
    <3>1. PICK nodes \in SUBSET Nodes : Quorum(nodes) /\ ElectedAt(old, i, nodes)'
      BY <1>8, <1>11, <2>1, <2>2
    <3>2. log[i] = old[i] /\ (i > 1 => log[i - 1] = old[i - 1])
      BY <1>11
    <3>3. ElectedAt(log, i, nodes)'
      BY <3>1, <3>2 DEF ElectedAt
    <3> QED
      BY <3>1, <3>3
  <2>3. ElectedAt(log, Len(old) + 1, granted)'
    <3> SUFFICES ASSUME NEW n \in granted
                 PROVE  /\ AtLeast(core'[n].vote, v)
                        /\ \A u \in Vote : Below(u, v) /\ StoredAt(u, n)' =>
                             Len(old) + 1 > 1 /\ AtLeast(log[Len(old)], u)
      BY <1>11 DEF ElectedAt
    <3>1. n \in Nodes /\ AtLeast(core'[n].vote, v)
      BY <1>9, <1>14
    <3>2. ASSUME NEW u \in Vote, Below(u, v), StoredAt(u, n)'
          PROVE  Len(old) + 1 > 1 /\ AtLeast(log[Len(old)], u)
      <4>1. StoredAt(u, n)
        <5>1. StoredAt(u, n) \/ AtLeast(u, core[n].vote)
          BY <1>27, <3>1, <3>2 DEF SafeStep, StoresFrom
        <5>2. ~AtLeast(u, core[n].vote)
          BY <1>8, <1>9, <3>1, <3>2, VoteOrder, TypeFacts DEF IInv
        <5> QED
          BY <5>1, <5>2
      <4>2. AtLeast(LastLogId(old), u)
        BY <1>29, <3>1, <3>2, <4>1 DEF IInv, StoredKept
      <4>3. u # NoVote
        <5>1. ASSUME NEW k \in Nodes, n \in core[k].stored
              PROVE  core[k].vote # NoVote
          BY <5>1, RealVotes DEF IInv, CoresSound, CoreSound, Active
        <5> QED
          BY <4>1, <5>1, RealVotes DEF StoredAt, IInv
      <4>4. old # <<>>
        BY <4>2, <4>3, LogType, VoteOrder
      <4>5. Len(old) \in 1..Len(old) /\ LastLogId(old) = old[Len(old)]
        BY <1>8, <1>11, <4>4, LogType
      <4> QED
        BY <1>11, <4>2, <4>5
    <3> QED
      BY <3>1, <3>2
  <2>4. \A i \in DOMAIN log : i \in 1..Len(old) \/ i = Len(old) + 1
    BY <1>11
  <2>5. \A i \in DOMAIN log : \E nodes \in SUBSET Nodes :
          Quorum(nodes) /\ ElectedAt(log, i, nodes)'
    BY <1>9, <2>2, <2>3, <2>4
  <2> QED
    BY <1>20, <2>1, <2>5 DEF LogsElected
<1>31. ChosenSound'
  <2> SUFFICES ASSUME NEW c \in chosen
               PROVE  Committable(c)'
    BY <1>1 DEF ChosenSound
  <2>1. /\ c.log # <<>> /\ LastLogId(c.log) = c.vote /\ c.vote \in Vote /\ c.log \in Log
        /\ \A other \in Logs :
             AtLeast(LastLogId(other), c.vote) => IsPrefix(c.log, other)
    BY TypeFacts DEF IInv, ChosenSound, Committable
  <2>2. PICK nodes \in SUBSET Nodes : Quorum(nodes) /\ \A n \in nodes : Kept(c.vote, n)
    BY DEF IInv, ChosenSound, Committable
  <2>3. \A n \in nodes : Kept(c.vote, n)'
    BY <1>27, <2>1, <2>2, KeptSafe DEF IInv
  <2>4. ASSUME AtLeast(v, c.vote)
        PROVE  IsPrefix(c.log, log)
    <3>1. c.vote # v
      <4>1. c.log \in Logs /\ \E i \in DOMAIN c.log : c.log[i] = c.vote
        BY <2>1, LogType DEF Logs
      <4> QED
        BY <1>4, <1>7, <4>1, NoEntryYet
    <3>2. Below(c.vote, v)
      BY <1>8, <2>1, <2>4, <3>1, VoteOrder
    <3>3. PICK n \in nodes : n \in granted
      BY <1>9, <2>2, QuorumsMeet
    <3>4. AtLeast(LastLogId(old), c.vote)
      BY <1>29, <2>1, <2>2, <3>2, <3>3
    <3>5. IsPrefix(c.log, old)
      BY <1>8, <2>1, <3>4
    <3>6. c.log \in Seq(Vote) /\ old \in Seq(Vote) /\ log \in Seq(Vote)
      BY <1>8, <1>10, <2>1, LogType
    <3>7. Len(c.log) <= Len(old) /\ \A i \in 1..Len(c.log) : c.log[i] = old[i]
      BY <3>5, <3>6, PrefixPointwise
    <3>8. Len(c.log) <= Len(log) /\ \A i \in 1..Len(c.log) : c.log[i] = log[i]
      BY <1>11, <3>6, <3>7
    <3> QED
      BY <3>6, <3>8, PrefixPointwise
  <2> QED
    BY <1>11, <1>20, <2>1, <2>2, <2>3, <2>4 DEF Committable
<1> QED
  BY <1>19, <1>21, <1>22, <1>23, <1>24, <1>25, <1>26, <1>28, <1>30, <1>31 DEF IInv

LEMMA ElectKeeps ==
    ASSUME IInv, NEW m \in Nodes, Elect(m)
    PROVE  IInv'
<1>1. PICK old : old = core[m].log
  OBVIOUS
<1>2. PICK v : v = <<core[m].vote[1] + 1, m>>
  OBVIOUS
<1>3. /\ core[m].role # "leader" /\ spent.elections < MaxElections
      /\ spent' = [spent EXCEPT !.elections = @ + 1] /\ Save(m, v, old)
      /\ UNCHANGED <<addrOf, had, chosen>>
  BY <1>1, <1>2 DEF Elect
<1>4. PICK given \in [Nodes -> Addrs] :
        /\ \A n \in Nodes : given[n] \in had[n]
        /\ clients' = [clients EXCEPT ![m] = NewClients(m, given)]
        /\ calls' = Awaited(calls, core') \cup
             {Request("vote", m, n, NewClients(m, given), <<core[m].vote[1] + 1, m>>,
                      core[m].log, 0) : n \in Nodes \ {m}}
  BY DEF Elect
<1>5. PICK table : table = NewClients(m, given)
  OBVIOUS
<1> DEFINE y == [Idle(v, old) EXCEPT !.role = "candidate", !.granted = {m}]
<1>6. core' = [core EXCEPT ![m] = y]
  BY <1>1, <1>2 DEF Elect
<1>7. /\ core \in [Nodes -> CoreType] /\ spent \in Spent
      /\ saved \in [Nodes -> [vote : Vote, log : Log]]
      /\ clients \in [Nodes -> [Nodes -> Addrs \cup {NoAddr}]]
      /\ had \in [Nodes -> SUBSET Addrs]
      /\ core[m].vote \in Vote /\ Issued(core[m].vote) /\ CoreSound(m)
      /\ old \in Log /\ old \in Logs /\ LastLogId(old) \in Vote
  <2>1. TypeOK /\ VotesSound /\ CoresSound
    BY DEF IInv
  <2>2. /\ core \in [Nodes -> CoreType]
        /\ saved \in [Nodes -> [vote : Vote, log : Log]]
        /\ clients \in [Nodes -> [Nodes -> Addrs \cup {NoAddr}]]
        /\ had \in [Nodes -> SUBSET Addrs]
    BY <2>1, Typed
  <2>3. core[m].vote \in Vote /\ old \in Log /\ LastLogId(old) \in Vote /\ old \in Logs
    BY <1>1, <2>1, TypeFacts DEF Logs
  <2> QED
    BY <2>1, <2>2, <2>3 DEF VotesSound, CoresSound
<1>8. spent' \in Spent /\ spent'.elections = spent.elections + 1
  <2>1. spent \in Spent /\ MaxElections \in Nat
    BY <1>7, NetworkAssumption
  <2>2. spent.elections \in 0..MaxElections /\ spent.elections + 1 \in 0..MaxElections
    BY <1>3, <2>1 DEF Spent
  <2> QED
    BY <1>3, <2>1, <2>2 DEF Spent
<1>9. /\ v \in Vote /\ v # NoVote /\ v[1] > core[m].vote[1] /\ v[2] = m
      /\ v[1] \in 1..spent'.elections /\ core[m].vote[1] \in Int
  <2>1. core[m].vote[1] \in 0..spent.elections
    BY <1>7, NetworkAssumption DEF Issued, NoVote, Spent
  <2>2. /\ v[1] = core[m].vote[1] + 1 /\ v[2] = m
        /\ v[1] \in 0..MaxElections /\ m \in 0..N
    BY <1>2, <1>3, <1>7, <2>1, NetworkAssumption DEF Nodes, Spent
  <2>3. v \in Vote
    BY <1>2, <2>2 DEF Vote
  <2>4. v # NoVote
    BY <1>2, <2>1 DEF NoVote
  <2>5. /\ v[1] > core[m].vote[1] /\ v[1] \in 1..spent'.elections
        /\ core[m].vote[1] \in Int
    <3>1. spent.elections \in Int
      BY <1>7 DEF Spent
    <3> QED
      BY <1>8, <2>1, <2>2, <3>1
  <2> QED
    BY <2>2, <2>3, <2>4, <2>5
<1>10. Below(core[m].vote, v) /\ AtLeast(v, core[m].vote) /\ AtLeast(v, v)
  BY <1>7, <1>9, VoteOrder
<1>11. AtLeast(v, LastLogId(old)) /\ LastLogId(old)[1] < v[1]
  <2>1. AtLeast(core[m].vote, LastLogId(old))
    BY <1>1, <1>7 DEF CoreSound
  <2>2. core[m].vote[1] >= LastLogId(old)[1]
    BY <1>7, <2>1, VoteOrder
  <2>3. \A u \in Vote : u[1] \in Int
    BY DEF Vote
  <2> QED
    BY <1>7, <1>9, <1>10, <2>1, <2>2, <2>3, VoteOrder
<1>12. /\ y \in CoreType /\ y.role = "candidate" /\ y.vote = v /\ y.log = old
       /\ y.granted = {m} /\ y.stored = {} /\ y.sending = [n \in Nodes |-> 0]
       /\ y.receiving = NoTransfer
  <2> DEFINE z == Idle(v, old)
  <2>1. /\ z \in CoreType /\ z.vote = v /\ z.log = old /\ z.stored = {}
        /\ z.sending = [n \in Nodes |-> 0] /\ z.receiving = NoTransfer
    BY <1>7, <1>9, IdleFacts
  <2>2. y = [z EXCEPT !.role = "candidate", !.granted = {m}]
    OBVIOUS
  <2> HIDE DEF z, y
  <2> QED
    BY <2>1, <2>2 DEF CoreType
<1> HIDE DEF y
<1>13. /\ core' \in [Nodes -> CoreType] /\ core'[m] = y
       /\ \A k \in Nodes \ {m} : core'[k] = core[k]
  BY <1>6, <1>7, <1>12
<1>14. /\ saved' \in [Nodes -> [vote : Vote, log : Log]]
       /\ saved'[m] = [vote |-> v, log |-> old]
       /\ \A k \in Nodes \ {m} : saved'[k] = saved[k]
  BY <1>3, <1>7, <1>9 DEF Save
<1>15. Forward
  <2>1. \A k \in Nodes : AtLeast(core'[k].vote, core[k].vote)
    BY <1>10, <1>12, <1>13, VoteOrder, TypeFacts DEF IInv
  <2>2. \A k \in Nodes : Stands(k)
    BY <1>9, <1>12, <1>13 DEF Stands
  <2>3. spent'.elections \in Int /\ spent'.elections >= spent.elections
    BY <1>7, <1>8 DEF Spent
  <2> QED
    BY <1>13, <2>1, <2>2, <2>3 DEF Forward
<1>16. /\ table \in [Nodes -> Addrs \cup {NoAddr}]
       /\ \A n \in Nodes : table[n] \in had[n] \cup {NoAddr}
       /\ \A n \in Nodes \ {m} : table[n] \in had[n] /\ table[n] # NoAddr
  <2>1. \A n \in Nodes : table[n] = IF n # m /\ clients[m][n] = NoAddr
                                   THEN given[n] ELSE clients[m][n]
    BY <1>5 DEF NewClients
  <2>2. \A n \in Nodes : clients[m][n] \in had[n] \cup {NoAddr}
    BY DEF IInv, PlacesSound
  <2>3. \A n \in Nodes : given[n] \in had[n] /\ given[n] # NoAddr /\ had[n] \subseteq Addrs
    BY <1>4, <1>7, NetworkAssumption
  <2>4. table = [n \in Nodes |-> table[n]]
    BY <1>5 DEF NewClients
  <2>5. \A n \in Nodes : table[n] \in had[n] \cup {NoAddr}
    BY <2>1, <2>2, <2>3
  <2>6. \A n \in Nodes : table[n] \in Addrs \cup {NoAddr}
    BY <2>3, <2>5
  <2>7. \A n \in Nodes \ {m} : table[n] \in had[n] /\ table[n] # NoAddr
    BY <2>1, <2>2, <2>3
  <2> QED
    BY <2>4, <2>5, <2>6, <2>7
<1>17. ASSUME NEW c \in calls'
       PROVE  \/ c \in calls /\ c \in Awaited({c}, core')
              \/ \E n \in Nodes \ {m} :
                   /\ c.kind = "vote" /\ c.from = m /\ c.to = n /\ c.addr = table[n]
                   /\ c.vote = v /\ c.log = old /\ c.chunk = 0
                   /\ c.answer = "none" /\ c.told = NoVote /\ c \in CallType
  <2>1. CASE c \in Awaited(calls, core')
    BY <2>1 DEF Awaited
  <2>2. CASE c \notin Awaited(calls, core')
    <3>1. PICK n \in Nodes \ {m} : c = Request("vote", m, n, table, v, old, 0)
      <4>1. PICK n \in Nodes \ {m} :
              c = Request("vote", m, n, NewClients(m, given),
                          <<core[m].vote[1] + 1, m>>, core[m].log, 0)
        BY <1>4, <2>2
      <4> QED
        BY <1>1, <1>2, <1>5, <4>1
    <3>2. /\ c.kind = "vote" /\ c.from = m /\ c.to = n /\ c.addr = table[n]
          /\ c.vote = v /\ c.log = old /\ c.chunk = 0
          /\ c.answer = "none" /\ c.told = NoVote
      BY <3>1 DEF Request
    <3>3. table[n] \in Addrs /\ 0 \in 0..Chunks - 1 /\ NoVote \in Vote
      BY <1>7, <1>16, VoteOrder, NetworkAssumption
    <3>4. c \in CallType
      BY <1>7, <1>9, <3>1, <3>3 DEF Request, CallType
    <3> QED
      BY <3>2, <3>4
  <2> QED
    BY <2>1, <2>2
<1>18. Logs' \subseteq Logs
  <2>1. \A k \in Nodes : core'[k].log \in Logs
    BY <1>7, <1>12, <1>13 DEF Logs
  <2>2. \A c \in calls' : c.log \in Logs
    BY <1>7, <1>17 DEF Logs
  <2>3. \A c \in chosen' : c.log \in Logs
    BY <1>3 DEF Logs
  <2> QED
    BY <2>1, <2>2, <2>3 DEF Logs
<1>19. LogsSound' /\ LogsAgree'
  <2>1. LogsSound'
    BY <1>15, <1>18, LogForward, TypeFacts DEF IInv, LogsSound
  <2> QED
    BY <1>18, <2>1 DEF IInv, LogsAgree, Agree
<1>20. Issued(v)' /\ Issued(NoVote)'
  BY <1>9, <1>10, <1>12, <1>13 DEF Issued
<1>21. VotesSound'
  <2>1. ASSUME NEW k \in Nodes
        PROVE  Issued(core[k].vote)'
    <3>1. PICK u : u = core'[k].vote
      OBVIOUS
    <3>2. CASE k = m
      BY <1>12, <1>13, <1>20, <3>2 DEF Issued
    <3>3. CASE k # m
      <4>1. u \in Vote /\ Issued(u)
        BY <1>13, <3>1, <3>3, TypeFacts DEF IInv, VotesSound
      <4>2. Issued(u)'
        BY <1>15, <4>1, IssuedForward DEF IInv
      <4> QED
        BY <3>1, <4>2 DEF Issued
    <3> QED
      BY <3>2, <3>3
  <2>2. ASSUME NEW c \in calls'
        PROVE  /\ Issued(c.vote)' /\ Issued(c.told)'
               /\ c.vote[2] = c.from /\ c.from # c.to
    <3>1. CASE c \in calls
      BY <1>15, <3>1, IssuedForward, TypeFacts DEF IInv, VotesSound
    <3>2. CASE c \notin calls
      BY <1>9, <1>17, <1>20, <3>2
    <3> QED
      BY <3>1, <3>2
  <2> QED
    BY <1>8, <2>1, <2>2 DEF VotesSound
<1>22. CoresSound'
  <2> SUFFICES ASSUME NEW k \in Nodes
               PROVE  CoreSound(k)'
    BY DEF CoresSound
  <2>1. CASE k = m
    BY <1>9, <1>10, <1>11, <1>12, <1>13, <1>14, <2>1 DEF CoreSound, Active
  <2>2. CASE k # m
    <3>1. core'[k] = core[k] /\ saved'[k] = saved[k] /\ CoreSound(k)
      BY <1>13, <1>14, <2>2 DEF IInv, CoresSound
    <3>2. \A j \in core[k].granted : AtLeast(core'[j].vote, core[k].vote)
      BY <1>15, <3>1, VoteOrder, TypeFacts, ForwardType DEF IInv, CoreSound, Forward
    <3> QED
      BY <3>1, <3>2 DEF CoreSound
  <2> QED
    BY <2>1, <2>2
<1>23. CallsSound'
  <2> SUFFICES ASSUME NEW c \in calls'
               PROVE  CallSound(c)'
    BY DEF CallsSound
  <2>1. CASE c \in calls /\ c \in Awaited({c}, core')
    BY <1>15, <2>1, CallForward DEF IInv, SameCall
  <2>2. CASE /\ c.kind = "vote" /\ c.from = m /\ c.log = old /\ c.answer = "none"
    BY <1>12, <1>13, <2>2 DEF CallSound, Awaited
  <2> QED
    BY <1>17, <2>1, <2>2
<1>24. TypeOK'
  <2>1. calls' \subseteq CallType
    BY <1>17, TypeFacts DEF IInv
  <2>2. clients' \in [Nodes -> [Nodes -> Addrs \cup {NoAddr}]]
    BY <1>4, <1>5, <1>7, <1>16
  <2> QED
    BY <1>3, <1>13, <1>14, <2>1, <2>2, Typed DEF IInv, TypeOK, CoreType, CallType
<1>25. PlacesSound'
  <2>1. clients'[m] = table /\ \A k \in Nodes \ {m} : clients'[k] = clients[k]
    BY <1>4, <1>5, <1>7
  <2>2. ASSUME NEW j \in Nodes, NEW k \in Nodes
        PROVE  /\ clients'[j][k] \in had[k] \cup {NoAddr}
               /\ core'[j].role \in Active /\ j # k => clients'[j][k] # NoAddr
    <3>1. CASE j = m
      BY <1>16, <2>1, <3>1
    <3>2. CASE j # m
      BY <1>13, <2>1, <3>2 DEF IInv, PlacesSound
    <3> QED
      BY <3>1, <3>2
  <2>3. ASSUME NEW c \in calls'
        PROVE  c.addr \in had[c.to]
    BY <1>16, <1>17 DEF IInv, PlacesSound
  <2> QED
    BY <1>3, <2>2, <2>3 DEF IInv, PlacesSound
<1>26. ChunksSound'
  <2>1. \A c \in calls' : c.kind # "vote" => c \in calls
    BY <1>17
  <2>2. \A c, d \in calls' : SameTransfer(c, d) => c = d
    BY <2>1 DEF IInv, ChunksSound, SameTransfer
  <2>3. ASSUME NEW k \in Nodes, core'[k].receiving.of # NoVote
        PROVE  core'[k].receiving = core[k].receiving
    BY <1>12, <1>13, <2>3 DEF NoTransfer
  <2>4. ASSUME NEW c \in calls', c.kind = "chunk"
        PROVE  /\ core'[c.from].role = "leader" /\ core'[c.from].vote = c.vote
                    => core'[c.from].sending[c.to] = c.chunk
               /\ core'[c.to].receiving.of = c.vote =>
                    /\ 0..c.chunk - 1 \subseteq core'[c.to].receiving.chunks
                    /\ c.answer = "success" => c.chunk \in core'[c.to].receiving.chunks
    <3>1. c \in calls /\ c.from \in Nodes /\ c.to \in Nodes /\ c.vote # NoVote
      BY <2>1, <2>4, RealVotes, TypeFacts DEF IInv
    <3>2. core'[c.from].role = "leader" => core'[c.from] = core[c.from]
      BY <1>12, <1>13, <3>1
    <3> QED
      BY <2>3, <2>4, <3>1, <3>2 DEF IInv, ChunksSound
  <2>5. ASSUME NEW j \in Nodes, NEW k \in Nodes
        PROVE  /\ core'[j].role = "candidate" => core'[j].sending[k] = 0
               /\ core'[j].role = "leader" /\ core'[k].receiving.of = core'[j].vote =>
                    0..core'[j].sending[k] - 1 \subseteq core'[k].receiving.chunks
    <3>1. CASE j = m
      BY <1>12, <1>13, <3>1
    <3>2. CASE j # m
      <4>1. core'[j] = core[j] /\ (core[j].role = "leader" => core[j].vote # NoVote)
        BY <1>13, <3>2, RealVotes DEF IInv, Active
      <4> QED
        BY <2>3, <4>1 DEF IInv, ChunksSound
    <3> QED
      BY <3>1, <3>2
  <2> QED
    BY <2>2, <2>4, <2>5 DEF ChunksSound, SameTransfer
<1>27. StoredKept' /\ LogsElected' /\ ChosenSound'
  <2>1. Rising
    <3>1. \A k \in Nodes : AtLeast(LastLogId(core'[k].log), LastLogId(core[k].log))
      BY <1>1, <1>12, <1>13, VoteOrder, TypeFacts DEF IInv
    <3> QED
      BY <1>13, <1>15, <3>1 DEF Rising, Forward
  <2>2. ASSUME NEW n \in Nodes, NEW u \in Vote, NEW w \in Vote
        PROVE  GrantsFrom(n, u, w)
    <3> SUFFICES ASSUME Granted(n, u, w)', ~Granted(n, u, w)
                 PROVE  AtLeast(w, LastLogId(core[n].log))
      BY DEF GrantsFrom
    <3>1. ~\E c \in calls' : /\ c.answer = "granted" /\ c.to = n
                             /\ c.vote = u /\ LastLogId(c.log) = w
      BY <1>17 DEF Granted
    <3>2. PICK k \in Nodes :
            /\ core'[k].role = "candidate" /\ n \in core'[k].granted
            /\ core'[k].vote = u /\ LastLogId(core'[k].log) = w
      BY <3>1 DEF Granted
    <3>3. k = m
      BY <1>13, <3>2 DEF Granted
    <3>4. n = m /\ w = LastLogId(old)
      BY <1>12, <1>13, <3>2, <3>3
    <3> QED
      BY <1>1, <1>7, <3>4, VoteOrder
  <2>3. ASSUME NEW u \in Vote, NEW n \in Nodes, StoredAt(u, n)'
        PROVE  StoredAt(u, n)
    <3>1. CASE \E k \in Nodes : core'[k].vote = u /\ n \in core'[k].stored
      BY <1>12, <1>13, <3>1 DEF StoredAt
    <3>2. CASE ~\E k \in Nodes : core'[k].vote = u /\ n \in core'[k].stored
      <4>1. \E c \in calls' : /\ c.answer = "success" /\ Whole(c)
                             /\ c.vote = u /\ c.to = n
        BY <2>3, <3>2 DEF StoredAt
      <4> QED
        BY <1>17, <4>1 DEF StoredAt
    <3> QED
      BY <3>1, <3>2
  <2>4. SafeStep
    BY <2>1, <2>2, <2>3 DEF SafeStep
  <2> QED
    BY <1>3, <1>18, <2>4, NoCommit, ChosenSafe
<1> QED
  BY <1>19, <1>21, <1>22, <1>23, <1>24, <1>25, <1>26, <1>27 DEF IInv

-----------------------------------------------------------------------------
LEMMA StutterKeeps ==
    ASSUME IInv, UNCHANGED vars
    PROVE  IInv'
<1>1. /\ saved' = saved /\ core' = core /\ clients' = clients /\ addrOf' = addrOf
      /\ had' = had /\ calls' = calls /\ chosen' = chosen /\ spent' = spent
  BY DEF vars, places
<1>2. TypeOK' /\ PlacesSound' /\ VotesSound' /\ CoresSound' /\ CallsSound'
  BY <1>1 DEF IInv, TypeOK, PlacesSound, VotesSound, Issued, CoresSound, CoreSound,
              CallsSound, CallSound, Awaited
<1>3. LogsSound' /\ LogsAgree' /\ ChunksSound'
  BY <1>1 DEF IInv, LogsSound, LogSound, Issued, LogsAgree, Agree, Logs,
              ChunksSound, SameTransfer
<1>4. StoredKept' /\ LogsElected' /\ ChosenSound'
  <2>1. Logs' = Logs
    BY <1>1 DEF Logs
  <2>2. \A u, n : StoredAt(u, n)' <=> StoredAt(u, n)
    BY <1>1 DEF StoredAt
  <2>3. \A u, n : Kept(u, n)' <=> Kept(u, n)
    BY <1>1 DEF Kept, Granted
  <2>4. StoredKept'
    BY <2>2, <2>3 DEF IInv, StoredKept
  <2>5. LogsElected'
    BY <1>1, <2>1, <2>2 DEF IInv, LogsElected, ElectedAt
  <2>6. ChosenSound'
    BY <1>1, <2>1, <2>3 DEF IInv, ChosenSound, Committable
  <2> QED
    BY <2>4, <2>5, <2>6
<1> QED
  BY <1>2, <1>3, <1>4 DEF IInv

LEMMA NextKeepsIInv == IInv /\ [Next]_vars => IInv'
<1> SUFFICES ASSUME IInv, [Next]_vars
             PROVE  IInv'
  OBVIOUS
<1>1. CASE \E n \in Nodes : Elect(n) \/ Stop(n) \/ Restart(n)
  BY <1>1, ElectKeeps, StopKeeps, RestartKeeps
<1>2. CASE \E m, n \in Nodes : Replicate(m, n)
  BY <1>2, ReplicateKeeps
<1>3. ASSUME NEW call \in calls, NEW n \in Nodes, RpcServer(n, call)
      PROVE  IInv'
  <2>1. CASE AnswerFatal(n, call)
    BY <2>1, AnswerFatalKeeps
  <2>2. CASE AnswerVote(n, call)
    BY <2>2, AnswerVoteKeeps
  <2>3. CASE AnswerHigherVote(n, call)
    BY <2>3, AnswerHigherVoteKeeps
  <2>4. CASE AnswerAppend(n, call)
    BY <2>4, AnswerAppendKeeps
  <2>5. CASE AnswerChunk(n, call)
    BY <2>5, AnswerChunkKeeps
  <2>6. CASE AnswerMismatch(n, call)
    BY <2>6, AnswerMismatchKeeps
  <2> QED
    BY <1>3, <2>1, <2>2, <2>3, <2>4, <2>5, <2>6 DEF RpcServer
<1>4. ASSUME NEW call \in calls, TakeResult(call)
      PROVE  IInv'
  <2>1. CASE CountGrant(call)
    BY <2>1, GrantKeeps, WinKeeps
  <2>2. CASE CountChunk(call)
    BY <2>2, CountChunkKeeps
  <2>3. CASE CountStored(call)
    BY <2>3, CountStoredKeeps
  <2>4. CASE LearnVote(call)
    BY <2>4, LearnVoteKeeps
  <2>5. CASE Lose(call)
    BY <2>5, LoseKeeps
  <2> QED
    BY <1>4, <2>1, <2>2, <2>3, <2>4, <2>5 DEF TakeResult
<1>5. CASE UNCHANGED vars
  BY <1>5, StutterKeeps
<1> QED
  BY <1>1, <1>2, <1>3, <1>4, <1>5 DEF Next

LEMMA SpecKeepsIInv == Spec => []IInv
BY InitSound, NextKeepsIInv, PTL DEF Spec

\* Every node, call and log.db of the model of ReplicatNetwork is what its
\* declaration says, whatever the number of nodes and the bounds are: no term is
\* too high, no log too long, and no chunk past the last one is asked for.
THEOREM NetworkTypeCorrect == Spec => []TypeOK
<1>1. IInv => TypeOK
  BY DEF IInv
<1> QED
  BY <1>1, SpecKeepsIInv, PTL

LEMMA IInvCounted == IInv => CountedIsStored
<1> SUFFICES ASSUME IInv, NEW m \in Nodes, NEW n \in Nodes
             PROVE  /\ n \in core[m].granted => AtLeast(saved[n].vote, core[m].vote)
                    /\ n \in core[m].stored /\ saved[n].vote = core[m].vote
                         => IsPrefix(core[m].log, saved[n].log)
  BY DEF CountedIsStored
<1>1. CoreSound(m) /\ CoreSound(n)
  BY DEF IInv, CoresSound
<1>2. saved[n].vote = core[n].vote /\ saved[n].log = core[n].log
  <2>1. saved[n] = [vote |-> core[n].vote, log |-> core[n].log]
    BY <1>1 DEF CoreSound
  <2> QED
    BY <2>1
<1>3. /\ core[m].vote \in Vote /\ core[m].log \in Log /\ core[n].log \in Log
      /\ core[n].vote \in Vote /\ LastLogId(core[n].log) \in Vote
      /\ core[m].log \in Logs /\ core[n].log \in Logs
  BY TypeFacts DEF IInv, Logs
<1>4. ASSUME n \in core[m].stored, core[n].vote = core[m].vote
      PROVE  IsPrefix(core[m].log, core[n].log)
  <2>1. core[m].role = "leader" /\ LastLogId(core[m].log) = core[m].vote
    BY <1>1, <1>4 DEF CoreSound
  <2>2. core[m].vote # NoVote
    BY <2>1, RealVotes DEF IInv, Active
  <2>3. AtLeast(LastLogId(core[n].log), core[m].vote)
    BY <1>3, <1>4 DEF IInv, StoredKept, StoredAt, Kept
  <2>4. AtLeast(core[m].vote, LastLogId(core[n].log))
    BY <1>1, <1>4 DEF CoreSound
  <2>5. LastLogId(core[n].log) = core[m].vote
    BY <1>3, <2>3, <2>4, VoteOrder
  <2>6. /\ core[m].log # <<>> /\ Len(core[n].log) \in DOMAIN core[n].log
        /\ core[n].log[Len(core[n].log)] = LastLogId(core[m].log)
    BY <1>3, <2>1, <2>2, <2>5, LogType
  <2>7. Agree(core[m].log, core[n].log)
    BY <1>3 DEF IInv, LogsAgree
  <2> QED
    BY <1>3, <2>6, <2>7, AgreeFacts
<1> QED
  BY <1>1, <1>2, <1>4 DEF CoreSound

\* A grant or a copy that a caller of send_vote, send_append_entries or
\* send_install_snapshot counts is in the log.db of the node that answered,
\* through crashes, moves and late or lost answers.
THEOREM CountedInLog == Spec => []CountedIsStored
BY SpecKeepsIInv, IInvCounted, PTL

LEMMA IInvCommitted == IInv => CommittedKept
<1> SUFFICES ASSUME IInv, NEW c \in chosen
             PROVE  /\ \A d \in chosen : IsPrefix(c.log, d.log) \/ IsPrefix(d.log, c.log)
                    /\ \A m \in Nodes :
                         core[m].role = "leader" /\ AtLeast(core[m].vote, c.vote)
                           => IsPrefix(c.log, core[m].log)
  BY DEF CommittedKept
<1>1. \A d \in chosen : /\ d.vote \in Vote /\ d.log \in Logs /\ LastLogId(d.log) = d.vote
                       /\ \A log \in Logs : AtLeast(LastLogId(log), d.vote)
                                               => IsPrefix(d.log, log)
  BY TypeFacts DEF IInv, ChosenSound, Committable, Logs
<1>2. \A d \in chosen : IsPrefix(c.log, d.log) \/ IsPrefix(d.log, c.log)
  BY <1>1, VoteOrder
<1>3. ASSUME NEW m \in Nodes, core[m].role = "leader", AtLeast(core[m].vote, c.vote)
      PROVE  IsPrefix(c.log, core[m].log)
  <2>1. core[m].log \in Logs /\ LastLogId(core[m].log) = core[m].vote
    BY <1>3 DEF IInv, CoresSound, CoreSound, Logs
  <2> QED
    BY <1>1, <1>3, <2>1
<1> QED
  BY <1>2, <1>3

\* What a leader has taken for committed is in the log of every later leader,
\* for every number of nodes, elections, restarts and stopped cores, with answers
\* lost and snapshots in place of entries.
THEOREM NothingCommittedIsLost == Spec => []CommittedKept
BY SpecKeepsIInv, IInvCommitted, PTL
=============================================================================
