-------------------------- MODULE SerialConnection --------------------------
(***************************************************************************)
(* What a StorageHandle promises its callers: one connection that runs the *)
(* submitted calls one at a time, each at most once, in the order they     *)
(* were submitted, and that answers a call with its own result.  A call    *)
(* may be withdrawn before it runs, and may run without being answered.    *)
(* There is no queue limit here.  StorageHandle implements this module.    *)
(***************************************************************************)
EXTENDS Naturals, Sequences

CONSTANT Call

VARIABLES pending,   \* submitted calls in their order
          executed,  \* the calls that have run, in their order
          reply      \* the place in executed a call was told, or 0

vars == <<pending, executed, reply>>

Members(s) == {s[i] : i \in DOMAIN s}

Init ==
    /\ pending = <<>>
    /\ executed = <<>>
    /\ reply = [c \in Call |-> 0]

Submit(c) ==
    /\ c \notin Members(pending) \cup Members(executed)
    /\ pending' = Append(pending, c)
    /\ UNCHANGED <<executed, reply>>

Execute ==
    /\ pending # <<>>
    /\ executed' = Append(executed, Head(pending))
    /\ pending' = Tail(pending)
    /\ UNCHANGED reply

Answer(c) ==
    /\ reply[c] = 0
    /\ \E i \in DOMAIN executed :
         executed[i] = c /\ reply' = [reply EXCEPT ![c] = i]
    /\ UNCHANGED <<pending, executed>>

\* s is what is left of a line: kept tells where in the line its members were.
LeftOf(s, line) ==
    \E n \in 0..Len(line) : \E kept \in [1..n -> 1..Len(line)] :
        /\ \A i, j \in 1..n : i < j => kept[i] < kept[j]
        /\ s = [i \in 1..n |-> line[kept[i]]]

Withdraw ==
    /\ LeftOf(pending', pending)
    /\ UNCHANGED <<executed, reply>>

Next ==
    \/ \E c \in Call : Submit(c) \/ Answer(c)
    \/ Execute \/ Withdraw

Spec == Init /\ [][Next]_vars
=============================================================================
