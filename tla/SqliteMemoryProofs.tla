------------------------- MODULE SqliteMemoryProofs -------------------------
(***************************************************************************)
(* Theorems about SqliteMemory for any number of callers, calls, images    *)
(* and any capacity: a buffer is freed once, and until then it has one     *)
(* owner, which is still there to free it.  What StorageHandleProofs says  *)
(* of the actor holds with its buffers, too.                               *)
(***************************************************************************)
EXTENDS SqliteMemory, StorageHandleProofs, FiniteSetTheorems

-----------------------------------------------------------------------------
(* The actor with its buffers behaves as the actor alone. *)

LEMMA BufferStep ==
    ASSUME [BufferNext]_bufferVars
    PROVE  [Next]_vars
  BY DEF BufferNext, ThreadStep, Next, WorkerStep, bufferVars,
         FromSlice, CallerDrops, SubmitTask, ReceiveResult, CancelCall, DropClones,
         TakeTask, RunTask, SendReply, PanicTask, EndThread

\* SqliteMemory only adds to StorageHandle: what is proved of the one holds of
\* the other.
THEOREM ImplementsHandle == BufferSpec => Spec
<1>1. BufferInit => Init
  BY DEF BufferInit
<1>2. [BufferNext]_bufferVars => [Next]_vars
  BY BufferStep
<1> QED
  BY <1>1, <1>2, PTL DEF BufferSpec, Spec

-----------------------------------------------------------------------------
(* The inductive invariant *)

\* An allocated buffer either has one owner or has been freed once.
HeldOnce ==
    /\ buffers \subseteq Buffered
    /\ freed \in [Buffered -> Nat]
    /\ \A h \in holders : h \in Holder /\ h[1] \in buffers /\ freed[h[1]] = 0
    /\ \A g, h \in holders : g[1] = h[1] => g = h
    /\ \A c \in buffers : freed[c] = 1 \/ \E h \in holders : h[1] = c
    /\ \A c \in Buffered \ buffers : freed[c] = 0

\* The thread ends by itself only behind the last handle.
ExitSound == worker = "exited" => ~handles

BufferInv == IInv /\ HeldOnce /\ OwnersLive /\ ExitSound

LEMMA HeldOnceIsOneHolder ==
    ASSUME HeldOnce
    PROVE  OneHolder
<1> SUFFICES ASSUME NEW c \in buffers
             PROVE  Cardinality({h \in holders : h[1] = c}) + freed[c] = 1
  BY DEF OneHolder
<1>1. CASE \E h \in holders : h[1] = c
  <2>1. PICK h \in holders : h[1] = c
    BY <1>1
  <2>2. {k \in holders : k[1] = c} = {h}
    BY <2>1 DEF HeldOnce
  <2>3. freed[c] = 0
    BY <2>1 DEF HeldOnce
  <2>4. Cardinality({h}) = 1
    BY FS_Singleton
  <2> QED
    BY <2>2, <2>3, <2>4
<1>2. CASE ~ \E h \in holders : h[1] = c
  <2>1. {k \in holders : k[1] = c} = {}
    BY <1>2
  <2>2. freed[c] = 1
    BY <1>2 DEF HeldOnce
  <2> QED
    BY <2>1, <2>2, FS_EmptySet
<1> QED
  BY <1>1, <1>2

\* What is dropped is freed once.
LEMMA StepFrees ==
    ASSUME HeldOnce, NEW drops, NEW moves, NEW gains, Step(drops, moves, gains)
    PROVE  /\ freed' \in [Buffered -> Nat]
           /\ \A c \in Buffered :
                \/ /\ freed'[c] = freed[c]
                   /\ \A h \in holders \cap drops : h[1] # c
                \/ /\ freed'[c] = 1
                   /\ c \in buffers
                   /\ \E h \in holders \cap drops : h[1] = c
<1> DEFINE dropped(c) == {h \in holders \cap drops : h[1] = c}
<1>1. freed' = [c \in Buffered |-> freed[c] + Cardinality(dropped(c))]
  BY DEF Step
<1>2. ASSUME NEW c \in Buffered
      PROVE  /\ freed'[c] \in Nat
             /\ \/ /\ freed'[c] = freed[c]
                   /\ \A h \in holders \cap drops : h[1] # c
                \/ /\ freed'[c] = 1
                   /\ c \in buffers
                   /\ \E h \in holders \cap drops : h[1] = c
  <2>1. freed'[c] = freed[c] + Cardinality(dropped(c)) /\ freed[c] \in Nat
    BY <1>1 DEF HeldOnce
  <2>2. CASE \E h \in holders \cap drops : h[1] = c
    <3>1. PICK h \in holders \cap drops : h[1] = c
      BY <2>2
    <3>2. dropped(c) = {h}
      BY <3>1 DEF HeldOnce
    <3>3. freed[c] = 0 /\ c \in buffers
      BY <3>1 DEF HeldOnce
    <3>4. Cardinality(dropped(c)) = 1
      BY <3>2, FS_Singleton
    <3> HIDE DEF dropped
    <3> QED
      BY <2>1, <2>2, <3>3, <3>4
  <2>3. CASE ~ \E h \in holders \cap drops : h[1] = c
    <3>1. dropped(c) = {}
      BY <2>3
    <3>2. Cardinality(dropped(c)) = 0
      BY <3>1, FS_EmptySet
    <3> HIDE DEF dropped
    <3> QED
      BY <2>1, <2>3, <3>2
  <2> QED
    BY <2>2, <2>3
<1>3. freed' \in [Buffered -> Nat]
  <2> HIDE DEF dropped
  <2>1. \A c \in Buffered : freed[c] + Cardinality(dropped(c)) \in Nat
    BY <1>1, <1>2
  <2> QED
    BY <1>1, <2>1
<1> QED
  BY <1>2, <1>3

\* Dropping an owner, handing a buffer on, and taking a new one keep it so.
LEMMA StepHeld ==
    ASSUME HeldOnce, NEW drops, NEW moves, NEW gains, Step(drops, moves, gains),
           \A h \in moves : h \in holders /\ h \notin drops,
           \A g \in gains : g \in Holder,
           \A g, h \in gains : g[1] = h[1] => g = h,
           \A h \in moves : \E g \in gains : g[1] = h[1],
           \A g \in gains : g[1] \notin buffers \/ \E h \in moves : h[1] = g[1]
    PROVE  HeldOnce'
<1>1. /\ holders' = (holders \ (drops \cup moves)) \cup gains
      /\ buffers' = buffers \cup {h[1] : h \in gains}
  BY DEF Step
<1>2. /\ freed' \in [Buffered -> Nat]
      /\ \A c \in Buffered :
           \/ freed'[c] = freed[c] /\ \A h \in holders \cap drops : h[1] # c
           \/ /\ freed'[c] = 1 /\ c \in buffers
              /\ \E h \in holders \cap drops : h[1] = c
  BY StepFrees
<1>3. \A g \in gains : g[1] \in Buffered
  BY DEF Holder
<1>4. buffers' \subseteq Buffered
  BY <1>1, <1>3 DEF HeldOnce
<1>5. \A g \in gains : freed[g[1]] = 0 /\ freed'[g[1]] = 0
  <2> TAKE g \in gains
  <2>1. CASE g[1] \notin buffers
    BY <1>2, <1>3, <2>1 DEF HeldOnce
  <2>2. CASE \E h \in moves : h[1] = g[1]
    <3>1. PICK h \in moves : h[1] = g[1]
      BY <2>2
    <3>2. \A k \in holders \cap drops : k[1] # g[1]
      BY <3>1 DEF HeldOnce
    <3> QED
      BY <1>2, <1>3, <3>1, <3>2 DEF HeldOnce
  <2> QED
    BY <2>1, <2>2
<1>6. \A h \in holders : h \notin drops => freed'[h[1]] = 0
  BY <1>2 DEF HeldOnce
<1>7. \A h \in holders' : h \in Holder /\ h[1] \in buffers' /\ freed'[h[1]] = 0
  BY <1>1, <1>5, <1>6 DEF HeldOnce
<1>8. ASSUME NEW g \in gains, NEW h \in holders \ (drops \cup moves)
      PROVE  g[1] # h[1]
  BY DEF HeldOnce
<1>9. \A g, h \in holders' : g[1] = h[1] => g = h
  BY <1>1, <1>8 DEF HeldOnce
<1>10. ASSUME NEW c \in buffers'
       PROVE  freed'[c] = 1 \/ \E h \in holders' : h[1] = c
  <2>1. CASE \E g \in gains : g[1] = c
    BY <1>1, <2>1
  <2>2. CASE c \in buffers /\ ~ \E g \in gains : g[1] = c
    <3>1. CASE freed[c] = 1
      BY <1>2, <2>2, <3>1 DEF HeldOnce
    <3>2. CASE \E h \in holders : h[1] = c
      <4>1. PICK h \in holders : h[1] = c
        BY <3>2
      <4>2. CASE h \in drops
        BY <1>2, <2>2, <4>1, <4>2 DEF HeldOnce
      <4>3. CASE h \notin drops
        <5>1. h \notin moves
          BY <2>2, <4>1
        <5> QED
          BY <1>1, <4>1, <4>3, <5>1
      <4> QED
        BY <4>2, <4>3
    <3> QED
      BY <2>2, <3>1, <3>2 DEF HeldOnce
  <2> QED
    BY <1>1, <2>1, <2>2
<1>11. \A c \in Buffered \ buffers' : freed'[c] = 0
  BY <1>1, <1>2 DEF HeldOnce
<1> QED
  BY <1>2, <1>4, <1>7, <1>9, <1>10, <1>11 DEF HeldOnce

LEMMA KeepHeld ==
    ASSUME HeldOnce, Keep
    PROVE  HeldOnce'
  BY DEF Keep, HeldOnce

\* One owner drops the buffer, or hands it on.
LEMMA DropHeld ==
    ASSUME HeldOnce, NEW drops, Step(drops, {}, {})
    PROVE  HeldOnce'
  BY StepHeld

LEMMA HandOver ==
    ASSUME HeldOnce, NEW drops, NEW c \in Buffered, NEW p, NEW q,
           <<c, p>> \in holders, <<c, p>> \notin drops, <<c, q>> \in Holder,
           Step(drops, {<<c, p>>}, {<<c, q>>})
    PROVE  HeldOnce'
<1> DEFINE moves == {<<c, p>>}
           gains == {<<c, q>>}
<1>1. /\ \A h \in moves : h \in holders /\ h \notin drops
      /\ \A g \in gains : g \in Holder
      /\ \A g, h \in gains : g[1] = h[1] => g = h
      /\ \A h \in moves : \E g \in gains : g[1] = h[1]
      /\ \A g \in gains : g[1] \notin buffers \/ \E h \in moves : h[1] = g[1]
  OBVIOUS
<1>2. Step(drops, moves, gains)
  OBVIOUS
<1> HIDE DEF moves, gains
<1> QED
  BY <1>1, <1>2, StepHeld

LEMMA NewHeld ==
    ASSUME HeldOnce, NEW c \in Buffered \ buffers, NEW q, <<c, q>> \in Holder,
           Step({}, {}, {<<c, q>>})
    PROVE  HeldOnce'
<1> DEFINE gains == {<<c, q>>}
<1>1. /\ \A g \in gains : g \in Holder
      /\ \A g, h \in gains : g[1] = h[1] => g = h
      /\ \A g \in gains : g[1] \notin buffers
  OBVIOUS
<1>2. Step({}, {}, gains)
  OBVIOUS
<1> HIDE DEF gains
<1> QED
  BY <1>1, <1>2, StepHeld

\* Who owns a buffer behind a step: an owner from before, or one that gained it.
LEMMA Owners ==
    ASSUME NEW drops, NEW moves, NEW gains, Step(drops, moves, gains),
           NEW h \in holders'
    PROVE  \/ h \in gains
           \/ h \in holders /\ h \notin drops /\ h \notin moves
<1>1. holders' = (holders \ (drops \cup moves)) \cup gains
  BY DEF Step
<1>2. h \in (holders \ (drops \cup moves)) \cup gains
  BY <1>1
<1> QED
  BY <1>2

-----------------------------------------------------------------------------
(* The calls in line *)

LEMMA MembersOfConcat ==
    ASSUME NEW S, NEW s \in Seq(S), NEW t \in Seq(S)
    PROVE  ToSet(s \o t) = ToSet(s) \cup ToSet(t)
<1>1. /\ s \o t \in Seq(S) /\ Len(s \o t) = Len(s) + Len(t)
      /\ \A i \in 1..Len(s) + Len(t) :
           (s \o t)[i] = IF i <= Len(s) THEN s[i] ELSE t[i - Len(s)]
  BY ConcatProperties
<1> DEFINE u == s \o t
<1>2. u \in Seq(S)
  BY <1>1
<1>3. /\ DOMAIN s = 1..Len(s) /\ DOMAIN t = 1..Len(t) /\ DOMAIN u = 1..Len(u)
      /\ Len(s) \in Nat /\ Len(t) \in Nat
  BY <1>2, LenProperties
<1>4. /\ Len(u) = Len(s) + Len(t)
      /\ \A i \in 1..Len(s) + Len(t) : u[i] = IF i <= Len(s) THEN s[i] ELSE t[i - Len(s)]
  BY <1>1
<1> HIDE DEF u
<1>5. ASSUME NEW i \in 1..Len(u)
      PROVE  u[i] \in ToSet(s) \cup ToSet(t)
  <2>1. CASE i <= Len(s)
    <3>1. i \in 1..Len(s) /\ u[i] = s[i]
      BY <1>3, <1>4, <2>1
    <3> QED
      BY <1>3, <3>1 DEF ToSet
  <2>2. CASE ~(i <= Len(s))
    <3>1. i - Len(s) \in 1..Len(t) /\ u[i] = t[i - Len(s)]
      BY <1>3, <1>4, <2>2
    <3> QED
      BY <1>3, <3>1 DEF ToSet
  <2> QED
    BY <2>1, <2>2
<1>6. ASSUME NEW i \in 1..Len(s)
      PROVE  s[i] \in ToSet(u)
  <2>1. i \in 1..Len(u) /\ u[i] = s[i]
    BY <1>3, <1>4
  <2> QED
    BY <1>3, <2>1 DEF ToSet
<1>7. ASSUME NEW i \in 1..Len(t)
      PROVE  t[i] \in ToSet(u)
  <2>1. Len(s) + i \in 1..Len(u) /\ ~(Len(s) + i <= Len(s)) /\ (Len(s) + i) - Len(s) = i
    BY <1>3, <1>4
  <2>2. u[Len(s) + i] = t[i]
    BY <1>4, <2>1
  <2> QED
    BY <1>3, <2>1, <2>2 DEF ToSet
<1>8. ToSet(u) = ToSet(s) \cup ToSet(t)
  BY <1>3, <1>5, <1>6, <1>7 DEF ToSet
<1> QED
  BY <1>8 DEF u

LEMMA RemoveFirstKeepsOthers ==
    ASSUME NEW S, NEW s \in Seq(S), NEW e, Distinct(s), NEW d \in ToSet(s), d # e
    PROVE  d \in ToSet(RemoveFirst(s, e))
<1>1. CASE RemoveFirst(s, e) = s
  BY <1>1
<1>2. CASE \E i \in 1..Len(s) : s[i] = e /\ RemoveFirst(s, e) = RemoveAt(s, i)
  <2>1. PICK i \in 1..Len(s) : s[i] = e /\ RemoveFirst(s, e) = RemoveAt(s, i)
    BY <1>2
  <2>2. Len(s) \in Nat /\ DOMAIN s = 1..Len(s)
    BY LenProperties
  <2>3. PICK j \in 1..Len(s) : s[j] = d
    BY <2>2 DEF ToSet
  <2> DEFINE r == RemoveAt(s, i)
  <2>4. /\ r \in Seq(S) /\ Len(r) = Len(s) - 1
        /\ \A k \in 1..Len(s) - 1 : r[k] = IF k <= i - 1 THEN s[k] ELSE s[k + 1]
    BY RemoveAtProperties
  <2>5. DOMAIN r = 1..Len(s) - 1
    BY <2>4, LenProperties
  <2> HIDE DEF r
  <2>6. j # i
    BY <2>1, <2>3
  <2>7. CASE j < i
    <3>1. j \in 1..Len(s) - 1 /\ j <= i - 1
      BY <2>2, <2>7
    <3>2. r[j] = d
      BY <2>3, <2>4, <3>1
    <3> QED
      BY <2>1, <2>5, <3>1, <3>2 DEF ToSet, r
  <2>8. CASE i < j
    <3>1. j - 1 \in 1..Len(s) - 1 /\ ~(j - 1 <= i - 1) /\ (j - 1) + 1 = j
      BY <2>2, <2>8
    <3>2. r[j - 1] = d
      BY <2>3, <2>4, <3>1
    <3> QED
      BY <2>1, <2>5, <3>1, <3>2 DEF ToSet, r
  <2> QED
    BY <2>2, <2>6, <2>7, <2>8
<1> QED
  BY <1>1, <1>2, RemoveFirstFromDistinct

LEMMA LineMembers ==
    ASSUME TypeOK
    PROVE  /\ ToSet(Line) = ToSet(queue) \cup ToSet(waiting)
           /\ ToSet(Line) = {Line[i] : i \in 1..Len(Line)}
           /\ ToSet(Line) \subseteq Call
<1>1. queue \in Seq(Call) /\ waiting \in Seq(Call)
  BY DEF TypeOK
<1>2. ToSet(Line) = ToSet(queue) \cup ToSet(waiting)
  BY <1>1, MembersOfConcat DEF Line
<1>3. DOMAIN Line = 1..Len(Line) /\ \A i \in 1..Len(Line) : Line[i] \in Call
  BY LineType, LenProperties
<1>4. ToSet(Line) = {Line[i] : i \in 1..Len(Line)}
  BY <1>3 DEF ToSet
<1> QED
  BY <1>2, <1>3, <1>4

LEMMA SubmitMembers ==
    ASSUME IInv, NEW c \in Call, Submit(c)
    PROVE  /\ ToSet(Line) \subseteq ToSet(Line')
           /\ worker # "dead" => c \in ToSet(Line')
<1>1. Line' = IF worker = "dead" THEN Line ELSE Append(Line, c)
  BY SubmitSound
<1>2. Line \in Seq(Call)
  BY LineType DEF IInv
<1>3. CASE worker = "dead"
  BY <1>1, <1>3
<1>4. CASE worker # "dead"
  <2>1. Line' = Line \o <<c>> /\ <<c>> \in Seq(Call)
    BY <1>1, <1>2, <1>4, AppendIsConcat
  <2>2. ToSet(Line \o <<c>>) = ToSet(Line) \cup ToSet(<<c>>)
    BY <1>2, <2>1, MembersOfConcat
  <2>3. c \in ToSet(<<c>>)
    BY DEF ToSet
  <2> QED
    BY <2>1, <2>2, <2>3
<1> QED
  BY <1>3, <1>4

LEMMA CancelMembers ==
    ASSUME IInv, NEW c \in Call, Cancel(c), NEW d \in ToSet(Line)
    PROVE  d \in ToSet(Line') \/ (d = c /\ c \in ToSet(waiting))
<1>1. queue' = queue /\ waiting' = RemoveFirst(waiting, c)
  BY DEF Cancel
<1>2. TypeOK /\ TypeOK' /\ Distinct(waiting)
  BY CancelSound, WaitingDistinct DEF IInv
<1>3. /\ ToSet(Line) = ToSet(queue) \cup ToSet(waiting)
      /\ ToSet(Line') = ToSet(queue') \cup ToSet(waiting')
  <2>1. /\ queue \in Seq(Call) /\ waiting \in Seq(Call)
        /\ queue' \in Seq(Call) /\ waiting' \in Seq(Call)
    BY <1>2 DEF TypeOK
  <2> QED
    BY <2>1, MembersOfConcat DEF Line
<1>4. d \in ToSet(waiting) /\ d # c => d \in ToSet(waiting')
  <2>1. waiting \in Seq(Call)
    BY <1>2 DEF TypeOK
  <2> QED
    BY <1>1, <1>2, <2>1, RemoveFirstKeepsOthers
<1> QED
  BY <1>1, <1>3, <1>4

LEMMA RecvMembers ==
    ASSUME IInv, Recv, NEW d \in ToSet(Line)
    PROVE  d \in ToSet(Line') \/ d = running'
<1>1. Line \in Seq(Call) /\ Line # <<>> /\ running' = Head(Line) /\ Line' = Tail(Line)
  BY RecvSound, LineType DEF IInv
<1>2. /\ Len(Line) \in Nat \ {0} /\ Head(Line) = Line[1]
      /\ Tail(Line) \in Seq(Call) /\ Len(Tail(Line)) = Len(Line) - 1
      /\ \A i \in 1..Len(Line) - 1 : Tail(Line)[i] = Line[i + 1]
      /\ DOMAIN Line = 1..Len(Line)
  BY <1>1, EmptySeq, HeadTailProperties, LenProperties
<1>3. PICK i \in 1..Len(Line) : d = Line[i]
  BY <1>2 DEF ToSet
<1>4. CASE i = 1
  BY <1>1, <1>2, <1>3, <1>4
<1>5. CASE i # 1
  <2>1. i - 1 \in 1..Len(Line) - 1 /\ (i - 1) + 1 = i
    BY <1>2, <1>5
  <2>2. Tail(Line)[i - 1] = d
    BY <1>2, <1>3, <2>1
  <2>3. DOMAIN Tail(Line) = 1..Len(Line) - 1
    BY <1>2, LenProperties
  <2> QED
    BY <1>1, <2>1, <2>2, <2>3 DEF ToSet
<1> QED
  BY <1>4, <1>5

-----------------------------------------------------------------------------
(* Every action keeps each buffer with an owner that lives. *)

\* A holder is a pair, and its call one that may have a buffer.
LEMMA HolderParts ==
    ASSUME NEW h \in Holder
    PROVE  /\ h = <<h[1], h[2]>> /\ h[1] \in Buffered /\ h[1] \in Call /\ h[1] # NoCall
           /\ h[2] \in {"caller", "task", "result", "reply", "connection"}
<1>1. h = <<h[1], h[2]>> /\ h[1] \in Buffered
      /\ h[2] \in {"caller", "task", "result", "reply", "connection"}
  BY DEF Holder
<1>2. h[1] \in Call /\ h[1] # NoCall
  BY <1>1, BufferedAssumption, NoCallAssumption
<1> QED
  BY <1>1, <1>2

LEMMA InHolder ==
    ASSUME NEW c \in Buffered
    PROVE  /\ <<c, "caller">> \in Holder /\ <<c, "task">> \in Holder
           /\ <<c, "result">> \in Holder /\ <<c, "reply">> \in Holder
           /\ <<c, "connection">> \in Holder
  BY DEF Holder

\* As long as the state of the actor is as it was.
LEMMA OwnerStays ==
    ASSUME NEW h, OwnerLives(h),
           UNCHANGED <<running, ran, status, reply, worker, handles, Line>>
    PROVE  OwnerLives(h)'
  BY DEF OwnerLives

LEMMA FromSliceSound ==
    ASSUME BufferInv, NEW c \in Buffered, FromSlice(c)
    PROVE  HeldOnce' /\ OwnersLive'
<1>1. Step({}, {}, {<<c, "caller">>}) /\ UNCHANGED vars /\ c \in Buffered \ buffers
  BY DEF FromSlice
<1>2. HeldOnce'
  BY <1>1, InHolder, NewHeld DEF BufferInv
<1>3. UNCHANGED <<running, ran, status, reply, worker, handles, Line>>
  BY <1>1 DEF vars, Line
<1>4. ASSUME NEW h \in holders'
      PROVE  OwnerLives(h)'
  <2>1. CASE h = <<c, "caller">>
    BY <2>1 DEF OwnerLives
  <2>2. CASE h \in holders
    BY <1>3, <2>2, OwnerStays DEF BufferInv, OwnersLive
  <2> QED
    BY <1>1, <2>1, <2>2, Owners
<1> QED
  BY <1>2, <1>4 DEF OwnersLive

LEMMA CallerDropsSound ==
    ASSUME BufferInv, NEW c \in Buffered, CallerDrops(c)
    PROVE  HeldOnce' /\ OwnersLive'
<1>1. Step({<<c, "caller">>}, {}, {}) /\ UNCHANGED vars
  BY DEF CallerDrops
<1>2. HeldOnce'
  BY <1>1, DropHeld DEF BufferInv
<1>3. UNCHANGED <<running, ran, status, reply, worker, handles, Line>>
  BY <1>1 DEF vars, Line
<1>4. ASSUME NEW h \in holders'
      PROVE  OwnerLives(h)'
  <2>1. h \in holders
    BY <1>1, Owners
  <2> QED
    BY <1>3, <2>1, OwnerStays DEF BufferInv, OwnersLive
<1> QED
  BY <1>2, <1>4 DEF OwnersLive

LEMMA SubmitTaskSound ==
    ASSUME BufferInv, NEW c \in Call, SubmitTask(c)
    PROVE  HeldOnce' /\ OwnersLive'
<1>1. Submit(c) /\ IInv /\ HeldOnce
  BY DEF SubmitTask, BufferInv
<1>2. /\ UNCHANGED <<running, ran, reply, worker, handles>>
      /\ handles /\ status[c] = "new"
      /\ \A d \in Call : d # c => status'[d] = status[d]
  BY <1>1 DEF Submit, IInv, TypeOK
<1>3. /\ ToSet(Line) \subseteq ToSet(Line')
      /\ worker # "dead" => c \in ToSet(Line')
  BY <1>1, SubmitMembers
<1>4. ASSUME NEW h \in holders
      PROVE  OwnerLives(h)'
  <2>1. h \in Holder /\ h[1] \in Call /\ OwnerLives(h)
    BY HolderParts DEF BufferInv, HeldOnce, OwnersLive
  <2>2. CASE h[2] = "reply"
    <3>1. status[h[1]] = "open" /\ reply[h[1]] # 0
      BY <2>1, <2>2 DEF OwnerLives
    <3>2. h[1] # c
      BY <1>2, <3>1
    <3> QED
      BY <1>2, <2>1, <2>2, <3>1, <3>2 DEF OwnerLives
  <2>3. CASE h[2] # "reply"
    BY <1>2, <1>3, <2>1, <2>3 DEF OwnerLives
  <2> QED
    BY <2>2, <2>3
<1>5. CASE <<c, "caller">> \notin holders
  <2>1. Keep
    BY <1>5 DEF SubmitTask
  <2>2. HeldOnce'
    BY <1>1, <2>1, KeepHeld
  <2> QED
    BY <1>4, <2>1, <2>2 DEF OwnersLive, Keep
<1>6. CASE <<c, "caller">> \in holders /\ worker = "dead"
  <2>1. Step({<<c, "caller">>}, {}, {})
    BY <1>6 DEF SubmitTask
  <2>2. HeldOnce'
    BY <1>1, <2>1, DropHeld
  <2>3. \A h \in holders' : OwnerLives(h)'
    BY <1>4, <2>1, Owners
  <2> QED
    BY <2>2, <2>3 DEF OwnersLive
<1>7. CASE <<c, "caller">> \in holders /\ worker # "dead"
  <2>1. Step({}, {<<c, "caller">>}, {<<c, "task">>})
    BY <1>7 DEF SubmitTask
  <2>2. c \in Buffered
    <3>1. <<c, "caller">> \in Holder
      BY <1>1, <1>7 DEF HeldOnce
    <3> QED
      BY <3>1 DEF Holder
  <2>3. HeldOnce'
    BY <1>1, <1>7, <2>1, <2>2, InHolder, HandOver
  <2>4. ASSUME NEW h, h = <<c, "task">>
        PROVE  OwnerLives(h)'
    BY <1>2, <1>3, <1>7, <2>4 DEF OwnerLives
  <2>5. \A h \in holders' : OwnerLives(h)'
    BY <1>4, <2>1, <2>4, Owners
  <2> QED
    BY <2>3, <2>5 DEF OwnersLive
<1> QED
  BY <1>5, <1>6, <1>7

LEMMA ReceiveResultSound ==
    ASSUME BufferInv, NEW c \in Call, ReceiveResult(c)
    PROVE  HeldOnce' /\ OwnersLive'
<1>1. Receive(c) /\ HeldOnce /\ TypeOK
  BY DEF ReceiveResult, BufferInv, IInv
<1>2. /\ UNCHANGED <<queue, waiting, running, ran, reply, worker, handles>>
      /\ \A d \in Call : d # c => status'[d] = status[d]
  BY <1>1 DEF Receive, TypeOK
<1>3. ASSUME NEW h \in holders, h # <<c, "reply">>
      PROVE  OwnerLives(h)'
  <2>1. h = <<h[1], h[2]>> /\ h[1] \in Call /\ OwnerLives(h)
    BY <1>1, HolderParts DEF BufferInv, HeldOnce, OwnersLive
  <2>2. CASE h[2] = "reply"
    <3>1. h[1] # c
      BY <1>3, <2>1, <2>2
    <3> QED
      BY <1>2, <2>1, <2>2, <3>1 DEF OwnerLives
  <2>3. CASE h[2] # "reply"
    BY <1>2, <2>1, <2>3 DEF OwnerLives, Line
  <2> QED
    BY <2>2, <2>3
<1>4. CASE <<c, "reply">> \in holders
  <2>1. Step({}, {<<c, "reply">>}, {<<c, "caller">>})
    BY <1>4 DEF ReceiveResult
  <2>2. c \in Buffered
    <3>1. <<c, "reply">> \in Holder
      BY <1>1, <1>4 DEF HeldOnce
    <3> QED
      BY <3>1 DEF Holder
  <2>3. HeldOnce'
    BY <1>1, <1>4, <2>1, <2>2, InHolder, HandOver
  <2>4. ASSUME NEW h, h = <<c, "caller">>
        PROVE  OwnerLives(h)'
    BY <2>4 DEF OwnerLives
  <2>5. \A h \in holders' : OwnerLives(h)'
    BY <1>3, <2>1, <2>4, Owners
  <2> QED
    BY <2>3, <2>5 DEF OwnersLive
<1>5. CASE <<c, "reply">> \notin holders
  <2>1. Keep
    BY <1>5 DEF ReceiveResult
  <2>2. HeldOnce'
    BY <1>1, <2>1, KeepHeld
  <2> QED
    BY <1>3, <1>5, <2>1, <2>2 DEF OwnersLive, Keep
<1> QED
  BY <1>4, <1>5

LEMMA CancelCallSound ==
    ASSUME BufferInv, NEW c \in Call, CancelCall(c)
    PROVE  HeldOnce' /\ OwnersLive'
<1> DEFINE drops == {<<c, "reply">>} \cup {<<d, "task">> : d \in ToSet(waiting) \cap {c}}
<1>1. Cancel(c) /\ Step(drops, {}, {}) /\ IInv /\ HeldOnce /\ TypeOK
  BY DEF CancelCall, BufferInv, IInv
<1>2. /\ UNCHANGED <<running, ran, reply, worker, handles>>
      /\ \A d \in Call : d # c => status'[d] = status[d]
  BY <1>1 DEF Cancel, TypeOK
<1>3. /\ <<c, "reply">> \in drops
      /\ c \in ToSet(waiting) => <<c, "task">> \in drops
  OBVIOUS
<1> HIDE DEF drops
<1>4. HeldOnce'
  BY <1>1, DropHeld
<1>5. ASSUME NEW h \in holders'
      PROVE  OwnerLives(h)'
  <2>1. h \in holders /\ h \notin drops
    BY <1>1, Owners
  <2>2. h = <<h[1], h[2]>> /\ h[1] \in Call /\ OwnerLives(h)
    BY <1>1, <2>1, HolderParts DEF BufferInv, HeldOnce, OwnersLive
  <2>3. CASE h[2] = "reply"
    <3>1. h[1] # c
      BY <1>3, <2>1, <2>2, <2>3
    <3> QED
      BY <1>2, <2>2, <2>3, <3>1 DEF OwnerLives
  <2>4. CASE h[2] = "task" /\ h[1] \in ToSet(Line)
    <3>1. ~(h[1] = c /\ c \in ToSet(waiting))
      BY <1>3, <2>1, <2>2, <2>4
    <3>2. h[1] \in ToSet(Line')
      BY <1>1, <2>4, <3>1, CancelMembers
    <3> QED
      BY <1>2, <2>2, <2>4, <3>2 DEF OwnerLives
  <2>5. CASE h[2] # "reply" /\ ~(h[2] = "task" /\ h[1] \in ToSet(Line))
    BY <1>2, <2>2, <2>5 DEF OwnerLives
  <2> QED
    BY <2>3, <2>4, <2>5
<1> QED
  BY <1>4, <1>5 DEF OwnersLive

LEMMA DropClonesSound ==
    ASSUME BufferInv, DropClones
    PROVE  HeldOnce' /\ OwnersLive'
<1>1. DropHandles /\ HeldOnce /\ TypeOK /\ ExitSound
  BY DEF DropClones, BufferInv, IInv
<1>2. /\ UNCHANGED <<queue, waiting, running, ran, status, reply, worker>>
      /\ handles /\ handles' = FALSE /\ worker \in {"running", "dead"}
  BY <1>1 DEF DropHandles, TypeOK, ExitSound
<1>3. ASSUME NEW h \in holders, worker = "dead" => h[2] # "task"
      PROVE  OwnerLives(h)'
  <2>1. OwnerLives(h)
    BY DEF BufferInv, OwnersLive
  <2> QED
    BY <1>2, <1>3, <2>1 DEF OwnerLives, Line
<1>4. CASE worker = "dead"
  <2>1. Step(HeldBy("task"), {}, {})
    BY <1>4 DEF DropClones
  <2>2. HeldOnce'
    BY <1>1, <2>1, DropHeld
  <2>3. ASSUME NEW h \in holders'
        PROVE  OwnerLives(h)'
    <3>1. h \in holders /\ h \notin HeldBy("task")
      BY <2>1, Owners
    <3> QED
      BY <1>3, <3>1 DEF HeldBy
  <2> QED
    BY <2>2, <2>3 DEF OwnersLive
<1>5. CASE worker # "dead"
  <2>1. Keep
    BY <1>5 DEF DropClones
  <2>2. HeldOnce'
    BY <1>1, <2>1, KeepHeld
  <2> QED
    BY <1>3, <1>5, <2>1, <2>2 DEF OwnersLive, Keep
<1> QED
  BY <1>4, <1>5

LEMMA TakeTaskSound ==
    ASSUME BufferInv, TakeTask
    PROVE  HeldOnce' /\ OwnersLive'
<1>1. Recv /\ Keep /\ HeldOnce /\ IInv
  BY DEF TakeTask, BufferInv
<1>2. UNCHANGED <<ran, status, reply, worker, handles>> /\ running = NoCall /\ ~ran
  BY <1>1 DEF Recv, IInv, RunSound
<1>3. ASSUME NEW h \in holders
      PROVE  OwnerLives(h)'
  <2>1. h[1] # NoCall /\ OwnerLives(h)
    BY <1>1, HolderParts DEF BufferInv, HeldOnce, OwnersLive
  <2>2. CASE h[2] = "task" /\ h[1] \in ToSet(Line)
    <3>1. h[1] \in ToSet(Line') \/ h[1] = running'
      BY <1>1, <2>2, RecvMembers
    <3> QED
      BY <1>1, <1>2, <2>1, <2>2, <3>1 DEF OwnerLives
  <2>3. CASE ~(h[2] = "task" /\ h[1] \in ToSet(Line))
    BY <1>2, <2>1, <2>3 DEF OwnerLives
  <2> QED
    BY <2>2, <2>3
<1>4. HeldOnce'
  BY <1>1, KeepHeld
<1> QED
  BY <1>1, <1>3, <1>4 DEF OwnersLive, Keep

LEMMA RunTaskSound ==
    ASSUME BufferInv, RunTask
    PROVE  HeldOnce' /\ OwnersLive'
<1>1. Run /\ HeldOnce /\ IInv
  BY DEF RunTask, BufferInv
<1>2. /\ UNCHANGED <<queue, waiting, running, status, reply, worker, handles>>
      /\ ~ran /\ ran' = TRUE /\ worker = "running"
  BY <1>1 DEF Run
<1>3. ASSUME NEW h \in holders, h # <<running, "task">>
      PROVE  OwnerLives(h)'
  <2>1. h = <<h[1], h[2]>> /\ OwnerLives(h)
    BY <1>1, HolderParts DEF BufferInv, HeldOnce, OwnersLive
  <2>2. ~(h[2] = "task" /\ h[1] = running)
    BY <1>3, <2>1
  <2> QED
    BY <1>2, <2>1, <2>2 DEF OwnerLives, Line
<1>4. CASE <<running, "task">> \in holders
  <2> DEFINE image == <<running, "task">>
  <2>1. running \in Buffered
    <3>1. image \in Holder
      BY <1>1, <1>4 DEF HeldOnce
    <3> QED
      BY <3>1 DEF Holder
  <2>2. image \notin HeldBy("connection")
    BY DEF HeldBy
  <2>3. ASSUME LoadImage
        PROVE  HeldOnce' /\ OwnersLive'
    <3>1. Step(HeldBy("connection"), {image}, {<<running, "connection">>})
      BY <2>3 DEF LoadImage
    <3>2. HeldOnce'
      BY <1>1, <1>4, <2>1, <2>2, <3>1, InHolder, HandOver
    <3>3. ASSUME NEW h, h = <<running, "connection">>
          PROVE  OwnerLives(h)'
      BY <1>2, <3>3 DEF OwnerLives
    <3>4. \A h \in holders' : OwnerLives(h)'
      BY <1>3, <3>1, <3>3, Owners
    <3> QED
      BY <3>2, <3>4 DEF OwnersLive
  <2>4. ASSUME RefuseImage
        PROVE  HeldOnce' /\ OwnersLive'
    <3>1. Step({image}, {}, {})
      BY <2>4 DEF RefuseImage
    <3>2. HeldOnce'
      BY <1>1, <3>1, DropHeld
    <3>3. \A h \in holders' : OwnerLives(h)'
      BY <1>3, <3>1, Owners
    <3> QED
      BY <3>2, <3>3 DEF OwnersLive
  <2>5. LoadImage \/ RefuseImage
    BY <1>4 DEF RunTask
  <2> QED
    BY <2>3, <2>4, <2>5
<1>5. CASE <<running, "task">> \notin holders
  <2>1. CASE running \in Buffered \ buffers /\ Step({}, {}, {<<running, "result">>})
    <3>1. HeldOnce'
      BY <1>1, <2>1, InHolder, NewHeld
    <3>2. ASSUME NEW h, h = <<running, "result">>
          PROVE  OwnerLives(h)'
      BY <1>2, <3>2 DEF OwnerLives
    <3>3. \A h \in holders' : OwnerLives(h)'
      BY <1>3, <1>5, <2>1, <3>2, Owners
    <3> QED
      BY <3>1, <3>3 DEF OwnersLive
  <2>2. CASE Keep
    <3>1. HeldOnce'
      BY <1>1, <2>2, KeepHeld
    <3> QED
      BY <1>3, <1>5, <2>2, <3>1 DEF OwnersLive, Keep
  <2> QED
    BY <1>5, <2>1, <2>2 DEF RunTask
<1> QED
  BY <1>4, <1>5

LEMMA SendReplySound ==
    ASSUME BufferInv, SendReply
    PROVE  HeldOnce' /\ OwnersLive'
<1>1. Reply /\ HeldOnce /\ IInv /\ TypeOK
  BY DEF SendReply, BufferInv, IInv
<1>2. /\ UNCHANGED <<queue, waiting, executed, status, worker, handles>>
      /\ ran /\ ran' = FALSE /\ running' = NoCall
  BY <1>1 DEF Reply
<1>3. running \in Call /\ Len(executed) # 0
  <2>1. running \in Call /\ executed # <<>> /\ executed \in Seq(Call)
    BY <1>1, <1>2 DEF IInv, RunSound, TypeOK
  <2> QED
    BY <2>1, EmptySeq
<1>4. /\ \A d \in Call : d # running => reply'[d] = reply[d]
      /\ status[running] = "open" => reply'[running] # 0
      /\ status[running] # "open" => reply' = reply
  BY <1>1, <1>3 DEF Reply, TypeOK
<1>5. ASSUME NEW h \in holders, h # <<running, "result">>
      PROVE  OwnerLives(h)'
  <2>1. h = <<h[1], h[2]>> /\ h[1] \in Call /\ OwnerLives(h)
    BY <1>1, HolderParts DEF BufferInv, HeldOnce, OwnersLive
  <2>2. ~(h[2] = "result" /\ h[1] = running)
    BY <1>5, <2>1
  <2>3. CASE h[2] = "reply"
    <3>1. status[h[1]] = "open" /\ reply[h[1]] # 0
      BY <2>1, <2>3 DEF OwnerLives
    <3>2. reply'[h[1]] # 0
      BY <1>4, <2>1, <3>1
    <3> QED
      BY <1>2, <2>3, <3>1, <3>2 DEF OwnerLives
  <2>4. CASE h[2] # "reply"
    BY <1>2, <2>1, <2>2, <2>4 DEF OwnerLives, Line
  <2> QED
    BY <2>3, <2>4
<1>6. CASE <<running, "result">> \notin holders
  <2>1. Keep
    BY <1>6 DEF SendReply
  <2>2. HeldOnce'
    BY <1>1, <2>1, KeepHeld
  <2> QED
    BY <1>5, <1>6, <2>1, <2>2 DEF OwnersLive, Keep
<1>7. CASE <<running, "result">> \in holders /\ status[running] = "open"
  <2>1. Step({}, {<<running, "result">>}, {<<running, "reply">>})
    BY <1>7 DEF SendReply
  <2>2. running \in Buffered
    <3>1. <<running, "result">> \in Holder
      BY <1>1, <1>7 DEF HeldOnce
    <3> QED
      BY <3>1 DEF Holder
  <2>3. HeldOnce'
    BY <1>1, <1>7, <2>1, <2>2, InHolder, HandOver
  <2>4. ASSUME NEW h, h = <<running, "reply">>
        PROVE  OwnerLives(h)'
    BY <1>2, <1>4, <1>7, <2>4 DEF OwnerLives
  <2>5. \A h \in holders' : OwnerLives(h)'
    BY <1>5, <2>1, <2>4, Owners
  <2> QED
    BY <2>3, <2>5 DEF OwnersLive
<1>8. CASE <<running, "result">> \in holders /\ status[running] # "open"
  <2>1. Step({<<running, "result">>}, {}, {})
    BY <1>8 DEF SendReply
  <2>2. HeldOnce'
    BY <1>1, <2>1, DropHeld
  <2>3. \A h \in holders' : OwnerLives(h)'
    BY <1>5, <2>1, Owners
  <2> QED
    BY <2>2, <2>3 DEF OwnersLive
<1> QED
  BY <1>6, <1>7, <1>8

LEMMA PanicTaskSound ==
    ASSUME BufferInv, PanicTask
    PROVE  HeldOnce' /\ OwnersLive'
<1> DEFINE drops == HeldBy("connection") \cup HeldBy("result") \cup
                      {h \in HeldBy("task") : handles => h[1] \notin ToSet(queue)}
<1>1. Panic /\ Step(drops, {}, {}) /\ HeldOnce /\ IInv /\ TypeOK
  BY DEF PanicTask, BufferInv, IInv
<1>2. /\ UNCHANGED <<queue, reply, handles>> /\ waiting' = <<>>
  BY <1>1 DEF Panic
<1>3. HeldOnce'
  BY <1>1, DropHeld
<1>4. \A h \in holders : h \notin drops =>
        /\ h[2] # "connection" /\ h[2] # "result"
        /\ h[2] = "task" => handles /\ h[1] \in ToSet(queue)
  BY DEF HeldBy
<1> HIDE DEF drops
<1>5. ASSUME NEW h \in holders'
      PROVE  OwnerLives(h)'
  <2>1. h \in holders /\ h \notin drops
    BY <1>1, Owners
  <2>2. h[1] \in Call /\ OwnerLives(h)
    BY <1>1, <2>1, HolderParts DEF BufferInv, HeldOnce, OwnersLive
  <2>3. CASE h[2] = "caller"
    BY <2>3 DEF OwnerLives
  <2>4. CASE h[2] = "task"
    <3>1. handles' /\ h[1] \in ToSet(queue)
      BY <1>2, <1>4, <2>1, <2>4
    <3>2. Line' = queue
      <4>1. queue \o <<>> = queue
        BY <1>1, ConcatEmptySeq DEF TypeOK
      <4> QED
        BY <1>2, <4>1 DEF Line
    <3> QED
      BY <2>4, <3>1, <3>2 DEF OwnerLives
  <2>5. CASE h[2] = "reply"
    <3>1. status[h[1]] = "open" /\ reply[h[1]] # 0
      BY <2>2, <2>5 DEF OwnerLives
    <3>2. h[1] # running
      BY <1>1, <2>2, <3>1, NoCallAssumption DEF IInv, RunSound
    <3>3. h[1] \notin ToSet(waiting)
      <4>1. \A d \in ToSet(Line) : reply[d] = 0
        BY <1>1, LineMembers DEF IInv, LineSound
      <4>2. ToSet(waiting) \subseteq ToSet(Line)
        BY <1>1, LineMembers
      <4> QED
        BY <3>1, <4>1, <4>2
    <3>4. status'[h[1]] = "open"
      BY <1>1, <2>2, <3>1, <3>2, <3>3 DEF Panic
    <3> QED
      BY <1>2, <2>5, <3>1, <3>4 DEF OwnerLives
  <2> QED
    BY <1>4, <2>1, <2>2, <2>3, <2>4, <2>5 DEF OwnerLives
<1> QED
  BY <1>3, <1>5 DEF OwnersLive

LEMMA EndThreadSound ==
    ASSUME BufferInv, EndThread
    PROVE  HeldOnce' /\ OwnersLive'
<1>1. WorkerExit /\ Step(HeldBy("connection"), {}, {}) /\ HeldOnce /\ IInv /\ TypeOK
  BY DEF EndThread, BufferInv, IInv
<1>2. /\ UNCHANGED <<queue, waiting, running, ran, status, reply, handles>>
      /\ running = NoCall /\ queue = <<>>
  BY <1>1 DEF WorkerExit
<1>3. HeldOnce'
  BY <1>1, DropHeld
<1>4. ToSet(Line) = {}
  <2>1. waiting = <<>>
    <3>1. Len(queue) = 0 /\ Capacity # 0
      BY <1>2, EmptySeq, StorageHandleAssumption
    <3> QED
      BY <1>1, <3>1 DEF IInv, BoundedFifo
  <2>2. ToSet(<<>>) = {}
    BY DEF ToSet
  <2> QED
    BY <1>1, <1>2, <2>1, <2>2, LineMembers
<1>5. ASSUME NEW h \in holders'
      PROVE  OwnerLives(h)'
  <2>1. h \in holders /\ h \notin HeldBy("connection")
    BY <1>1, Owners
  <2>2. h[1] # NoCall /\ h[2] # "connection" /\ OwnerLives(h)
    BY <1>1, <2>1, HolderParts DEF BufferInv, HeldOnce, OwnersLive, HeldBy
  <2> QED
    BY <1>2, <1>4, <2>2 DEF OwnerLives
<1> QED
  BY <1>3, <1>5 DEF OwnersLive

LEMMA ExitStaysSound ==
    ASSUME ExitSound, [Next]_vars
    PROVE  ExitSound'
<1>1. CASE WorkerExit
  BY <1>1 DEF WorkerExit, ExitSound
<1>2. CASE DropHandles
  BY <1>2 DEF DropHandles, ExitSound
<1>3. CASE Panic
  BY <1>3 DEF Panic, ExitSound
<1>4. CASE UNCHANGED <<worker, handles>>
  BY <1>4 DEF ExitSound
<1> QED
  BY <1>1, <1>2, <1>3, <1>4
  DEF Next, WorkerStep, Submit, Receive, Cancel, Recv, Run, Reply, vars

LEMMA BufferInitSound ==
    ASSUME BufferInit
    PROVE  BufferInv
<1>1. IInv
  BY InitSound DEF BufferInit
<1>2. HeldOnce
  BY DEF BufferInit, HeldOnce
<1>3. OwnersLive /\ ExitSound
  BY DEF BufferInit, Init, OwnersLive, ExitSound
<1> QED
  BY <1>1, <1>2, <1>3 DEF BufferInv

LEMMA BufferNextSound ==
    ASSUME BufferInv, [BufferNext]_bufferVars
    PROVE  BufferInv'
<1>1. IInv'
  BY BufferStep, NextSound DEF BufferInv
<1>2. ExitSound'
  BY BufferStep, ExitStaysSound DEF BufferInv
<1>3. HeldOnce' /\ OwnersLive'
  <2>1. ASSUME NEW c \in Call, SubmitTask(c) \/ ReceiveResult(c) \/ CancelCall(c)
        PROVE  HeldOnce' /\ OwnersLive'
    BY <2>1, SubmitTaskSound, ReceiveResultSound, CancelCallSound
  <2>2. ASSUME NEW c \in Buffered, FromSlice(c) \/ CallerDrops(c)
        PROVE  HeldOnce' /\ OwnersLive'
    BY <2>2, FromSliceSound, CallerDropsSound
  <2>3. CASE DropClones \/ ThreadStep \/ PanicTask
    BY <2>3, DropClonesSound, TakeTaskSound, RunTaskSound, SendReplySound,
       EndThreadSound, PanicTaskSound DEF ThreadStep
  <2>4. CASE UNCHANGED bufferVars
    <3>1. Keep /\ UNCHANGED <<running, ran, status, reply, worker, handles, Line>>
      BY <2>4 DEF bufferVars, vars, Line, Keep
    <3>2. HeldOnce'
      BY <3>1, KeepHeld DEF BufferInv
    <3>3. \A h \in holders' : OwnerLives(h)'
      BY <3>1, OwnerStays DEF BufferInv, OwnersLive, Keep
    <3> QED
      BY <3>2, <3>3 DEF OwnersLive
  <2> QED
    BY <2>1, <2>2, <2>3, <2>4 DEF BufferNext
<1> QED
  BY <1>1, <1>2, <1>3 DEF BufferInv

\* The owners of the buffers follow the calls and the worker in every state.
THEOREM BufferInvariant == BufferSpec => []BufferInv
<1>1. BufferInit => BufferInv
  BY BufferInitSound
<1>2. BufferInv /\ [BufferNext]_bufferVars => BufferInv'
  BY BufferNextSound
<1> QED
  BY <1>1, <1>2, PTL DEF BufferSpec

\* SqliteMemory: an allocated buffer has one owner until it is freed, and it is
\* freed once, for any number of calls and images, wherever calls are cancelled
\* and tasks panic.
THEOREM FreedOnce == BufferSpec => []OneHolder
<1>1. BufferInv => OneHolder
  BY HeldOnceIsOneHolder DEF BufferInv
<1> QED
  BY <1>1, BufferInvariant, PTL

\* No buffer is left to a closure, a result, a oneshot or a connection that has
\* gone without freeing it.
THEOREM NeverLost == BufferSpec => []OwnersLive
<1>1. BufferInv => OwnersLive
  BY DEF BufferInv
<1> QED
  BY <1>1, BufferInvariant, PTL
=============================================================================
