------------------------ MODULE StorageHandleProofs ------------------------
(***************************************************************************)
(* Theorems about StorageHandle for any number of callers, calls and any   *)
(* capacity: the channel and the senders that wait for room are one line,  *)
(* which a call enters once and leaves at its head, or when its caller     *)
(* gives up or panics.                                                     *)
(***************************************************************************)
EXTENDS StorageHandle, SequenceTheorems, TLAPS

-----------------------------------------------------------------------------
(* Facts about sequences *)

LEMMA AppendKeepsElements ==
    ASSUME NEW S, NEW s \in Seq(S), NEW e \in S
    PROVE  /\ Append(s, e) \in Seq(S)
           /\ Len(Append(s, e)) = Len(s) + 1
           /\ \A i \in 1..Len(s) + 1 :
                Append(s, e)[i] = IF i = Len(s) + 1 THEN e ELSE s[i]
<1>1. Len(s) \in Nat
  BY LenProperties
<1> QED
  BY <1>1, AppendProperties

LEMMA AppendToConcat ==
    ASSUME NEW S, NEW s \in Seq(S), NEW t \in Seq(S), NEW e \in S
    PROVE  s \o Append(t, e) = Append(s \o t, e)
<1>1. /\ Append(t, e) = t \o <<e>>
      /\ Append(s \o t, e) = (s \o t) \o <<e>>
      /\ <<e>> \in Seq(S)
  BY AppendIsConcat, ConcatProperties
<1> QED
  BY <1>1, ConcatAssociative

LEMMA HeadTailOfConcat ==
    ASSUME NEW S, NEW s \in Seq(S), NEW t \in Seq(S), s # <<>>
    PROVE  /\ s \o t # <<>>
           /\ Head(s \o t) = Head(s)
           /\ Tail(s \o t) = Tail(s) \o t
<1>1. /\ s \o t \in Seq(S) /\ Len(s \o t) = Len(s) + Len(t)
      /\ \A i \in 1..Len(s) + Len(t) :
           (s \o t)[i] = IF i <= Len(s) THEN s[i] ELSE t[i - Len(s)]
  BY ConcatProperties
<1>2. Len(s) \in Nat \ {0} /\ Len(t) \in Nat
  BY EmptySeq, LenProperties
<1>3. s \o t # <<>>
  BY ConcatEqualIffEmpty
<1>4. Head(s \o t) = Head(s)
  BY <1>1, <1>2, <1>3
<1>5. /\ Tail(s) \in Seq(S) /\ Len(Tail(s)) = Len(s) - 1
      /\ \A i \in 1..Len(s) - 1 : Tail(s)[i] = s[i + 1]
  BY HeadTailProperties
<1>6. /\ Tail(s \o t) \in Seq(S) /\ Len(Tail(s \o t)) = Len(s) + Len(t) - 1
      /\ \A i \in 1..Len(s) + Len(t) - 1 : Tail(s \o t)[i] = (s \o t)[i + 1]
  BY <1>1, <1>3, HeadTailProperties
<1>7. /\ Tail(s) \o t \in Seq(S) /\ Len(Tail(s) \o t) = Len(s) - 1 + Len(t)
      /\ \A i \in 1..Len(s) - 1 + Len(t) :
           (Tail(s) \o t)[i] = IF i <= Len(s) - 1 THEN Tail(s)[i]
                               ELSE t[i - (Len(s) - 1)]
  BY <1>5, ConcatProperties
<1>8. \A i \in 1..Len(s) + Len(t) - 1 : Tail(s \o t)[i] = (Tail(s) \o t)[i]
  BY <1>1, <1>2, <1>5, <1>6, <1>7
<1>9. Tail(s \o t) = Tail(s) \o t
  BY <1>2, <1>6, <1>7, <1>8, SeqEqual
<1> QED
  BY <1>3, <1>4, <1>9

\* s with the first n elements of t behind it, and what is left of t.
Joined(s, t, n) == s \o SubSeq(t, 1, n)
Rest(t, n) == SubSeq(t, n + 1, Len(t))

\* What is pulled from the head of t and put behind s does not change s \o t.
LEMMA PullKeepsConcat ==
    ASSUME NEW S, NEW s \in Seq(S), NEW t \in Seq(S), NEW n \in 0..Len(t)
    PROVE  /\ Joined(s, t, n) \in Seq(S) /\ Len(Joined(s, t, n)) = Len(s) + n
           /\ Rest(t, n) \in Seq(S) /\ Len(Rest(t, n)) = Len(t) - n
           /\ Joined(s, t, n) \o Rest(t, n) = s \o t
<1> DEFINE a == SubSeq(t, 1, n)
           b == Rest(t, n)
<1>1. /\ Len(t) \in Nat /\ Len(s) \in Nat
      /\ \A i \in 1..Len(t) : t[i] \in S
  BY LenProperties, ElementOfSeq
<1>2. a \in Seq(S) /\ Len(a) = n
  BY <1>1, SubSeqProperties
<1>3. b \in Seq(S) /\ Len(b) = Len(t) - n
  <2>1. /\ n + 1 \in Int /\ Len(t) \in Int
        /\ \A i \in n + 1..Len(t) : t[i] \in S
    BY <1>1
  <2>2. /\ SubSeq(t, n + 1, Len(t)) \in Seq(S)
        /\ Len(SubSeq(t, n + 1, Len(t))) =
             IF n + 1 <= Len(t) THEN Len(t) - (n + 1) + 1 ELSE 0
    BY <2>1, SubSeqProperties
  <2> QED
    BY <1>1, <2>2 DEF Rest
<1>4. a \o b = t
  <2>1. 1 \in 1..Len(t) + 1 /\ n \in 1 - 1..Len(t) /\ Len(t) \in n..Len(t)
    BY <1>1
  <2>2. SubSeq(t, 1, n) \o SubSeq(t, n + 1, Len(t)) = SubSeq(t, 1, Len(t))
    BY <2>1, ConcatAdjacentSubSeq
  <2> QED
    BY <2>2, SubSeqFull DEF Rest
<1>5. Joined(s, t, n) = s \o a
  BY DEF Joined
<1> HIDE DEF a, b
<1>6. s \o a \in Seq(S) /\ Len(s \o a) = Len(s) + n
  BY <1>2, ConcatProperties
<1>7. (s \o a) \o b = s \o (a \o b)
  <2>1. a \in Seq(S) /\ b \in Seq(S)
    BY <1>2, <1>3
  <2> QED
    BY <2>1, ConcatAssociative
<1>8. Joined(s, t, n) \o b = s \o t
  BY <1>4, <1>5, <1>7
<1> QED
  BY <1>3, <1>5, <1>6, <1>8 DEF b

-----------------------------------------------------------------------------
(* Lines without repetition *)

Distinct(s) == \A i, j \in 1..Len(s) : s[i] = s[j] => i = j

\* RemoveFirst takes out the only occurrence, or nothing.
LEMMA RemoveFirstFromDistinct ==
    ASSUME NEW S, NEW s \in Seq(S), NEW e, Distinct(s)
    PROVE  \/ /\ \A i \in 1..Len(s) : s[i] # e
              /\ RemoveFirst(s, e) = s
           \/ \E i \in 1..Len(s) :
                /\ s[i] = e
                /\ RemoveFirst(s, e) = RemoveAt(s, i)
<1>1. CASE \A i \in 1..Len(s) : s[i] # e
  BY <1>1 DEF RemoveFirst
<1>2. CASE \E i \in 1..Len(s) : s[i] = e
  <2>1. PICK i \in 1..Len(s) : s[i] = e
    BY <1>2
  <2>2. {j \in 1..Len(s) : s[j] = e} = {i}
    BY <2>1 DEF Distinct
  <2>3. Len(s) \in Nat
    BY LenProperties
  <2>4. Min({i}) = i
    BY <2>3 DEF Min
  <2>5. SelectInSeq(s, LAMBDA v : v = e) = i
    BY <2>2, <2>4 DEF SelectInSeq
  <2> QED
    BY <1>2, <2>1, <2>5 DEF RemoveFirst
<1> QED
  BY <1>1, <1>2

LEMMA DistinctAppend ==
    ASSUME NEW S, NEW s \in Seq(S), NEW e \in S,
           Distinct(s), \A i \in 1..Len(s) : s[i] # e
    PROVE  Distinct(Append(s, e))
<1>1. Len(s) \in Nat
  BY LenProperties
<1> QED
  BY <1>1, AppendKeepsElements DEF Distinct

LEMMA DistinctTail ==
    ASSUME NEW S, NEW s \in Seq(S), s # <<>>, Distinct(s)
    PROVE  /\ Distinct(Tail(s))
           /\ \A i \in 1..Len(Tail(s)) :
                Tail(s)[i] # Head(s) /\ \E j \in 1..Len(s) : Tail(s)[i] = s[j]
<1>1. Len(s) \in Nat \ {0}
  BY EmptySeq
<1>2. Head(s) = s[1]
  BY <1>1
<1>3. /\ Len(Tail(s)) = Len(s) - 1
      /\ \A i \in 1..Len(s) - 1 : Tail(s)[i] = s[i + 1]
  BY HeadTailProperties
<1>4. \A i \in 1..Len(s) - 1 : i + 1 \in 1..Len(s) /\ i + 1 # 1
  BY <1>1
<1>5. Distinct(Tail(s))
  BY <1>1, <1>3, <1>4 DEF Distinct
<1> QED
  BY <1>1, <1>2, <1>3, <1>4, <1>5 DEF Distinct

LEMMA LeftOfDistinct ==
    ASSUME NEW S, NEW line \in Seq(S), NEW s, Serial!LeftOf(s, line), Distinct(line)
    PROVE  /\ s \in Seq(S)
           /\ Distinct(s)
           /\ \A i \in 1..Len(s) : \E j \in 1..Len(line) : s[i] = line[j]
<1>0. PICK n \in 0..Len(line) : \E kept \in [1..n -> 1..Len(line)] :
        /\ \A i, j \in 1..n : i < j => kept[i] < kept[j]
        /\ s = [i \in 1..n |-> line[kept[i]]]
  BY DEF Serial!LeftOf
<1>1. PICK kept \in [1..n -> 1..Len(line)] :
        /\ \A i, j \in 1..n : i < j => kept[i] < kept[j]
        /\ s = [i \in 1..n |-> line[kept[i]]]
  BY <1>0
<1>2. Len(line) \in Nat /\ n \in Nat /\ \A i \in 1..n : kept[i] \in 1..Len(line)
  BY LenProperties
<1>3. \A i \in 1..n : line[kept[i]] \in S
  BY <1>2, ElementOfSeq
<1>4. s \in Seq(S) /\ Len(s) = n /\ \A i \in 1..n : s[i] = line[kept[i]]
  BY <1>1, <1>2, <1>3
<1>5. \A i, j \in 1..n : kept[i] = kept[j] => i = j
  BY <1>1, <1>2
<1>6. Distinct(s)
  BY <1>2, <1>4, <1>5 DEF Distinct
<1> QED
  BY <1>2, <1>4, <1>6

\* What is left of a line when the calls of its end are taken from it.
LEMMA FrontIsLeft ==
    ASSUME NEW S, NEW s \in Seq(S), NEW t \in Seq(S)
    PROVE  Serial!LeftOf(s, s \o t)
<1>1. Len(s) \in Nat /\ Len(t) \in Nat
  BY LenProperties
<1>2. /\ Len(s \o t) = Len(s) + Len(t)
      /\ \A i \in 1..Len(s) : (s \o t)[i] = s[i]
  BY <1>1, ConcatProperties
<1> DEFINE kept == [i \in 1..Len(s) |-> i]
<1>3. kept \in [1..Len(s) -> 1..Len(s \o t)]
  BY <1>1, <1>2
<1>4. s = [i \in 1..Len(s) |-> (s \o t)[kept[i]]]
  <2>1. s = [i \in 1..Len(s) |-> s[i]]
    BY LenProperties
  <2> QED
    BY <1>2, <2>1
<1>5. Len(s) \in 0..Len(s \o t)
  BY <1>1, <1>2
<1>6. \A i, j \in 1..Len(s) : i < j => kept[i] < kept[j]
  OBVIOUS
<1> HIDE DEF kept
<1> QED
  BY <1>3, <1>4, <1>5, <1>6 DEF Serial!LeftOf

\* What is left when the calls of both ends are taken from a line.
LEMMA MiddleIsLeft ==
    ASSUME NEW S, NEW f \in Seq(S), NEW s \in Seq(S), NEW t \in Seq(S)
    PROVE  Serial!LeftOf(s, f \o (s \o t))
<1> DEFINE line == f \o (s \o t)
           kept == [i \in 1..Len(s) |-> Len(f) + i]
<1>1. Len(f) \in Nat /\ Len(s) \in Nat /\ Len(t) \in Nat
  BY LenProperties
<1>2. /\ s \o t \in Seq(S) /\ Len(s \o t) = Len(s) + Len(t)
      /\ \A i \in 1..Len(s) : (s \o t)[i] = s[i]
  BY <1>1, ConcatProperties
<1>3. /\ Len(line) = Len(f) + Len(s \o t)
      /\ \A i \in 1..Len(f) + Len(s \o t) :
           line[i] = IF i <= Len(f) THEN f[i] ELSE (s \o t)[i - Len(f)]
  BY <1>2, ConcatProperties
<1> HIDE DEF line
<1>4. ASSUME NEW i \in 1..Len(s)
      PROVE  kept[i] \in 1..Len(line) /\ line[kept[i]] = s[i]
  <2>1. /\ Len(f) + i \in 1..Len(f) + Len(s \o t)
        /\ ~(Len(f) + i <= Len(f)) /\ (Len(f) + i) - Len(f) = i
    BY <1>1, <1>2
  <2>2. line[Len(f) + i] = (s \o t)[(Len(f) + i) - Len(f)]
    BY <1>3, <2>1
  <2>3. (s \o t)[i] = s[i]
    BY <1>2
  <2> QED
    BY <1>3, <2>1, <2>2, <2>3
<1>5. kept \in [1..Len(s) -> 1..Len(line)]
  BY <1>4
<1>6. \A i, j \in 1..Len(s) : i < j => kept[i] < kept[j]
  BY <1>1
<1>7. Len(s) \in 0..Len(line)
  BY <1>1, <1>2, <1>3
<1> HIDE DEF kept
<1>8. s = [i \in 1..Len(s) |-> line[kept[i]]]
  <2>1. s = [i \in 1..Len(s) |-> s[i]]
    BY LenProperties
  <2> QED
    BY <1>4, <2>1
<1>9. Serial!LeftOf(s, line)
  BY <1>5, <1>6, <1>7, <1>8 DEF Serial!LeftOf
<1> QED
  BY <1>9 DEF line

\* What leaves a line leaves it also behind f.
LEMMA LeftBehind ==
    ASSUME NEW S, NEW f \in Seq(S), NEW s \in Seq(S), NEW line \in Seq(S),
           Serial!LeftOf(s, line)
    PROVE  Serial!LeftOf(f \o s, f \o line)
<1>1. PICK n \in 0..Len(line) : \E kept \in [1..n -> 1..Len(line)] :
        /\ \A i, j \in 1..n : i < j => kept[i] < kept[j]
        /\ s = [i \in 1..n |-> line[kept[i]]]
  BY DEF Serial!LeftOf
<1>2. PICK kept \in [1..n -> 1..Len(line)] :
        /\ \A i, j \in 1..n : i < j => kept[i] < kept[j]
        /\ s = [i \in 1..n |-> line[kept[i]]]
  BY <1>1
<1>3. /\ Len(f) \in Nat /\ Len(line) \in Nat /\ n \in Nat
      /\ Len(s) = n /\ \A i \in 1..n : s[i] = line[kept[i]]
      /\ \A i \in 1..n : kept[i] \in 1..Len(line)
  <2>1. DOMAIN s = 1..Len(s) /\ Len(s) \in Nat
    BY LenProperties
  <2>2. DOMAIN s = 1..n
    BY <1>2
  <2> QED
    BY <1>2, <2>1, <2>2, LenProperties
<1> DEFINE fs == f \o s
           fl == f \o line
           m == Len(f) + n
           k == [i \in 1..m |-> IF i <= Len(f) THEN i ELSE Len(f) + kept[i - Len(f)]]
<1>4. /\ fs \in Seq(S) /\ Len(fs) = Len(f) + Len(s)
      /\ \A i \in 1..Len(f) + Len(s) : fs[i] = IF i <= Len(f) THEN f[i] ELSE s[i - Len(f)]
  BY ConcatProperties
<1>5. /\ Len(fl) = Len(f) + Len(line)
      /\ \A i \in 1..Len(f) + Len(line) :
           fl[i] = IF i <= Len(f) THEN f[i] ELSE line[i - Len(f)]
  BY ConcatProperties
<1> HIDE DEF fs, fl
<1>6. ASSUME NEW i \in 1..m
      PROVE  k[i] \in 1..Len(fl) /\ fs[i] = fl[k[i]]
  <2>1. CASE i <= Len(f)
    <3>1. k[i] = i /\ i \in 1..Len(f) + Len(line) /\ i \in 1..Len(f) + Len(s)
      BY <1>3, <2>1
    <3> QED
      BY <1>4, <1>5, <2>1, <3>1
  <2>2. CASE ~(i <= Len(f))
    <3>1. i - Len(f) \in 1..n /\ k[i] = Len(f) + kept[i - Len(f)]
      BY <1>3, <2>2
    <3>2. kept[i - Len(f)] \in 1..Len(line)
      BY <1>3, <3>1
    <3>3. /\ k[i] \in 1..Len(f) + Len(line) /\ ~(k[i] <= Len(f))
          /\ k[i] - Len(f) = kept[i - Len(f)]
      BY <1>3, <3>1, <3>2
    <3>4. fl[k[i]] = line[k[i] - Len(f)]
      BY <1>5, <3>3
    <3>5. fs[i] = s[i - Len(f)]
      BY <1>3, <1>4, <2>2
    <3>6. s[i - Len(f)] = line[kept[i - Len(f)]]
      BY <1>3, <3>1
    <3> QED
      BY <1>5, <3>3, <3>4, <3>5, <3>6
  <2> QED
    BY <2>1, <2>2
<1>7. k \in [1..m -> 1..Len(fl)] /\ m \in 0..Len(fl)
  BY <1>3, <1>5, <1>6
<1>8. ASSUME NEW i \in 1..m, NEW j \in 1..m, i < j
      PROVE  k[i] < k[j]
  <2>1. CASE j <= Len(f)
    BY <1>3, <1>8, <2>1
  <2>2. CASE i <= Len(f) /\ ~(j <= Len(f))
    <3>1. j - Len(f) \in 1..n
      BY <1>3, <2>2
    <3>2. kept[j - Len(f)] \in 1..Len(line)
      BY <1>3, <3>1
    <3> QED
      BY <1>3, <2>2, <3>2
  <2>3. CASE ~(i <= Len(f))
    <3>1. i - Len(f) \in 1..n /\ j - Len(f) \in 1..n /\ i - Len(f) < j - Len(f)
      BY <1>3, <1>8, <2>3
    <3>2. kept[i - Len(f)] < kept[j - Len(f)]
      BY <1>2, <3>1
    <3>3. kept[i - Len(f)] \in 1..Len(line) /\ kept[j - Len(f)] \in 1..Len(line)
      BY <1>3, <3>1
    <3> QED
      BY <1>3, <1>8, <2>3, <3>2, <3>3
  <2> QED
    BY <1>3, <2>1, <2>2, <2>3
<1>9. Len(fs) = m /\ fs = [i \in 1..m |-> fs[i]]
  BY <1>3, <1>4, LenProperties
<1> HIDE DEF k, m
<1>10. fs = [i \in 1..m |-> fl[k[i]]]
  BY <1>6, <1>9
<1>11. Serial!LeftOf(fs, fl)
  BY <1>7, <1>8, <1>10 DEF Serial!LeftOf
<1> QED
  BY <1>11 DEF fs, fl

LEMMA RemoveAtProperties ==
    ASSUME NEW S, NEW t \in Seq(S), NEW k \in 1..Len(t)
    PROVE  /\ RemoveAt(t, k) \in Seq(S) /\ Len(RemoveAt(t, k)) = Len(t) - 1
           /\ \A i \in 1..Len(t) - 1 :
                RemoveAt(t, k)[i] = IF i <= k - 1 THEN t[i] ELSE t[i + 1]
<1> DEFINE a == SubSeq(t, 1, k - 1)
           b == SubSeq(t, k + 1, Len(t))
<1>1. Len(t) \in Nat /\ \A i \in 1..Len(t) : t[i] \in S
  BY LenProperties, ElementOfSeq
<1>2. a \in Seq(S) /\ Len(a) = k - 1 /\ \A i \in 1..k - 1 : a[i] = t[i]
  BY <1>1, SubSeqProperties
<1>3. /\ b \in Seq(S) /\ Len(b) = Len(t) - k
      /\ \A i \in 1..Len(t) - k : b[i] = t[k + i]
  <2>1. k + 1 \in Int /\ Len(t) \in Int /\ \A i \in k + 1..Len(t) : t[i] \in S
    BY <1>1
  <2>2. /\ b \in Seq(S)
        /\ Len(b) = IF k + 1 <= Len(t) THEN Len(t) - (k + 1) + 1 ELSE 0
        /\ \A i \in 1..Len(t) - (k + 1) + 1 : b[i] = t[(k + 1) + i - 1]
    BY <2>1, SubSeqProperties
  <2> QED
    BY <1>1, <2>2
<1> HIDE DEF a, b
<1>4. /\ a \o b \in Seq(S) /\ Len(a \o b) = Len(a) + Len(b)
      /\ \A i \in 1..Len(a) + Len(b) :
           (a \o b)[i] = IF i <= Len(a) THEN a[i] ELSE b[i - Len(a)]
  BY <1>2, <1>3, ConcatProperties
<1>5. /\ a \o b \in Seq(S) /\ Len(a \o b) = Len(t) - 1
      /\ \A i \in 1..Len(t) - 1 :
           (a \o b)[i] = IF i <= k - 1 THEN t[i] ELSE t[i + 1]
  BY <1>1, <1>2, <1>3, <1>4
<1>6. RemoveAt(t, k) = a \o b
  BY DEF RemoveAt, a, b
<1> QED
  BY <1>5, <1>6

\* One call is taken out of the line.
LEMMA OneOutIsLeft ==
    ASSUME NEW S, NEW s \in Seq(S), NEW t \in Seq(S), NEW k \in 1..Len(t)
    PROVE  Serial!LeftOf(s \o RemoveAt(t, k), s \o t)
<1> DEFINE r == RemoveAt(t, k)
           line == s \o t
           left == s \o r
           n == Len(s) + Len(t) - 1
           kept == [i \in 1..n |-> IF i <= Len(s) + k - 1 THEN i ELSE i + 1]
<1>1. Len(s) \in Nat /\ Len(t) \in Nat /\ \A i \in 1..Len(t) : t[i] \in S
  BY LenProperties, ElementOfSeq
<1>2. /\ r \in Seq(S) /\ Len(r) = Len(t) - 1
      /\ \A i \in 1..Len(t) - 1 : r[i] = IF i <= k - 1 THEN t[i] ELSE t[i + 1]
  BY RemoveAtProperties
<1> HIDE DEF r
<1>3. /\ line \in Seq(S) /\ Len(line) = Len(s) + Len(t)
      /\ \A i \in 1..Len(s) + Len(t) :
           line[i] = IF i <= Len(s) THEN s[i] ELSE t[i - Len(s)]
  BY ConcatProperties
<1>4. /\ left \in Seq(S) /\ Len(left) = Len(s) + Len(r)
      /\ \A i \in 1..Len(s) + Len(r) :
           left[i] = IF i <= Len(s) THEN s[i] ELSE r[i - Len(s)]
  BY <1>2, ConcatProperties
<1> HIDE DEF line, left
<1>5. /\ kept \in [1..n -> 1..Len(line)]
      /\ \A i, j \in 1..n : i < j => kept[i] < kept[j]
      /\ n \in 0..Len(line)
  BY <1>1, <1>3
<1>6. \A i \in 1..n : left[i] = line[kept[i]]
  <2> TAKE i \in 1..n
  <2>1. i \in 1..Len(s) + Len(r) /\ kept[i] \in 1..Len(s) + Len(t)
    BY <1>1, <1>2
  <2>2. CASE i <= Len(s)
    <3>1. left[i] = s[i] /\ line[i] = s[i] /\ kept[i] = i
      BY <1>1, <1>3, <1>4, <2>1, <2>2
    <3> QED
      BY <3>1
  <2>3. CASE Len(s) < i /\ i <= Len(s) + k - 1
    <3>1. left[i] = r[i - Len(s)] /\ line[i] = t[i - Len(s)] /\ kept[i] = i
      BY <1>1, <1>3, <1>4, <2>1, <2>3
    <3>2. r[i - Len(s)] = t[i - Len(s)]
      <4>1. i - Len(s) \in 1..Len(t) - 1 /\ i - Len(s) <= k - 1
        BY <1>1, <2>3
      <4> QED
        BY <1>2, <4>1
    <3> QED
      BY <3>1, <3>2
  <2>4. CASE Len(s) + k - 1 < i
    <3>1. left[i] = r[i - Len(s)] /\ kept[i] = i + 1
      BY <1>1, <1>4, <2>1, <2>4
    <3>2. line[i + 1] = t[i + 1 - Len(s)]
      BY <1>1, <1>3, <2>1, <2>4, <3>1
    <3>3. r[i - Len(s)] = t[i - Len(s) + 1]
      <4>1. i - Len(s) \in 1..Len(t) - 1 /\ ~(i - Len(s) <= k - 1)
        BY <1>1, <2>4
      <4> QED
        BY <1>2, <4>1
    <3>4. i - Len(s) + 1 = i + 1 - Len(s)
      BY <1>1
    <3> QED
      BY <3>1, <3>2, <3>3, <3>4
  <2> QED
    BY <1>1, <2>2, <2>3, <2>4
<1>7. Len(left) = n
  BY <1>1, <1>2, <1>4
<1>8. left = [i \in 1..n |-> left[i]]
  BY <1>4, <1>7, LenProperties
<1> HIDE DEF kept, n
<1>9. left = [i \in 1..n |-> line[kept[i]]]
  BY <1>6, <1>8
<1>10. Serial!LeftOf(left, line)
  BY <1>5, <1>9 DEF Serial!LeftOf
<1> QED
  BY <1>10 DEF r, left, line

-----------------------------------------------------------------------------
(* The inductive invariant *)

\* A call in line has been submitted, has not been taken by the worker and is
\* not answered; so it is there once.
LineSound ==
    /\ Distinct(Line)
    /\ \A i \in 1..Len(Line) :
         Line[i] # running /\ status[Line[i]] # "new" /\ reply[Line[i]] = 0

\* The worker holds a submitted call without an answer, and once that has run
\* it is the last of those executed.
RunSound ==
    /\ running = NoCall => ~ran
    /\ running # NoCall => status[running] # "new" /\ reply[running] = 0
    /\ ran => executed # <<>> /\ executed[Len(executed)] = running

\* A call that is not submitted has left no trace.
NewSound ==
    /\ \A i \in 1..Len(executed) : status[executed[i]] # "new"
    /\ \A c \in Call : status[c] = "new" => reply[c] = 0

IInv == TypeOK /\ BoundedFifo /\ LineSound /\ RunSound /\ NewSound

LEMMA LineType ==
    ASSUME TypeOK
    PROVE  /\ Line \in Seq(Call) /\ Len(Line) \in Nat
           /\ \A i \in 1..Len(Line) : Line[i] \in Call
           /\ Len(queue) \in Nat /\ Len(waiting) \in Nat /\ Len(executed) \in Nat
           /\ \A i \in 1..Len(executed) : executed[i] \in Call
<1>1. queue \in Seq(Call) /\ waiting \in Seq(Call) /\ executed \in Seq(Call)
  BY DEF TypeOK
<1>2. Line \in Seq(Call)
  BY <1>1, ConcatProperties DEF Line
<1> QED
  BY <1>1, <1>2, LenProperties, ElementOfSeq

LEMMA InitSound ==
    ASSUME Init
    PROVE  IInv
<1>1. <<>> \in Seq(Call) /\ Len(<<>>) = 0 /\ <<>> \o <<>> = <<>>
  BY EmptySeq, ConcatEmptySeq
<1>2. TypeOK
  <2>1. reply \in [Call -> 0..Len(executed)]
    BY <1>1 DEF Init
  <2>2. status \in [Call -> {"new", "open"} \cup Ended]
    BY DEF Init
  <2>3. /\ queue \in Seq(Call) /\ waiting \in Seq(Call) /\ executed \in Seq(Call)
        /\ running = NoCall /\ ran \in BOOLEAN /\ handles \in BOOLEAN
        /\ worker = "running"
    BY <1>1 DEF Init
  <2> QED
    BY <2>1, <2>2, <2>3 DEF TypeOK
<1>3. BoundedFifo
  BY <1>1, StorageHandleAssumption DEF Init, BoundedFifo
<1>4. Line = <<>>
  BY <1>1 DEF Init, Line
<1>5. LineSound
  BY <1>1, <1>4 DEF LineSound, Distinct
<1>6. RunSound
  BY DEF Init, RunSound
<1>7. NewSound
  BY <1>1 DEF Init, NewSound
<1> QED
  BY <1>2, <1>3, <1>5, <1>6, <1>7 DEF IInv

\* A line of which something is left is sound as long as the worker and the
\* answers are as they were, or the worker has let its task go.
LEMMA LeftLineSound ==
    ASSUME IInv,
           Serial!LeftOf(Line', Line),
           running' \in {running, NoCall},
           \A c \in Call : status[c] # "new" => status'[c] # "new",
           reply' = reply
    PROVE  LineSound'
<1>1. /\ Line \in Seq(Call) /\ \A i \in 1..Len(Line) : Line[i] \in Call
  BY LineType DEF IInv
<1>2. /\ Distinct(Line')
      /\ \A i \in 1..Len(Line') : \E j \in 1..Len(Line) : Line'[i] = Line[j]
  BY <1>1, LeftOfDistinct DEF IInv, LineSound
<1>3. ASSUME NEW i \in 1..Len(Line')
      PROVE  /\ Line'[i] # running'
             /\ status'[Line'[i]] # "new"
             /\ reply'[Line'[i]] = 0
  <2>1. PICK j \in 1..Len(Line) : Line'[i] = Line[j]
    BY <1>2
  <2>2. Line[j] \in Call /\ Line[j] # NoCall
    BY <1>1, NoCallAssumption
  <2> QED
    BY <2>1, <2>2 DEF IInv, LineSound
<1> QED
  BY <1>2, <1>3 DEF LineSound, Distinct

LEMMA SubmitSound ==
    ASSUME IInv, NEW c \in Call, Submit(c)
    PROVE  IInv' /\ Line' = IF worker = "dead" THEN Line ELSE Append(Line, c)
<1> USE DEF IInv
<1>1. /\ Line \in Seq(Call) /\ Len(Line) \in Nat
      /\ \A i \in 1..Len(Line) : Line[i] \in Call
      /\ Len(queue) \in Nat
  BY LineType
<1>2. /\ status' \in [Call -> {"new", "open"} \cup Ended]
      /\ status[c] = "new" /\ status'[c] # "new"
      /\ \A d \in Call : d # c => status'[d] = status[d]
  BY DEF Submit, TypeOK, Ended
<1>3. UNCHANGED <<running, ran, executed, reply, worker, handles>>
  BY DEF Submit
<1>4. /\ queue' \in Seq(Call) /\ waiting' \in Seq(Call)
      /\ Line' = IF worker = "dead" THEN Line ELSE Append(Line, c)
      /\ BoundedFifo'
  <2>0. queue \in Seq(Call) /\ waiting \in Seq(Call) /\ Capacity \in Nat
    BY StorageHandleAssumption DEF TypeOK
  <2>1. CASE worker = "dead"
    <3>1. queue' = queue /\ waiting' = waiting
      BY <2>1 DEF Submit
    <3> QED
      BY <2>0, <2>1, <3>1 DEF BoundedFifo, Line
  <2>2. CASE worker # "dead" /\ Len(queue) < Capacity
    <3>1. queue' = Append(queue, c) /\ waiting' = waiting
      BY <2>2 DEF Submit
    <3>2. waiting = <<>>
      BY <1>1, <2>0, <2>2 DEF BoundedFifo
    <3>3. queue' \in Seq(Call) /\ Len(queue') = Len(queue) + 1
      BY <2>0, <3>1, AppendKeepsElements
    <3>4. Line' = queue' /\ Line = queue
      BY <2>0, <3>1, <3>2, <3>3, ConcatEmptySeq DEF Line
    <3>5. BoundedFifo'
      BY <1>1, <2>0, <2>2, <3>1, <3>2, <3>3 DEF BoundedFifo
    <3> QED
      BY <2>0, <2>2, <3>1, <3>3, <3>4, <3>5
  <2>3. CASE worker # "dead" /\ ~(Len(queue) < Capacity)
    <3>1. waiting' = Append(waiting, c) /\ queue' = queue
      BY <2>3 DEF Submit
    <3>2. waiting' \in Seq(Call)
      BY <2>0, <3>1, AppendKeepsElements
    <3>3. Line' = Append(Line, c)
      BY <2>0, <3>1, AppendToConcat DEF Line
    <3>4. BoundedFifo'
      BY <1>1, <2>0, <2>3, <3>1 DEF BoundedFifo
    <3> QED
      BY <2>0, <2>3, <3>1, <3>2, <3>3, <3>4
  <2> QED
    BY <2>1, <2>2, <2>3
<1>5. Line' = Append(Line, c) \/ Line' = Line
  BY <1>4
<1>6. TypeOK'
  BY <1>2, <1>3, <1>4 DEF TypeOK
<1>7. \A d \in Call : status[d] # "new" => status'[d] # "new"
  BY <1>2
<1>8. LineSound'
  <2>1. CASE Line' = Line
    <3>1. \A i \in 1..Len(Line) : status'[Line[i]] # "new"
      BY <1>1, <1>7 DEF LineSound
    <3> QED
      BY <1>3, <2>1, <3>1 DEF LineSound, Distinct
  <2>2. CASE Line' = Append(Line, c)
    <3>1. \A i \in 1..Len(Line) : Line[i] # c
      BY <1>2 DEF LineSound
    <3>2. Distinct(Line')
      BY <1>1, <2>2, <3>1, DistinctAppend DEF LineSound
    <3>3. /\ Len(Line') = Len(Line) + 1
          /\ \A i \in 1..Len(Line) + 1 :
               Line'[i] = IF i = Len(Line) + 1 THEN c ELSE Line[i]
      BY <1>1, <2>2, AppendKeepsElements
    <3>4. c # running /\ reply[c] = 0
      BY <1>2, NoCallAssumption DEF RunSound, NewSound
    <3>5. ASSUME NEW i \in 1..Len(Line) + 1
          PROVE  /\ Line'[i] # running
                 /\ status'[Line'[i]] # "new"
                 /\ reply[Line'[i]] = 0
      <4>1. CASE i = Len(Line) + 1
        BY <1>2, <3>3, <3>4, <4>1
      <4>2. CASE i # Len(Line) + 1
        <5>1. i \in 1..Len(Line) /\ Line'[i] = Line[i]
          BY <1>1, <3>3, <4>2
        <5> QED
          BY <1>1, <1>7, <5>1 DEF LineSound
      <4> QED
        BY <4>1, <4>2
    <3> QED
      BY <1>3, <3>2, <3>3, <3>5 DEF LineSound, Distinct
  <2> QED
    BY <1>5, <2>1, <2>2
<1>9. RunSound'
  BY <1>3, <1>7 DEF RunSound, TypeOK
<1>10. NewSound'
  <2>1. \A i \in 1..Len(executed) : status'[executed[i]] # "new"
    BY <1>7, LineType DEF NewSound
  <2>2. \A d \in Call : status'[d] = "new" => reply[d] = 0
    BY <1>2 DEF NewSound
  <2> QED
    BY <1>3, <2>1, <2>2 DEF NewSound
<1> QED
  BY <1>4, <1>5, <1>6, <1>8, <1>9, <1>10

LEMMA ReceiveSound ==
    ASSUME IInv, NEW c \in Call, Receive(c)
    PROVE  IInv'
<1> USE DEF IInv
<1>1. UNCHANGED <<queue, waiting, running, ran, executed, reply, worker, handles>>
  BY DEF Receive
<1>2. /\ status' \in [Call -> {"new", "open"} \cup Ended]
      /\ \A d \in Call : status'[d] # "new" <=> status[d] # "new"
  BY DEF Receive, TypeOK, Ended
<1>3. TypeOK' /\ BoundedFifo'
  BY <1>1, <1>2 DEF TypeOK, BoundedFifo
<1>4. LineSound'
  BY <1>1, <1>2, LineType DEF LineSound, Distinct, Line
<1>5. RunSound'
  BY <1>1, <1>2 DEF RunSound, TypeOK
<1>6. NewSound'
  <2>1. \A i \in 1..Len(executed) : status'[executed[i]] # "new"
    BY <1>2, LineType DEF NewSound
  <2>2. \A d \in Call : status'[d] = "new" => reply[d] = 0
    BY <1>2 DEF NewSound
  <2> QED
    BY <1>1, <2>1, <2>2 DEF NewSound
<1> QED
  BY <1>3, <1>4, <1>5, <1>6

LEMMA WaitingDistinct ==
    ASSUME TypeOK, LineSound
    PROVE  Distinct(waiting)
<1>0. /\ queue \in Seq(Call) /\ waiting \in Seq(Call)
      /\ Len(queue) \in Nat /\ Len(waiting) \in Nat
  BY LineType DEF TypeOK
<1>1. /\ Len(Line) = Len(queue) + Len(waiting)
      /\ \A i \in 1..Len(queue) + Len(waiting) :
           Line[i] = IF i <= Len(queue) THEN queue[i] ELSE waiting[i - Len(queue)]
  BY <1>0, ConcatProperties DEF Line
<1>2. \A i \in 1..Len(waiting) :
        /\ Len(queue) + i \in 1..Len(Line)
        /\ Line[Len(queue) + i] = waiting[i]
  <2> TAKE i \in 1..Len(waiting)
  <2>1. /\ Len(queue) + i \in 1..Len(queue) + Len(waiting)
        /\ ~(Len(queue) + i <= Len(queue))
        /\ (Len(queue) + i) - Len(queue) = i
    BY <1>0
  <2>2. Line[Len(queue) + i] = waiting[(Len(queue) + i) - Len(queue)]
    BY <1>1, <2>1
  <2> QED
    BY <1>1, <2>1, <2>2
<1>3. \A i, j \in 1..Len(waiting) : Len(queue) + i = Len(queue) + j => i = j
  BY <1>0
<1> QED
  BY <1>2, <1>3 DEF LineSound, Distinct

LEMMA CancelSound ==
    ASSUME IInv, NEW c \in Call, Cancel(c)
    PROVE  IInv' /\ Serial!LeftOf(Line', Line)
<1> USE DEF IInv
<1>1. UNCHANGED <<queue, running, ran, executed, reply, worker, handles>>
  BY DEF Cancel
<1>2. /\ status' \in [Call -> {"new", "open"} \cup Ended]
      /\ \A d \in Call : status'[d] # "new" <=> status[d] # "new"
  BY DEF Cancel, TypeOK, Ended
<1>3. /\ queue \in Seq(Call) /\ waiting \in Seq(Call)
      /\ Len(queue) \in Nat /\ Len(waiting) \in Nat
  BY LineType DEF TypeOK
<1>4. Distinct(waiting)
  BY WaitingDistinct
<1>5. /\ waiting' \in Seq(Call)
      /\ Serial!LeftOf(Line', Line)
      /\ waiting' # <<>> => waiting # <<>>
  <2>1. waiting' = RemoveFirst(waiting, c)
    BY DEF Cancel
  <2>2. CASE waiting' = waiting
    <3>1. Line' = Line
      BY <1>1, <2>2 DEF Line
    <3>2. Line \in Seq(Call) /\ <<>> \in Seq(Call)
      BY LineType, EmptySeq
    <3>3. Serial!LeftOf(Line, Line \o <<>>) /\ Line \o <<>> = Line
      BY <3>2, ConcatEmptySeq, FrontIsLeft
    <3> QED
      BY <1>3, <2>2, <3>1, <3>3
  <2>3. CASE waiting' # waiting
    <3>1. PICK i \in 1..Len(waiting) : waiting' = RemoveAt(waiting, i)
      BY <1>3, <1>4, <2>1, <2>3, RemoveFirstFromDistinct
    <3>2. waiting' \in Seq(Call) /\ Serial!LeftOf(queue \o waiting', queue \o waiting)
      BY <1>3, <3>1, OneOutIsLeft, RemoveAtProperties
    <3>3. waiting # <<>>
      BY <1>3, EmptySeq
    <3> QED
      BY <1>1, <3>2, <3>3 DEF Line
  <2> QED
    BY <2>2, <2>3
<1>6. TypeOK' /\ BoundedFifo'
  BY <1>1, <1>2, <1>5 DEF TypeOK, BoundedFifo
<1>7. LineSound'
  BY <1>1, <1>2, <1>5, LeftLineSound
<1>8. RunSound'
  BY <1>1, <1>2 DEF RunSound, TypeOK
<1>9. NewSound'
  <2>1. \A i \in 1..Len(executed) : status'[executed[i]] # "new"
    BY <1>2, LineType DEF NewSound
  <2>2. \A d \in Call : status'[d] = "new" => reply[d] = 0
    BY <1>2 DEF NewSound
  <2> QED
    BY <1>1, <2>1, <2>2 DEF NewSound
<1> QED
  BY <1>5, <1>6, <1>7, <1>8, <1>9

\* An action that leaves the calls alone.
LEMMA OutsideSound ==
    ASSUME IInv, DropHandles \/ WorkerExit
    PROVE  IInv'
<1> USE DEF IInv
<1>1. UNCHANGED <<queue, waiting, running, ran, executed, status, reply>>
  BY DEF DropHandles, WorkerExit
<1>2. worker' \in {worker, "exited"} /\ handles' \in {handles, FALSE}
  BY DEF DropHandles, WorkerExit
<1>3. TypeOK' /\ BoundedFifo'
  BY <1>1, <1>2 DEF TypeOK, BoundedFifo
<1>4. LineSound' /\ RunSound' /\ NewSound'
  BY <1>1 DEF LineSound, Distinct, Line, RunSound, NewSound
<1> QED
  BY <1>3, <1>4

LEMMA RecvSound ==
    ASSUME IInv, Recv
    PROVE  /\ IInv'
           /\ Line # <<>> /\ running' = Head(Line) /\ Line' = Tail(Line)
<1> USE DEF IInv
<1>1. UNCHANGED <<ran, executed, status, reply, worker, handles>>
  BY DEF Recv
<1>2. /\ queue \in Seq(Call) /\ waiting \in Seq(Call) /\ Capacity \in Nat
      /\ Len(queue) \in Nat /\ Len(waiting) \in Nat
  BY LineType, StorageHandleAssumption DEF TypeOK
<1>3. queue # <<>> /\ running = NoCall /\ running' = Head(queue)
  BY DEF Recv
<1>4. PICK n \in 0..Len(waiting) :
        /\ n = Len(waiting) \/ Len(queue) + n = Capacity + 1
        /\ Len(queue) + n <= Capacity + 1
        /\ queue' = Tail(queue) \o SubSeq(waiting, 1, n)
        /\ waiting' = SubSeq(waiting, n + 1, Len(waiting))
  BY DEF Recv
<1>5. Tail(queue) \in Seq(Call) /\ Len(Tail(queue)) = Len(queue) - 1
  BY <1>2, <1>3, HeadTailProperties
<1>6. /\ queue' \in Seq(Call) /\ Len(queue') = Len(Tail(queue)) + n
      /\ waiting' \in Seq(Call) /\ Len(waiting') = Len(waiting) - n
      /\ queue' \o waiting' = Tail(queue) \o waiting
  <2> DEFINE rest == Tail(queue)
             q == Joined(rest, waiting, n)
             w == Rest(waiting, n)
  <2>1. queue' = q /\ waiting' = w
    BY <1>4 DEF Joined, Rest
  <2>2. rest \in Seq(Call) /\ waiting \in Seq(Call) /\ n \in 0..Len(waiting)
    BY <1>2, <1>5
  <2> HIDE DEF rest
  <2>3. /\ q \in Seq(Call) /\ Len(q) = Len(rest) + n
        /\ w \in Seq(Call) /\ Len(w) = Len(waiting) - n
        /\ q \o w = rest \o waiting
    BY <2>2, PullKeepsConcat
  <2> HIDE DEF q, w
  <2>4. /\ queue' \in Seq(Call) /\ Len(queue') = Len(rest) + n
        /\ waiting' \in Seq(Call) /\ Len(waiting') = Len(waiting) - n
        /\ queue' \o waiting' = rest \o waiting
    BY <2>1, <2>3
  <2> QED
    BY <2>4 DEF rest
<1>7. queue' \in Seq(Call) /\ Len(queue') = Len(queue) - 1 + n
  BY <1>5, <1>6
<1>8. Line # <<>> /\ running' = Head(Line) /\ Line' = Tail(Line)
  BY <1>2, <1>3, <1>6, HeadTailOfConcat DEF Line
<1>9. /\ Line \in Seq(Call) /\ Len(Line) \in Nat \ {0}
      /\ \A i \in 1..Len(Line) : Line[i] \in Call
      /\ Head(Line) \in Call /\ Head(Line) = Line[1]
  <2>1. Line \in Seq(Call) /\ \A i \in 1..Len(Line) : Line[i] \in Call
    BY LineType
  <2>2. Len(Line) \in Nat \ {0}
    BY <1>8, <2>1, EmptySeq
  <2> QED
    BY <2>1, <2>2
<1>10. TypeOK'
  BY <1>1, <1>6, <1>7, <1>8, <1>9 DEF TypeOK
<1>11. BoundedFifo'
  <2>1. Len(queue') <= Capacity
    BY <1>2, <1>4, <1>7
  <2>2. ASSUME waiting' # <<>>
        PROVE  Len(queue') = Capacity
    <3>1. Len(waiting') # 0
      BY <1>6, <2>2, EmptySeq
    <3> QED
      BY <1>2, <1>4, <1>6, <1>7, <3>1
  <2> QED
    BY <2>1, <2>2 DEF BoundedFifo
<1>12. LineSound'
  <2>1. /\ Distinct(Tail(Line))
        /\ \A i \in 1..Len(Tail(Line)) :
             /\ Tail(Line)[i] # Head(Line)
             /\ \E j \in 1..Len(Line) : Tail(Line)[i] = Line[j]
    BY <1>8, <1>9, DistinctTail DEF LineSound
  <2>2. \A j \in 1..Len(Line) : status[Line[j]] # "new" /\ reply[Line[j]] = 0
    BY DEF LineSound
  <2>3. \A i \in 1..Len(Tail(Line)) :
          /\ Tail(Line)[i] # Head(Line)
          /\ status[Tail(Line)[i]] # "new" /\ reply[Tail(Line)[i]] = 0
    BY <2>1, <2>2
  <2> QED
    BY <1>1, <1>8, <2>1, <2>3 DEF LineSound, Distinct
<1>13. RunSound'
  <2>1. ~ran
    BY <1>3 DEF RunSound
  <2>2. status[Line[1]] # "new" /\ reply[Line[1]] = 0
    BY <1>9 DEF LineSound
  <2>3. running' = Line[1] /\ running' # NoCall
    BY <1>8, <1>9, NoCallAssumption
  <2> QED
    BY <1>1, <2>1, <2>2, <2>3 DEF RunSound
<1>14. NewSound'
  BY <1>1 DEF NewSound
<1> QED
  BY <1>8, <1>10, <1>11, <1>12, <1>13, <1>14

LEMMA RunKeepsSound ==
    ASSUME IInv, Run
    PROVE  IInv'
<1> USE DEF IInv
<1>1. /\ UNCHANGED <<queue, waiting, running, status, reply, worker, handles>>
      /\ running # NoCall /\ ~ran /\ ran' = TRUE
      /\ executed' = Append(executed, running)
  BY DEF Run
<1>2. running \in Call /\ executed \in Seq(Call) /\ Len(executed) \in Nat
  BY <1>1, LineType DEF TypeOK
<1>3. /\ executed' \in Seq(Call) /\ Len(executed') = Len(executed) + 1
      /\ \A i \in 1..Len(executed) + 1 :
           executed'[i] = IF i = Len(executed) + 1 THEN running ELSE executed[i]
  BY <1>1, <1>2, AppendKeepsElements
<1>4. reply' \in [Call -> 0..Len(executed')]
  BY <1>1, <1>2, <1>3 DEF TypeOK
<1>5. TypeOK' /\ BoundedFifo'
  BY <1>1, <1>3, <1>4 DEF TypeOK, BoundedFifo
<1>6. LineSound'
  BY <1>1 DEF LineSound, Distinct, Line
<1>7. RunSound'
  <2>1. executed' # <<>>
    BY <1>2, <1>3, EmptySeq
  <2>2. executed'[Len(executed')] = running
    BY <1>2, <1>3
  <2> QED
    BY <1>1, <2>1, <2>2 DEF RunSound
<1>8. NewSound'
  <2>1. ASSUME NEW i \in 1..Len(executed')
        PROVE  status[executed'[i]] # "new"
    <3>1. CASE i = Len(executed) + 1
      BY <1>1, <1>2, <1>3, <3>1 DEF RunSound
    <3>2. CASE i # Len(executed) + 1
      <4>1. i \in 1..Len(executed) /\ executed'[i] = executed[i]
        BY <1>2, <1>3, <3>2
      <4> QED
        BY <4>1 DEF NewSound
    <3> QED
      BY <3>1, <3>2
  <2> QED
    BY <1>1, <2>1 DEF NewSound
<1> QED
  BY <1>5, <1>6, <1>7, <1>8

LEMMA ReplySound ==
    ASSUME IInv, Reply
    PROVE  IInv'
<1> USE DEF IInv
<1>1. /\ UNCHANGED <<queue, waiting, executed, status, worker, handles>>
      /\ ran /\ ran' = FALSE /\ running' = NoCall
  BY DEF Reply
<1>2. running \in Call /\ status[running] # "new" /\ Len(executed) \in Nat
  BY <1>1, LineType DEF RunSound, TypeOK
<1>3. /\ reply' \in [Call -> 0..Len(executed)]
      /\ \A c \in Call : c # running => reply'[c] = reply[c]
  BY <1>2 DEF Reply, TypeOK
<1>4. TypeOK' /\ BoundedFifo'
  BY <1>1, <1>3 DEF TypeOK, BoundedFifo
<1>5. LineSound'
  <2>1. \A i \in 1..Len(Line) :
          /\ Line[i] \in Call /\ Line[i] # NoCall
          /\ Line[i] # running /\ status[Line[i]] # "new" /\ reply[Line[i]] = 0
    BY LineType, NoCallAssumption DEF LineSound
  <2>2. \A i \in 1..Len(Line) : Line[i] # running' /\ reply'[Line[i]] = 0
    BY <1>1, <1>3, <2>1
  <2>3. Line' = Line
    BY <1>1 DEF Line
  <2> QED
    BY <1>1, <2>1, <2>2, <2>3 DEF LineSound, Distinct
<1>6. RunSound'
  BY <1>1 DEF RunSound
<1>7. NewSound'
  BY <1>1, <1>2, <1>3 DEF NewSound
<1> QED
  BY <1>4, <1>5, <1>6, <1>7

LEMMA PanicSound ==
    ASSUME IInv, Panic
    PROVE  IInv'
<1> USE DEF IInv
<1>1. /\ UNCHANGED <<queue, executed, reply, handles>>
      /\ running' = NoCall /\ ran' = FALSE /\ waiting' = <<>> /\ worker' = "dead"
  BY DEF Panic
<1>2. /\ status' \in [Call -> {"new", "open"} \cup Ended]
      /\ \A c \in Call : status'[c] # "new" <=> status[c] # "new"
  BY DEF Panic, TypeOK, Ended
<1>3. queue \in Seq(Call) /\ waiting \in Seq(Call) /\ waiting' \in Seq(Call)
  BY <1>1, EmptySeq DEF TypeOK
<1>4. TypeOK' /\ BoundedFifo'
  BY <1>1, <1>2, <1>3 DEF TypeOK, BoundedFifo
<1>5. Serial!LeftOf(Line', Line)
  <2>1. Line' = queue
    BY <1>1, <1>3, ConcatEmptySeq DEF Line
  <2> QED
    BY <1>3, <2>1, FrontIsLeft DEF Line
<1>6. LineSound'
  BY <1>1, <1>2, <1>5, LeftLineSound
<1>7. RunSound'
  BY <1>1 DEF RunSound
<1>8. NewSound'
  <2>1. \A i \in 1..Len(executed) : status'[executed[i]] # "new"
    BY <1>2, LineType DEF NewSound
  <2>2. \A d \in Call : status'[d] = "new" => reply[d] = 0
    BY <1>2 DEF NewSound
  <2> QED
    BY <1>1, <2>1, <2>2 DEF NewSound
<1> QED
  BY <1>4, <1>6, <1>7, <1>8

LEMMA NextSound ==
    ASSUME IInv, [Next]_vars
    PROVE  IInv'
<1>1. ASSUME NEW c \in Call, Submit(c)
      PROVE  IInv'
  BY <1>1, SubmitSound
<1>2. ASSUME NEW c \in Call, Receive(c)
      PROVE  IInv'
  BY <1>2, ReceiveSound
<1>3. ASSUME NEW c \in Call, Cancel(c)
      PROVE  IInv'
  BY <1>3, CancelSound
<1>4. CASE DropHandles \/ WorkerExit
  BY <1>4, OutsideSound
<1>5. CASE Recv
  BY <1>5, RecvSound
<1>6. CASE Run
  BY <1>6, RunKeepsSound
<1>7. CASE Reply
  BY <1>7, ReplySound
<1>8. CASE Panic
  BY <1>8, PanicSound
<1>9. CASE UNCHANGED vars
  BY <1>9 DEF vars, IInv, TypeOK, BoundedFifo, LineSound, Distinct, Line, RunSound, NewSound
<1> QED
  BY <1>1, <1>2, <1>3, <1>4, <1>5, <1>6, <1>7, <1>8, <1>9 DEF Next, WorkerStep

\* The inductive invariant holds in every state.
THEOREM Invariant == Spec => []IInv
<1>1. Init => IInv
  BY InitSound
<1>2. IInv /\ [Next]_vars => IInv'
  BY NextSound
<1> QED
  BY <1>1, <1>2, PTL DEF Spec

\* Every variable keeps its type: a call that has been answered was told a place
\* among those the connection has executed.
THEOREM TypeCorrect == Spec => []TypeOK
<1>1. IInv => TypeOK
  BY DEF IInv
<1> QED
  BY <1>1, Invariant, PTL

\* submit_task: for any CAPACITY the channel holds no more tasks than that, and
\* a sender waits only while it is full, so that no later call overtakes it.
THEOREM ChannelBounded == Spec => []BoundedFifo
<1>1. IInv => BoundedFifo
  BY DEF IInv
<1> QED
  BY <1>1, Invariant, PTL

-----------------------------------------------------------------------------
(* The refinement of SerialConnection *)

\* The task the worker holds and has not run.
Held == IF running # NoCall /\ ~ran THEN <<running>> ELSE <<>>

LEMMA HeadThenTail ==
    ASSUME NEW S, NEW s \in Seq(S), s # <<>>
    PROVE  <<Head(s)>> \o Tail(s) = s
<1> DEFINE h == <<Head(s)>>
           r == Tail(s)
           u == h \o r
<1>1. Len(s) \in Nat \ {0} /\ Head(s) = s[1]
  BY EmptySeq
<1>2. h \in Seq(S) /\ Len(h) = 1 /\ h[1] = s[1]
  BY <1>1, ElementOfSeq
<1>3. /\ r \in Seq(S) /\ Len(r) = Len(s) - 1
      /\ \A i \in 1..Len(s) - 1 : r[i] = s[i + 1]
  BY HeadTailProperties
<1> HIDE DEF h, r
<1>4. /\ u \in Seq(S) /\ Len(u) = Len(h) + Len(r)
      /\ \A i \in 1..Len(h) + Len(r) :
           u[i] = IF i <= Len(h) THEN h[i] ELSE r[i - Len(h)]
  <2>1. h \in Seq(S) /\ r \in Seq(S)
    BY <1>2, <1>3
  <2> QED
    BY <2>1, ConcatProperties
<1> HIDE DEF u
<1>5. Len(u) = Len(s)
  BY <1>1, <1>2, <1>3, <1>4
<1>6. ASSUME NEW i \in 1..Len(s)
      PROVE  u[i] = s[i]
  <2>1. CASE i = 1
    BY <1>1, <1>2, <1>3, <1>4, <2>1
  <2>2. CASE i # 1
    <3>1. i - 1 \in 1..Len(s) - 1 /\ (i - 1) + 1 = i
      BY <1>1, <2>2
    <3>2. u[i] = r[i - 1]
      BY <1>1, <1>2, <1>3, <1>4, <2>2
    <3> QED
      BY <1>3, <3>1, <3>2
  <2> QED
    BY <2>1, <2>2
<1>7. u = s
  BY <1>4, <1>5, <1>6, SeqEqual
<1> QED
  BY <1>7 DEF u, h, r

LEMMA PendingType ==
    ASSUME IInv
    PROVE  /\ Held \in Seq(Call) /\ Line \in Seq(Call) /\ Pending \in Seq(Call)
           /\ Pending = Held \o Line
           /\ \A i \in 1..Len(Pending) :
                Pending[i] \in Call /\ status[Pending[i]] # "new"
<1> USE DEF IInv
<1>1. Line \in Seq(Call) /\ \A i \in 1..Len(Line) : status[Line[i]] # "new"
  BY LineType DEF LineSound
<1>2. Held \in Seq(Call) /\ \A i \in 1..Len(Held) : status[Held[i]] # "new"
  <2>1. CASE running # NoCall /\ ~ran
    BY <2>1 DEF Held, TypeOK, RunSound
  <2>2. CASE ~(running # NoCall /\ ~ran)
    BY <2>2, EmptySeq DEF Held
  <2> QED
    BY <2>1, <2>2
<1>3. Pending = Held \o Line
  BY DEF Pending, Held
<1>4. /\ Pending \in Seq(Call) /\ Len(Pending) = Len(Held) + Len(Line)
      /\ \A i \in 1..Len(Held) + Len(Line) :
           Pending[i] = IF i <= Len(Held) THEN Held[i] ELSE Line[i - Len(Held)]
  BY <1>1, <1>2, <1>3, ConcatProperties
<1>5. Len(Held) \in Nat /\ Len(Line) \in Nat
  BY <1>1, <1>2, LenProperties
<1>6. ASSUME NEW i \in 1..Len(Pending)
      PROVE  Pending[i] \in Call /\ status[Pending[i]] # "new"
  <2>1. CASE i <= Len(Held)
    <3>1. i \in 1..Len(Held) /\ Pending[i] = Held[i]
      BY <1>4, <1>5, <2>1
    <3> QED
      BY <1>2, <1>4, <3>1, ElementOfSeq
  <2>2. CASE ~(i <= Len(Held))
    <3>1. i - Len(Held) \in 1..Len(Line) /\ Pending[i] = Line[i - Len(Held)]
      BY <1>4, <1>5, <2>2
    <3> QED
      BY <1>1, <1>4, <3>1, ElementOfSeq
  <2> QED
    BY <2>1, <2>2
<1> QED
  BY <1>1, <1>2, <1>3, <1>4, <1>6

LEMMA InitRefines ==
    ASSUME Init
    PROVE  Serial!Init
<1>1. Pending = <<>>
  <2>1. <<>> \in Seq(Call) /\ <<>> \o <<>> = <<>>
    BY EmptySeq, ConcatEmptySeq
  <2> QED
    BY <2>1 DEF Init, Pending, Line
<1> QED
  BY <1>1 DEF Init, Serial!Init

LEMMA SubmitRefines ==
    ASSUME IInv, NEW c \in Call, Submit(c)
    PROVE  Serial!Submit(c) \/ UNCHANGED <<Pending, executed, reply>>
<1>1. UNCHANGED <<running, ran, executed, reply>> /\ status[c] = "new"
  BY DEF Submit
<1>2. /\ Held \in Seq(Call) /\ Line \in Seq(Call) /\ Pending = Held \o Line
      /\ \A i \in 1..Len(Pending) : status[Pending[i]] # "new"
      /\ DOMAIN Pending = 1..Len(Pending)
  BY PendingType, LenProperties
<1>3. Held' = Held /\ Pending' = Held' \o Line'
  BY <1>1 DEF Held, Pending
<1>4. CASE UNCHANGED Line
  BY <1>1, <1>2, <1>3, <1>4
<1>5. CASE Line' = Append(Line, c)
  <2>1. Held \o Append(Line, c) = Append(Held \o Line, c)
    BY <1>2, AppendToConcat
  <2>2. Pending' = Append(Pending, c)
    BY <1>2, <1>3, <1>5, <2>1
  <2>3. DOMAIN executed = 1..Len(executed)
    BY LenProperties DEF IInv, TypeOK
  <2>4. c \notin Serial!Members(Pending) \cup Serial!Members(executed)
    BY <1>1, <1>2, <2>3 DEF Serial!Members, IInv, NewSound
  <2> QED
    BY <1>1, <2>2, <2>4 DEF Serial!Submit
<1> QED
  BY <1>4, <1>5, SubmitSound

LEMMA CancelRefines ==
    ASSUME IInv, NEW c \in Call, Cancel(c)
    PROVE  Serial!Withdraw
<1>1. UNCHANGED <<running, ran, executed, reply>>
  BY DEF Cancel
<1>2. Held \in Seq(Call) /\ Line \in Seq(Call) /\ Pending = Held \o Line
  BY PendingType
<1>3. Pending' = Held \o Line'
  <2>1. Held' = Held /\ Pending' = Held' \o Line'
    BY <1>1 DEF Held, Pending
  <2> QED
    BY <2>1
<1>4. Serial!LeftOf(Line', Line)
  BY CancelSound
<1>5. Line' \in Seq(Call)
  BY <1>2, <1>4, LeftOfDistinct DEF IInv, LineSound
<1>6. Serial!LeftOf(Held \o Line', Held \o Line)
  BY <1>2, <1>4, <1>5, LeftBehind
<1> QED
  BY <1>1, <1>2, <1>3, <1>6 DEF Serial!Withdraw

LEMMA RecvRefines ==
    ASSUME IInv, Recv
    PROVE  UNCHANGED <<Pending, executed, reply>>
<1>1. UNCHANGED <<ran, executed, reply>> /\ running = NoCall
  BY DEF Recv
<1>2. Line \in Seq(Call) /\ Line # <<>> /\ running' = Head(Line) /\ Line' = Tail(Line)
  BY PendingType, RecvSound
<1>3. ~ran /\ Head(Line) \in Call
  BY <1>1, <1>2, HeadTailProperties DEF IInv, RunSound
<1>4. Held = <<>> /\ Held' = <<Head(Line)>>
  BY <1>1, <1>2, <1>3, NoCallAssumption DEF Held
<1>5. Pending = Line
  BY <1>2, <1>4, PendingType, ConcatEmptySeq
<1>6. Pending' = <<Head(Line)>> \o Tail(Line)
  <2>1. Pending' = Held' \o Line'
    BY DEF Pending, Held
  <2> QED
    BY <1>2, <1>4, <2>1
<1> QED
  BY <1>1, <1>2, <1>5, <1>6, HeadThenTail

LEMMA RunRefines ==
    ASSUME IInv, Run
    PROVE  Serial!Execute
<1>1. /\ UNCHANGED <<queue, waiting, running, reply>>
      /\ running # NoCall /\ ~ran /\ ran' = TRUE
      /\ executed' = Append(executed, running)
  BY DEF Run
<1>2. Held = <<running>> /\ Held \in Seq(Call) /\ Line \in Seq(Call) /\ Pending = Held \o Line
  BY <1>1, PendingType DEF Held
<1>3. Pending' = Line
  <2>1. Held' = <<>> /\ Line' = Line /\ Pending' = Held' \o Line'
    BY <1>1 DEF Held, Line, Pending
  <2>2. <<>> \o Line = Line
    BY <1>2, ConcatEmptySeq
  <2> QED
    BY <2>1, <2>2
<1>4. Pending # <<>> /\ Head(Pending) = running /\ Tail(Pending) = Line
  <2>1. Held # <<>> /\ Head(Held) = running /\ Tail(Held) = <<>>
    BY <1>2
  <2>2. /\ Held \o Line # <<>> /\ Head(Held \o Line) = Head(Held)
        /\ Tail(Held \o Line) = Tail(Held) \o Line
    BY <1>2, <2>1, HeadTailOfConcat
  <2>3. <<>> \o Line = Line
    BY <1>2, ConcatEmptySeq
  <2> QED
    BY <1>2, <2>1, <2>2, <2>3
<1> QED
  BY <1>1, <1>3, <1>4 DEF Serial!Execute

LEMMA ReplyRefines ==
    ASSUME IInv, Reply
    PROVE  \/ Serial!Answer(running) /\ running \in Call
           \/ UNCHANGED <<Pending, executed, reply>>
<1>1. /\ UNCHANGED <<queue, waiting, executed, status>>
      /\ ran /\ ran' = FALSE /\ running' = NoCall
  BY DEF Reply
<1>2. Pending' = Pending
  BY <1>1 DEF Pending, Line
<1>3. /\ running \in Call /\ reply[running] = 0
      /\ executed # <<>> /\ executed[Len(executed)] = running
      /\ executed \in Seq(Call)
  BY <1>1 DEF IInv, RunSound, TypeOK
<1>4. Len(executed) \in DOMAIN executed
  <2>1. Len(executed) \in Nat \ {0} /\ DOMAIN executed = 1..Len(executed)
    BY <1>3, EmptySeq, LenProperties
  <2> QED
    BY <2>1
<1>5. CASE status[running] = "open"
  <2>1. reply' = [reply EXCEPT ![running] = Len(executed)]
    BY <1>5 DEF Reply
  <2> QED
    BY <1>1, <1>2, <1>3, <1>4, <2>1 DEF Serial!Answer
<1>6. CASE status[running] # "open"
  BY <1>1, <1>2, <1>6 DEF Reply
<1> QED
  BY <1>5, <1>6

LEMMA PanicRefines ==
    ASSUME IInv, Panic
    PROVE  Serial!Withdraw
<1>1. /\ UNCHANGED <<queue, executed, reply>>
      /\ running' = NoCall /\ ran' = FALSE /\ waiting' = <<>>
  BY DEF Panic
<1>2. queue \in Seq(Call) /\ waiting \in Seq(Call) /\ <<>> \in Seq(Call)
  BY EmptySeq DEF IInv, TypeOK
<1>3. Pending' = queue
  <2>1. Held' = <<>> /\ Line' = queue \o <<>> /\ Pending' = Held' \o Line'
    BY <1>1 DEF Held, Line, Pending
  <2>2. queue \o <<>> = queue /\ <<>> \o queue = queue
    BY <1>2, ConcatEmptySeq
  <2> QED
    BY <2>1, <2>2
<1>4. Held \in Seq(Call) /\ Pending = Held \o (queue \o waiting)
  BY PendingType DEF Line
<1>5. Serial!LeftOf(queue, Held \o (queue \o waiting))
  BY <1>2, <1>4, MiddleIsLeft
<1> QED
  BY <1>1, <1>3, <1>4, <1>5 DEF Serial!Withdraw

LEMMA OutsideRefines ==
    ASSUME \/ \E c \in Call : Receive(c)
           \/ DropHandles \/ WorkerExit \/ UNCHANGED vars
    PROVE  UNCHANGED <<Pending, executed, reply>>
<1>1. UNCHANGED <<queue, waiting, running, ran, executed, reply>>
  BY DEF Receive, DropHandles, WorkerExit, vars
<1> QED
  BY <1>1 DEF Pending, Line

\* Every step of the actor is a step of the serial connection or none.
LEMMA StepRefines ==
    ASSUME IInv, [Next]_vars
    PROVE  [Serial!Next]_(Serial!vars)
<1> USE DEF Serial!Next, Serial!vars
<1>1. ASSUME NEW c \in Call, Submit(c)
      PROVE  [Serial!Next]_(Serial!vars)
  BY <1>1, SubmitRefines
<1>2. ASSUME NEW c \in Call, Cancel(c)
      PROVE  Serial!Next
  BY <1>2, CancelRefines
<1>3. CASE Recv
  BY <1>3, RecvRefines
<1>4. CASE Run
  BY <1>4, RunRefines
<1>5. CASE Reply
  BY <1>5, ReplyRefines
<1>6. CASE Panic
  BY <1>6, PanicRefines
<1>7. CASE \/ \E c \in Call : Receive(c)
           \/ DropHandles \/ WorkerExit \/ UNCHANGED vars
  BY <1>7, OutsideRefines
<1> QED
  BY <1>1, <1>2, <1>3, <1>4, <1>5, <1>6, <1>7 DEF Next, WorkerStep

\* StorageHandle: whatever its callers do and whenever they give up, and also
\* when a task panics, the actor is one serial connection that runs the calls
\* in the order they were submitted, each at most once, and tells a caller
\* the outcome of its own call.
THEOREM IsSerialConnection == Spec => ImplementsSerialConnection
<1>1. Init => Serial!Init
  BY InitRefines
<1>2. IInv /\ [Next]_vars => [Serial!Next]_(Serial!vars)
  BY StepRefines
<1> QED
  BY <1>1, <1>2, Invariant, PTL DEF Spec, ImplementsSerialConnection, Serial!Spec
=============================================================================
