--------------------------- MODULE MapReduceProofs ---------------------------
(***************************************************************************)
(* That a task is in the coordinator's lists at most once, and that every  *)
(* output is right, for every number of workers and of tasks, every input  *)
(* and every sequence of crashes, timeouts and late reports.               *)
(*                                                                         *)
(* CoordInv is the invariant.  Lists says that a node is in one list or in *)
(* the pool, once, and that the state of a listed node names its list: so  *)
(* a report that finds its node running takes it out of the running list   *)
(* and not out of another one.  Tasks says that a task that is not done    *)
(* and the node that is listed for it name each other.  PhaseInv says that *)
(* the reduce tasks are made when every map is done, from the files that   *)
(* each map reported once, and so every list of files that a worker gets   *)
(* for a reduce is an order of all maps (WorkerInv).                       *)
(*                                                                         *)
(* The lemmas say what a handler does to lists and tasks for any lists;    *)
(* each proof of a step names the values its handler gives them.           *)
(*                                                                         *)
(* What a reduce computes is proved for any input, order of the files and  *)
(* size of the buffer: a map's file holds each pair once, the segments     *)
(* ascend and hold every line once, and each turn of the heap moves the    *)
(* least line from the segments to the output (MergeInv).                  *)
(***************************************************************************)
EXTENDS MapReduce, FiniteSetTheorems, SequenceTheorems, FunctionTheorems, TLAPS

-----------------------------------------------------------------------------
\* Lists without repetition, and what the coordinator does to them

\* What a list contains.
LEMMA InRange ==
  ASSUME NEW S, NEW s \in Seq(S)
  PROVE  /\ Range(s) \subseteq S
         /\ \A i \in 1 .. Len(s) : s[i] \in Range(s)
         /\ \A x \in Range(s) : \E i \in 1 .. Len(s) : s[i] = x
BY RangeEquality, ElementOfSeq DEF Range

\* The head of a list leaves it (nodeList.remove of c.pending.head.next).
LEMMA TailFacts ==
  ASSUME NEW S, NEW s \in Seq(S), s # <<>>, IsInjective(s)
  PROVE  /\ Head(s) \in Range(s) /\ Tail(s) \in Seq(S)
         /\ Range(Tail(s)) = Range(s) \ {Head(s)}
         /\ IsInjective(Tail(s))
<1>1. /\ Len(s) \in Nat /\ DOMAIN s = 1 .. Len(s)
      /\ Tail(s) \in Seq(S) /\ Len(Tail(s)) = Len(s) - 1
      /\ \A i \in 1 .. Len(Tail(s)) : Tail(s)[i] = s[i + 1]
  BY LenProperties, HeadTailProperties
<1>2. Len(s) >= 1 /\ Head(s) = s[1]
  BY <1>1, EmptySeq
<1>3. DOMAIN Tail(s) = 1 .. Len(s) - 1
  BY <1>1, LenProperties
<1>4. IsInjective(Tail(s))
  BY <1>1, <1>3 DEF IsInjective
<1>5. ASSUME NEW x \in Range(Tail(s)) PROVE x \in Range(s) \ {Head(s)}
  <2>1. PICK i \in 1 .. Len(s) - 1 : Tail(s)[i] = x
    BY <1>3 DEF Range
  <2>2. i + 1 \in 1 .. Len(s) /\ i + 1 # 1 /\ s[i + 1] = x
    BY <1>1, <2>1
  <2> QED BY <1>1, <1>2, <2>2 DEF Range, IsInjective
<1>6. ASSUME NEW x \in Range(s), x # Head(s) PROVE x \in Range(Tail(s))
  <2>1. PICK i \in 1 .. Len(s) : s[i] = x
    BY <1>1 DEF Range
  <2>2. i # 1 /\ i - 1 \in 1 .. Len(s) - 1
    BY <1>1, <1>2, <1>6, <2>1
  <2>3. Tail(s)[i - 1] = s[(i - 1) + 1] /\ (i - 1) + 1 = i
    BY <1>1, <2>2
  <2> QED BY <1>3, <2>1, <2>2, <2>3 DEF Range
<1>7. Head(s) \in Range(s)
  BY <1>1, <1>2 DEF Range
<1> QED BY <1>1, <1>4, <1>5, <1>6, <1>7

\* A node is hung at the end of a list (nodeList.pushBack, recycle).
LEMMA AppendFacts ==
  ASSUME NEW S, NEW s \in Seq(S), NEW x \in S, x \notin Range(s), IsInjective(s)
  PROVE  /\ Append(s, x) \in Seq(S)
         /\ Range(Append(s, x)) = Range(s) \cup {x}
         /\ IsInjective(Append(s, x))
<1>1. /\ Len(s) \in Nat /\ DOMAIN s = 1 .. Len(s)
      /\ Append(s, x) \in Seq(S) /\ Len(Append(s, x)) = Len(s) + 1
      /\ \A i \in 1 .. Len(s) : Append(s, x)[i] = s[i]
      /\ Append(s, x)[Len(s) + 1] = x
  BY LenProperties, AppendProperties
<1>2. DOMAIN Append(s, x) = 1 .. Len(s) + 1
  BY <1>1, LenProperties
<1>3. \A i \in 1 .. Len(s) + 1 : i \in 1 .. Len(s) \/ i = Len(s) + 1
  BY <1>1
<1>4. \A i \in 1 .. Len(s) : s[i] # x
  BY <1>1 DEF Range
<1>5. IsInjective(Append(s, x))
  BY <1>1, <1>2, <1>3, <1>4 DEF IsInjective
<1>6. Range(Append(s, x)) \subseteq Range(s) \cup {x}
  BY <1>1, <1>2, <1>3 DEF Range
<1>7. Range(s) \cup {x} \subseteq Range(Append(s, x))
  <2>1. \A i \in 1 .. Len(s) : i \in 1 .. Len(s) + 1
    BY <1>1
  <2>2. Len(s) + 1 \in 1 .. Len(s) + 1
    BY <1>1
  <2> QED BY <1>1, <1>2, <2>1, <2>2 DEF Range
<1> QED BY <1>1, <1>5, <1>6, <1>7

\* Two lists that share nothing, one after the other.
LEMMA ConcatFacts ==
  ASSUME NEW S, NEW s \in Seq(S), NEW t \in Seq(S), IsInjective(s), IsInjective(t),
         Range(s) \cap Range(t) = {}
  PROVE  /\ s \o t \in Seq(S)
         /\ Range(s \o t) = Range(s) \cup Range(t)
         /\ IsInjective(s \o t)
<1>1. /\ Len(s) \in Nat /\ DOMAIN s = 1 .. Len(s)
      /\ Len(t) \in Nat /\ DOMAIN t = 1 .. Len(t)
  BY LenProperties
<1>2. /\ s \o t \in Seq(S) /\ Len(s \o t) = Len(s) + Len(t)
      /\ \A i \in 1 .. Len(s) + Len(t) :
           (s \o t)[i] = IF i <= Len(s) THEN s[i] ELSE t[i - Len(s)]
  BY ConcatProperties
<1>3. DOMAIN (s \o t) = 1 .. Len(s) + Len(t)
  BY <1>2, LenProperties
<1>4. Range(s \o t) = Range(s) \cup Range(t)
  BY RangeConcatenation
<1>5. ASSUME NEW i \in 1 .. Len(s) + Len(t), NEW j \in 1 .. Len(s) + Len(t),
             (s \o t)[i] = (s \o t)[j]
      PROVE  i = j
  <2>1. \A k \in 1 .. Len(s) + Len(t) :
          \/ k \in 1 .. Len(s) /\ (s \o t)[k] = s[k] /\ s[k] \in Range(s)
          \/ k - Len(s) \in 1 .. Len(t) /\ (s \o t)[k] = t[k - Len(s)] /\ t[k - Len(s)] \in Range(t)
    <3> SUFFICES ASSUME NEW k \in 1 .. Len(s) + Len(t)
                 PROVE  \/ k \in 1 .. Len(s) /\ (s \o t)[k] = s[k] /\ s[k] \in Range(s)
                        \/ /\ k - Len(s) \in 1 .. Len(t)
                           /\ (s \o t)[k] = t[k - Len(s)] /\ t[k - Len(s)] \in Range(t)
      OBVIOUS
    <3>1. CASE k <= Len(s)
      <4>1. k \in 1 .. Len(s) /\ (s \o t)[k] = s[k]
        BY <1>1, <1>2, <3>1
      <4> QED BY <1>1, <4>1 DEF Range
    <3>2. CASE ~ (k <= Len(s))
      <4>1. k - Len(s) \in 1 .. Len(t) /\ (s \o t)[k] = t[k - Len(s)]
        BY <1>1, <1>2, <3>2
      <4> QED BY <1>1, <4>1 DEF Range
    <3> QED BY <3>1, <3>2
  <2>2. CASE i \in 1 .. Len(s) /\ j \in 1 .. Len(s)
    BY <1>1, <1>2, <1>5, <2>2 DEF IsInjective
  <2>3. CASE i - Len(s) \in 1 .. Len(t) /\ j - Len(s) \in 1 .. Len(t)
    <3>1. t[i - Len(s)] = t[j - Len(s)]
      BY <1>1, <1>2, <1>5, <2>3
    <3>2. i - Len(s) = j - Len(s)
      BY <1>1, <2>3, <3>1 DEF IsInjective
    <3> QED BY <1>1, <3>2
  <2> QED BY <1>5, <2>1, <2>2, <2>3
<1>6. IsInjective(s \o t)
  BY <1>3, <1>5 DEF IsInjective
<1> QED BY <1>2, <1>4, <1>6

\* A node is taken out of the middle of a list (nodeList.remove).
LEMMA RemoveFacts ==
  ASSUME NEW S, NEW s \in Seq(S), IsInjective(s), NEW x \in Range(s)
  PROVE  /\ RemoveFirst(s, x) \in Seq(S)
         /\ Range(RemoveFirst(s, x)) = Range(s) \ {x}
         /\ IsInjective(RemoveFirst(s, x))
<1>1. Len(s) \in Nat /\ DOMAIN s = 1 .. Len(s) /\ \A i \in 1 .. Len(s) : s[i] \in S
  BY LenProperties, ElementOfSeq
<1>2. PICK k \in 1 .. Len(s) : s[k] = x
  BY <1>1 DEF Range
<1>3. {i \in 1 .. Len(s) : s[i] = x} = {k}
  BY <1>1, <1>2 DEF IsInjective
<1>4. Min({k}) = k
  BY <1>2 DEF Min
<1>5. SelectInSeq(s, LAMBDA v : v = x) = k
  BY <1>3, <1>4 DEF SelectInSeq
<1>6. RemoveFirst(s, x) = SubSeq(s, 1, k - 1) \o SubSeq(s, k + 1, Len(s))
  BY <1>2, <1>5 DEF RemoveFirst, RemoveAt
<1> DEFINE a == SubSeq(s, 1, k - 1)
           b == SubSeq(s, k + 1, Len(s))
<1>7. /\ a \in Seq(S) /\ Len(a) = k - 1
      /\ \A i \in 1 .. k - 1 : a[i] = s[i]
  <2>1. \A i \in 1 .. k - 1 : s[i] \in S
    BY <1>1
  <2>2. /\ a \in Seq(S) /\ Len(a) = IF 1 <= k - 1 THEN (k - 1) - 1 + 1 ELSE 0
        /\ \A i \in 1 .. (k - 1) - 1 + 1 : a[i] = s[1 + i - 1]
    BY <2>1, SubSeqProperties
  <2>3. (k - 1) - 1 + 1 = k - 1 /\ \A i \in 1 .. k - 1 : 1 + i - 1 = i
    BY <1>2
  <2> QED BY <1>2, <2>2, <2>3
<1>8. /\ b \in Seq(S) /\ Len(b) = Len(s) - k
      /\ \A i \in 1 .. Len(s) - k : b[i] = s[k + i]
  <2>1. \A i \in k + 1 .. Len(s) : s[i] \in S
    BY <1>1
  <2>2. /\ b \in Seq(S) /\ Len(b) = IF k + 1 <= Len(s) THEN Len(s) - (k + 1) + 1 ELSE 0
        /\ \A i \in 1 .. Len(s) - (k + 1) + 1 : b[i] = s[(k + 1) + i - 1]
    BY <1>1, <2>1, SubSeqProperties
  <2>3. Len(s) - (k + 1) + 1 = Len(s) - k /\ \A i \in 1 .. Len(s) - k : (k + 1) + i - 1 = k + i
    BY <1>1, <1>2
  <2>4. CASE k = Len(s)
    <3>1. Len(b) = 0 /\ Len(s) - k = 0
      BY <1>1, <2>2, <2>4
    <3> QED BY <2>2, <2>3, <3>1
  <2>5. CASE k < Len(s)
    <3>1. k + 1 <= Len(s)
      BY <1>1, <1>2, <2>5
    <3>2. Len(b) = Len(s) - k
      BY <2>2, <2>3, <3>1
    <3> QED BY <2>2, <2>3, <3>2
  <2>6. \A n \in Nat : \A j \in 1 .. n : j = n \/ j < n
    OBVIOUS
  <2>7. k = Len(s) \/ k < Len(s)
    BY <1>1, <2>6
  <2> QED BY <2>4, <2>5, <2>7
<1> HIDE DEF a, b
<1>9. DOMAIN a = 1 .. k - 1 /\ DOMAIN b = 1 .. Len(s) - k
  BY <1>7, <1>8, LenProperties
<1>10. IsInjective(a) /\ IsInjective(b)
  <2>1. \A i, j \in 1 .. k - 1 : a[i] = a[j] => i = j
    BY <1>1, <1>7 DEF IsInjective
  <2>2. \A i, j \in 1 .. Len(s) - k : b[i] = b[j] => i = j
    <3> SUFFICES ASSUME NEW i \in 1 .. Len(s) - k, NEW j \in 1 .. Len(s) - k, b[i] = b[j]
                 PROVE  i = j
      OBVIOUS
    <3>1. k + i \in 1 .. Len(s) /\ k + j \in 1 .. Len(s) /\ s[k + i] = s[k + j]
      BY <1>1, <1>8
    <3>2. k + i = k + j
      BY <1>1, <3>1 DEF IsInjective
    <3> QED BY <3>2
  <2> QED BY <1>9, <2>1, <2>2 DEF IsInjective
<1>11. \A y \in Range(a) : \E i \in 1 .. Len(s) : i < k /\ s[i] = y
  BY <1>1, <1>7, <1>9 DEF Range
<1>12. \A y \in Range(b) : \E i \in 1 .. Len(s) : i > k /\ s[i] = y
  <2> SUFFICES ASSUME NEW i \in 1 .. Len(s) - k
               PROVE  k + i \in 1 .. Len(s) /\ k + i > k /\ s[k + i] = b[i]
    BY <1>9 DEF Range
  <2> QED BY <1>1, <1>8
<1>13. Range(a) \cap Range(b) = {}
  BY <1>1, <1>11, <1>12 DEF IsInjective
<1>14. a \o b \in Seq(S) /\ Range(a \o b) = Range(a) \cup Range(b) /\ IsInjective(a \o b)
  BY <1>7, <1>8, <1>10, <1>13, ConcatFacts
<1>15. ASSUME NEW y \in Range(s), y # x PROVE y \in Range(a) \cup Range(b)
  <2>1. PICK i \in 1 .. Len(s) : s[i] = y /\ i # k
    BY <1>1, <1>2, <1>15 DEF Range
  <2>2. CASE i < k
    BY <1>7, <1>9, <2>1, <2>2 DEF Range
  <2>3. CASE i > k
    <3>1. i - k \in 1 .. Len(s) - k /\ k + (i - k) = i
      BY <1>1, <2>3
    <3> QED BY <1>8, <1>9, <2>1, <3>1 DEF Range
  <2> QED BY <2>1, <2>2, <2>3
<1>16. Range(a) \cup Range(b) \subseteq Range(s) \ {x}
  <2> SUFFICES ASSUME NEW i \in 1 .. Len(s), i # k
               PROVE  s[i] \in Range(s) \ {x}
    BY <1>2, <1>11, <1>12
  <2> QED BY <1>1, <1>2 DEF Range, IsInjective
<1>17. RemoveFirst(s, x) = a \o b
  BY <1>6 DEF a, b
<1> QED BY <1>14, <1>15, <1>16, <1>17

-----------------------------------------------------------------------------
\* The pool of nodes

\* alloc takes distinct nodes from the top of the pool, and new ones when it is empty.
LEMMA AllocFacts ==
  ASSUME Len(node) \in Nat, free \in Seq(1 .. Len(node)), IsInjective(free), NEW k \in Nat
  PROVE  /\ alloc(k) \in Seq(Nat \ {0}) /\ Len(alloc(k)) = k
         /\ IsInjective(alloc(k))
         /\ \A n \in Range(alloc(k)) : n \in Range(free) \/ n > Len(node)
         /\ \E l \in Nat : l >= Len(node) /\ (1 .. Len(node)) \cup Range(alloc(k)) = 1 .. l
         /\ poolAfter(k) \in Seq(1 .. Len(node)) /\ IsInjective(poolAfter(k))
         /\ Range(poolAfter(k)) \subseteq Range(free) \ Range(alloc(k))
<1>1. PICK f \in Nat : f = Len(free)
  BY LenProperties
<1>2. PICK c \in Nat : c = Len(node)
  OBVIOUS
<1>3. DOMAIN free = 1 .. f /\ \A i \in 1 .. f : free[i] \in 1 .. c /\ free[i] \in Range(free)
  BY <1>1, <1>2, LenProperties, ElementOfSeq, InRange
<1>4. alloc(k) = [i \in 1 .. k |-> IF i <= f THEN free[f + 1 - i] ELSE c + i - f]
  BY <1>1, <1>2 DEF alloc
<1>5. DOMAIN alloc(k) = 1 .. k
  BY <1>4
<1>6. ASSUME NEW i \in 1 .. k, i <= f
      PROVE  /\ alloc(k)[i] = free[f + 1 - i] /\ f + 1 - i \in 1 .. f
             /\ alloc(k)[i] \in Range(free) /\ alloc(k)[i] \in 1 .. c
  <2>1. f + 1 - i \in 1 .. f
    BY <1>6
  <2> QED BY <1>3, <1>4, <1>6, <2>1
<1>7. ASSUME NEW i \in 1 .. k, ~ (i <= f)
      PROVE  alloc(k)[i] = c + i - f /\ alloc(k)[i] > c /\ alloc(k)[i] \in Nat
  <2>1. alloc(k)[i] = c + i - f
    BY <1>4, <1>7
  <2> QED BY <1>7, <2>1
<1>8. alloc(k) \in Seq(Nat \ {0}) /\ Len(alloc(k)) = k
  <2>1. \A i \in 1 .. k : alloc(k)[i] \in Nat \ {0}
    <3> SUFFICES ASSUME NEW i \in 1 .. k PROVE alloc(k)[i] \in Nat \ {0}
      OBVIOUS
    <3>1. CASE i <= f
      BY <1>6, <3>1
    <3>2. CASE ~ (i <= f)
      BY <1>7, <3>2
    <3> QED BY <3>1, <3>2
  <2>2. alloc(k) \in [1 .. k -> Nat \ {0}]
    BY <1>4, <2>1
  <2>3. alloc(k) \in Seq(Nat \ {0})
    BY <2>2, SeqDef
  <2> QED BY <1>5, <2>3, LenProperties
<1>9. IsInjective(alloc(k))
  <2> SUFFICES ASSUME NEW i \in 1 .. k, NEW j \in 1 .. k, alloc(k)[i] = alloc(k)[j]
               PROVE  i = j
    BY <1>5 DEF IsInjective
  <2>1. CASE i <= f /\ j <= f
    <3>1. f + 1 - i \in DOMAIN free /\ f + 1 - j \in DOMAIN free /\ free[f + 1 - i] = free[f + 1 - j]
      BY <1>3, <1>6, <2>1
    <3>2. f + 1 - i = f + 1 - j
      BY <3>1 DEF IsInjective
    <3> QED BY <3>2
  <2>2. CASE ~ (i <= f) /\ ~ (j <= f)
    <3>1. c + i - f = c + j - f
      BY <1>7, <2>2
    <3> QED BY <3>1
  <2>3. ASSUME NEW a \in 1 .. k, NEW b \in 1 .. k, a <= f, ~ (b <= f)
        PROVE  alloc(k)[a] # alloc(k)[b]
    BY <1>6, <1>7, <2>3
  <2> QED BY <2>1, <2>2, <2>3
<1>10. \A n \in Range(alloc(k)) : n \in Range(free) \/ n > c
  <2> SUFFICES ASSUME NEW i \in 1 .. k PROVE alloc(k)[i] \in Range(free) \/ alloc(k)[i] > c
    BY <1>5 DEF Range
  <2> QED BY <1>6, <1>7
<1>11. \E l \in Nat : l >= c /\ (1 .. c) \cup Range(alloc(k)) = 1 .. l
  <2>1. CASE k <= f
    <3>1. \A i \in 1 .. k : alloc(k)[i] \in 1 .. c
      BY <1>6, <2>1
    <3>2. Range(alloc(k)) \subseteq 1 .. c
      BY <1>5, <3>1 DEF Range
    <3> QED BY <3>2
  <2>2. CASE ~ (k <= f)
    <3>1. c + (k - f) \in Nat /\ c + (k - f) >= c
      BY <2>2
    <3>2. ASSUME NEW n \in 1 .. c + (k - f) PROVE n \in 1 .. c \/ n \in Range(alloc(k))
      <4>1. CASE n > c
        <5>1. PICK i \in Nat : i = n - c + f
          BY <3>2, <4>1
        <5>2. i \in 1 .. k /\ ~ (i <= f) /\ c + i - f = n
          BY <2>2, <3>2, <4>1, <5>1
        <5>3. alloc(k)[i] = n
          BY <1>7, <5>2
        <5> QED BY <1>5, <5>2, <5>3 DEF Range
      <4>2. CASE ~ (n > c)
        BY <3>2, <4>2
      <4> QED BY <4>1, <4>2
    <3>3. ASSUME NEW i \in 1 .. k PROVE alloc(k)[i] \in 1 .. c + (k - f)
      <4>1. CASE i <= f
        <5>1. alloc(k)[i] \in 1 .. c
          BY <1>6, <4>1
        <5> QED BY <3>1, <5>1
      <4>2. CASE ~ (i <= f)
        <5>1. alloc(k)[i] = c + i - f
          BY <1>7, <4>2
        <5> QED BY <2>2, <3>3, <4>2, <5>1
      <4> QED BY <4>1, <4>2
    <3>4. (1 .. c) \cup Range(alloc(k)) = 1 .. c + (k - f)
      <4>1. Range(alloc(k)) \subseteq 1 .. c + (k - f)
        BY <1>5, <3>3 DEF Range
      <4>2. 1 .. c \subseteq 1 .. c + (k - f)
        BY <3>1
      <4> QED BY <3>2, <4>1, <4>2
    <3> QED BY <3>1, <3>4
  <2> QED BY <2>1, <2>2
<1>12. PICK d \in 0 .. f : d = IF k < f THEN f - k ELSE 0
  <2>1. CASE k < f
    <3>1. f - k \in 0 .. f
      BY <2>1
    <3> QED BY <2>1, <3>1
  <2>2. CASE ~ (k < f)
    BY <2>2
  <2> QED BY <2>1, <2>2
<1>13. poolAfter(k) = SubSeq(free, 1, d)
  BY <1>1, <1>12 DEF poolAfter
<1>14. \A i \in 1 .. d : free[i] \in 1 .. c
  BY <1>3
<1>15. /\ SubSeq(free, 1, d) \in Seq(1 .. c)
       /\ Len(SubSeq(free, 1, d)) = IF 1 <= d THEN d - 1 + 1 ELSE 0
       /\ \A i \in 1 .. d - 1 + 1 : SubSeq(free, 1, d)[i] = free[1 + i - 1]
  BY <1>14, SubSeqProperties
<1>16. Len(SubSeq(free, 1, d)) = d /\ \A i \in 1 .. d : SubSeq(free, 1, d)[i] = free[i]
  <2>1. d - 1 + 1 = d /\ \A i \in 1 .. d : 1 + i - 1 = i
    OBVIOUS
  <2>2. 1 <= d \/ d = 0
    OBVIOUS
  <2> QED BY <1>15, <2>1, <2>2
<1>17. DOMAIN SubSeq(free, 1, d) = 1 .. d
  BY <1>15, <1>16, LenProperties
<1>18. IsInjective(SubSeq(free, 1, d))
  BY <1>3, <1>16, <1>17 DEF IsInjective
<1>19. ASSUME NEW i \in 1 .. d PROVE free[i] \in Range(free) \ Range(alloc(k))
  <2>1. i \in 1 .. f /\ k < f
    BY <1>12
  <2>2. ASSUME NEW j \in 1 .. k PROVE alloc(k)[j] # free[i]
    <3>1. j <= f
      BY <2>1
    <3>2. f + 1 - j \in 1 .. f /\ f + 1 - j # i
      BY <1>12, <2>1, <2>2
    <3> QED BY <1>3, <1>6, <2>1, <3>1, <3>2 DEF IsInjective
  <2> QED BY <1>3, <1>5, <2>1, <2>2 DEF Range
<1>20. Range(SubSeq(free, 1, d)) \subseteq Range(free) \ Range(alloc(k))
  <2> SUFFICES ASSUME NEW i \in 1 .. d
               PROVE  SubSeq(free, 1, d)[i] \in Range(free) \ Range(alloc(k))
    BY <1>17 DEF Range
  <2> QED BY <1>16, <1>19
<1> QED BY <1>2, <1>8, <1>9, <1>10, <1>11, <1>13, <1>15, <1>18, <1>20

-----------------------------------------------------------------------------
\* The invariant

TaskNode == [kind : {"map", "reduce"}, id : Nat, files : Seq(Map), state : {"pending", "running"}]

\* A node is in one place: in a list, and then its state says in which, or in the pool.
Lists(nd, pe, ru, fr) ==
  /\ nd \in Seq(TaskNode)
  /\ pe \in Seq(1 .. Len(nd)) /\ ru \in Seq(1 .. Len(nd)) /\ fr \in Seq(1 .. Len(nd))
  /\ IsInjective(pe) /\ IsInjective(ru) /\ IsInjective(fr)
  /\ Range(pe) \cap Range(ru) = {} /\ Range(pe) \cap Range(fr) = {}
  /\ Range(ru) \cap Range(fr) = {}
  /\ \A n \in Range(pe) : nd[n].state = "pending"
  /\ \A n \in Range(ru) : nd[n].state = "running"

\* The task of a node that is listed is not done and has that node; every task that is not
\* done has a node that is listed.
Tasks(nd, listed, mt, rt, md) ==
  /\ mt \in [Map -> Nat] /\ rt \in [Reduce -> Nat] /\ md \subseteq Map
  /\ \A n \in listed :
       \/ nd[n].kind = "map" /\ nd[n].id \in Map \ md /\ mt[nd[n].id] = n
       \/ /\ nd[n].kind = "reduce" /\ nd[n].id \in Reduce /\ rt[nd[n].id] = n
          /\ nd[n].files \in Orders
  /\ \A t \in Map \ md : mt[t] \in listed /\ nd[mt[t]].kind = "map" /\ nd[mt[t]].id = t
  /\ \A r \in Reduce : rt[r] # 0 => rt[r] \in listed /\ nd[rt[r]].kind = "reduce" /\ nd[rt[r]].id = r

listedNodes == Range(pending) \cup Range(running)

\* Each map that is done has reported its files once, to every partition; reduce tasks
\* exist when all maps are done.
PhaseInv ==
  /\ mapFiles \in [Reduce -> Seq(Map)]
  /\ \A r \in Reduce : IsInjective(mapFiles[r]) /\ Range(mapFiles[r]) = mapDone
  /\ reducesReady \in BOOLEAN /\ done \in BOOLEAN
  /\ reducesReady => mapDone = Map
  /\ ~ reducesReady => \A r \in Reduce : reduceTask[r] = 0
  /\ done => reducesReady /\ \A r \in Reduce : reduceTask[r] = 0

\* A worker has the files of all maps for its reduce task.
WorkerInv ==
  /\ worker \in [Worker -> [pc : {"idle", "map", "reduce", "report", "exit"}, task : Nat,
                            files : Seq(Map)]]
  /\ \A w \in Worker :
       /\ worker[w].pc = "map" => worker[w].task \in Map
       /\ worker[w].pc \in {"reduce", "report"} => worker[w].task \in Reduce
       /\ worker[w].pc = "reduce" => worker[w].files \in Orders

CoordInv ==
  /\ Lists(node, pending, running, free)
  /\ Tasks(node, listedNodes, mapTask, reduceTask, mapDone)
  /\ PhaseInv
  /\ WorkerInv

-----------------------------------------------------------------------------
\* What the handlers do to the lists

\* The nodes in the lists are in the table.
LEMMA InTable ==
  ASSUME NEW nd, NEW pe, NEW ru, NEW fr, Lists(nd, pe, ru, fr)
  PROVE  Range(pe) \subseteq 1 .. Len(nd) /\ Range(ru) \subseteq 1 .. Len(nd)
<1> DEFINE T == 1 .. Len(nd)
<1>1. pe \in Seq(T) /\ ru \in Seq(T)
  BY DEF Lists
<1> HIDE DEF T
<1>2. Range(pe) \subseteq T /\ Range(ru) \subseteq T
  BY <1>1, InRange
<1> QED BY <1>2 DEF T

\* The orders are the lists that name every map once.
LEMMA OrderFacts ==
  ASSUME NEW l \in Seq(Map), IsInjective(l), Range(l) = Map
  PROVE  l \in Orders
<1>1. NMap \in Nat /\ Map = 1 .. NMap
  BY MapReduceAssumption DEF Map
<1>2. Len(l) \in Nat /\ DOMAIN l = 1 .. Len(l) /\ l \in [1 .. Len(l) -> Map]
  BY LenProperties
<1>3. l \in Bijection(1 .. Len(l), Map)
  <2>1. l \in Injection(1 .. Len(l), Map)
    BY <1>2 DEF Injection, IsInjective
  <2>2. l \in Surjection(1 .. Len(l), Map)
    BY <1>2 DEF Surjection, Range
  <2> QED BY <2>1, <2>2 DEF Bijection
<1>4. IsFiniteSet(1 .. Len(l)) /\ Cardinality(1 .. Len(l)) = Len(l)
  BY <1>2, FS_Interval
<1>5. Cardinality(Map) = NMap
  BY <1>1, FS_Interval
<1>6. ExistsBijection(1 .. Len(l), Map)
  BY <1>3 DEF ExistsBijection
<1>7. Cardinality(Map) = Cardinality(1 .. Len(l))
  BY <1>4, <1>6, FS_Bijection
<1>8. Len(l) = NMap
  BY <1>4, <1>5, <1>7
<1> QED BY <1>2, <1>8 DEF Orders

\* GetTask hands out the node at the head of the pending list (coordinator.go:142-146).
LEMMA HandOut ==
  ASSUME NEW nd, NEW pe, NEW ru, NEW fr, NEW mt, NEW rt, NEW md,
         Lists(nd, pe, ru, fr), Tasks(nd, Range(pe) \cup Range(ru), mt, rt, md), pe # <<>>
  PROVE  LET nd2 == [nd EXCEPT ![Head(pe)].state = "running"]
         IN /\ Lists(nd2, Tail(pe), Append(ru, Head(pe)), fr)
            /\ Tasks(nd2, Range(Tail(pe)) \cup Range(Append(ru, Head(pe))), mt, rt, md)
            /\ Head(pe) \in Range(pe) /\ Head(pe) \in 1 .. Len(nd)
<1> DEFINE h == Head(pe)
           nd2 == [nd EXCEPT ![h].state = "running"]
<1>1. /\ h \in Range(pe) /\ Tail(pe) \in Seq(1 .. Len(nd))
      /\ Range(Tail(pe)) = Range(pe) \ {h} /\ IsInjective(Tail(pe))
  BY TailFacts DEF Lists
<1>2. h \in 1 .. Len(nd) /\ h \notin Range(ru) /\ h \notin Range(fr)
  BY <1>1, InTable DEF Lists
<1>3. /\ Append(ru, h) \in Seq(1 .. Len(nd)) /\ Range(Append(ru, h)) = Range(ru) \cup {h}
      /\ IsInjective(Append(ru, h))
  BY <1>2, AppendFacts DEF Lists
<1>4. nd \in [1 .. Len(nd) -> TaskNode] /\ Len(nd) \in Nat
  BY LenProperties DEF Lists
<1>5. nd2 \in Seq(TaskNode) /\ Len(nd2) = Len(nd)
  <2>1. [nd[h] EXCEPT !.state = "running"] \in TaskNode
    BY <1>2, <1>4 DEF TaskNode
  <2>2. nd2 = [nd EXCEPT ![h] = [nd[h] EXCEPT !.state = "running"]]
    OBVIOUS
  <2> QED BY <1>2, <2>1, <2>2, ExceptSeq DEF Lists
<1>6. \A n \in 1 .. Len(nd) :
        /\ nd2[n].kind = nd[n].kind /\ nd2[n].id = nd[n].id /\ nd2[n].files = nd[n].files
        /\ nd2[n].state = IF n = h THEN "running" ELSE nd[n].state
  BY <1>2, <1>4 DEF TaskNode
<1> HIDE DEF nd2, h
<1>7. Range(pe) \subseteq 1 .. Len(nd) /\ Range(ru) \subseteq 1 .. Len(nd)
  BY InTable
<1>8. Lists(nd2, Tail(pe), Append(ru, h), fr)
  BY <1>1, <1>2, <1>3, <1>5, <1>6, <1>7 DEF Lists
<1>9. Range(Tail(pe)) \cup Range(Append(ru, h)) = Range(pe) \cup Range(ru)
  BY <1>1, <1>3
<1>10. Tasks(nd2, Range(pe) \cup Range(ru), mt, rt, md)
  <2>1. /\ mt \in [Map -> Nat] /\ rt \in [Reduce -> Nat] /\ md \subseteq Map
    BY DEF Tasks
  <2>2. \A n \in Range(pe) \cup Range(ru) :
          \/ nd2[n].kind = "map" /\ nd2[n].id \in Map \ md /\ mt[nd2[n].id] = n
          \/ /\ nd2[n].kind = "reduce" /\ nd2[n].id \in Reduce /\ rt[nd2[n].id] = n
             /\ nd2[n].files \in Orders
    BY <1>6, <1>7 DEF Tasks
  <2>3. \A t \in Map \ md :
          mt[t] \in Range(pe) \cup Range(ru) /\ nd2[mt[t]].kind = "map" /\ nd2[mt[t]].id = t
    BY <1>6, <1>7 DEF Tasks
  <2>4. \A r \in Reduce : rt[r] # 0 =>
          rt[r] \in Range(pe) \cup Range(ru) /\ nd2[rt[r]].kind = "reduce" /\ nd2[rt[r]].id = r
    BY <1>6, <1>7 DEF Tasks
  <2> QED BY <2>1, <2>2, <2>3, <2>4 DEF Tasks
<1> QED BY <1>1, <1>2, <1>8, <1>9, <1>10 DEF nd2, h

\* A report takes the node out of the running list and gives it to the pool
\* (coordinator.go:176-178, 202-204).
LEMMA Reported ==
  ASSUME NEW nd, NEW pe, NEW ru, NEW fr, NEW mt, NEW rt, NEW md, NEW rt2, NEW md2,
         Lists(nd, pe, ru, fr), Tasks(nd, Range(pe) \cup Range(ru), mt, rt, md),
         NEW n \in Range(ru),
         \/ nd[n].kind = "map" /\ rt2 = rt /\ md2 = md \cup {nd[n].id}
         \/ nd[n].kind = "reduce" /\ rt2 = [rt EXCEPT ![nd[n].id] = 0] /\ md2 = md
  PROVE  LET nd2 == [nd EXCEPT ![n].files = <<>>]
         IN /\ Lists(nd2, pe, RemoveFirst(ru, n), Append(fr, n))
            /\ Tasks(nd2, Range(pe) \cup Range(RemoveFirst(ru, n)), mt, rt2, md2)
<1> DEFINE nd2 == [nd EXCEPT ![n].files = <<>>]
<1>1. /\ RemoveFirst(ru, n) \in Seq(1 .. Len(nd)) /\ IsInjective(RemoveFirst(ru, n))
      /\ Range(RemoveFirst(ru, n)) = Range(ru) \ {n}
  BY RemoveFacts DEF Lists
<1>2. n \in 1 .. Len(nd) /\ n \notin Range(pe) /\ n \notin Range(fr)
  BY InTable DEF Lists
<1>3. /\ Append(fr, n) \in Seq(1 .. Len(nd)) /\ Range(Append(fr, n)) = Range(fr) \cup {n}
      /\ IsInjective(Append(fr, n))
  BY <1>2, AppendFacts DEF Lists
<1>4. nd \in [1 .. Len(nd) -> TaskNode] /\ Len(nd) \in Nat
  BY LenProperties DEF Lists
<1>5. nd2 \in Seq(TaskNode) /\ Len(nd2) = Len(nd)
  <2>1. [nd[n] EXCEPT !.files = <<>>] \in TaskNode
    BY <1>2, <1>4, EmptySeq DEF TaskNode
  <2>2. nd2 = [nd EXCEPT ![n] = [nd[n] EXCEPT !.files = <<>>]]
    OBVIOUS
  <2> QED BY <1>2, <2>1, <2>2, ExceptSeq DEF Lists
<1>6. \A x \in 1 .. Len(nd) :
        /\ nd2[x].kind = nd[x].kind /\ nd2[x].id = nd[x].id /\ nd2[x].state = nd[x].state
        /\ x # n => nd2[x].files = nd[x].files
  BY <1>2, <1>4 DEF TaskNode
<1> HIDE DEF nd2
<1>7. Range(pe) \subseteq 1 .. Len(nd) /\ Range(ru) \subseteq 1 .. Len(nd)
  BY InTable
<1>8. Lists(nd2, pe, RemoveFirst(ru, n), Append(fr, n))
  BY <1>1, <1>2, <1>3, <1>5, <1>6, <1>7 DEF Lists
<1>9. Range(pe) \cup Range(RemoveFirst(ru, n)) = (Range(pe) \cup Range(ru)) \ {n}
  BY <1>1, <1>2
<1> DEFINE left == (Range(pe) \cup Range(ru)) \ {n}
<1>10. Tasks(nd2, left, mt, rt2, md2)
  <2>1. n \in Range(pe) \cup Range(ru)
    OBVIOUS
  <2>2. CASE nd[n].kind = "map"
    <3>1. rt2 = rt /\ md2 = md \cup {nd[n].id} /\ nd[n].id \in Map \ md /\ mt[nd[n].id] = n
      BY <2>1, <2>2 DEF Tasks
    <3>2. mt \in [Map -> Nat] /\ rt2 \in [Reduce -> Nat] /\ md2 \subseteq Map
      BY <3>1 DEF Tasks
    <3>3. ASSUME NEW x \in left
          PROVE  \/ nd2[x].kind = "map" /\ nd2[x].id \in Map \ md2 /\ mt[nd2[x].id] = x
                 \/ /\ nd2[x].kind = "reduce" /\ nd2[x].id \in Reduce /\ rt2[nd2[x].id] = x
                    /\ nd2[x].files \in Orders
      BY <1>6, <1>7, <3>1 DEF Tasks
    <3>4. ASSUME NEW t \in Map \ md2
          PROVE  mt[t] \in left /\ nd2[mt[t]].kind = "map" /\ nd2[mt[t]].id = t
      BY <1>6, <1>7, <3>1 DEF Tasks
    <3>5. ASSUME NEW r \in Reduce, rt2[r] # 0
          PROVE  rt2[r] \in left /\ nd2[rt2[r]].kind = "reduce" /\ nd2[rt2[r]].id = r
      BY <1>6, <1>7, <2>2, <3>1, <3>5 DEF Tasks
    <3> QED BY <3>2, <3>3, <3>4, <3>5 DEF Tasks
  <2>3. CASE nd[n].kind = "reduce"
    <3>1. /\ rt2 = [rt EXCEPT ![nd[n].id] = 0] /\ md2 = md /\ nd[n].id \in Reduce
          /\ rt[nd[n].id] = n /\ rt \in [Reduce -> Nat]
      BY <2>1, <2>3 DEF Tasks
    <3>2. mt \in [Map -> Nat] /\ rt2 \in [Reduce -> Nat] /\ md2 \subseteq Map
      BY <3>1 DEF Tasks
    <3>3. ASSUME NEW x \in left
          PROVE  \/ nd2[x].kind = "map" /\ nd2[x].id \in Map \ md2 /\ mt[nd2[x].id] = x
                 \/ /\ nd2[x].kind = "reduce" /\ nd2[x].id \in Reduce /\ rt2[nd2[x].id] = x
                    /\ nd2[x].files \in Orders
      BY <1>6, <1>7, <3>1 DEF Tasks
    <3>4. ASSUME NEW t \in Map \ md2
          PROVE  mt[t] \in left /\ nd2[mt[t]].kind = "map" /\ nd2[mt[t]].id = t
      BY <1>6, <1>7, <2>3, <3>1 DEF Tasks
    <3>5. ASSUME NEW r \in Reduce, rt2[r] # 0
          PROVE  rt2[r] \in left /\ nd2[rt2[r]].kind = "reduce" /\ nd2[rt2[r]].id = r
      BY <1>6, <1>7, <3>1, <3>5 DEF Tasks
    <3> QED BY <3>2, <3>3, <3>4, <3>5 DEF Tasks
  <2> QED BY <2>2, <2>3
<1> QED BY <1>8, <1>9, <1>10 DEF nd2

\* The table of nodes after k calls of alloc: the nodes that were not allocated are as before
\* (coordinator.go:235-241).
LEMMA InitialisedFacts ==
  ASSUME node \in Seq(TaskNode), free \in Seq(1 .. Len(node)), IsInjective(free), NEW k \in Nat,
         NEW rs \in [1 .. k -> TaskNode]
  PROVE  LET nd == initialised(alloc(k), rs)
         IN /\ nd \in Seq(TaskNode) /\ Len(nd) >= Len(node)
            /\ \A n \in 1 .. Len(node) : n \notin Range(alloc(k)) => nd[n] = node[n]
            /\ \A i \in 1 .. k : alloc(k)[i] \in 1 .. Len(nd) /\ nd[alloc(k)[i]] = rs[i]
<1> DEFINE ns == alloc(k)
           nd == initialised(ns, rs)
<1>1. /\ ns \in Seq(Nat \ {0}) /\ Len(ns) = k /\ IsInjective(ns)
      /\ \E l \in Nat : l >= Len(node) /\ (1 .. Len(node)) \cup Range(ns) = 1 .. l
  BY AllocFacts, LenProperties
<1> HIDE DEF ns
<1>2. PICK l \in Nat : l >= Len(node) /\ (1 .. Len(node)) \cup Range(ns) = 1 .. l
  BY <1>1
<1>3. DOMAIN node = 1 .. Len(node) /\ DOMAIN ns = 1 .. k /\ node \in [1 .. Len(node) -> TaskNode]
      /\ Len(node) \in Nat
  BY <1>1, LenProperties
<1>4. nd = [n \in 1 .. l |->
              IF n \in Range(ns) THEN rs[CHOOSE i \in 1 .. k : ns[i] = n] ELSE node[n]]
  BY <1>2, <1>3 DEF initialised
<1> HIDE DEF nd
<1>5. ASSUME NEW i \in 1 .. k
      PROVE  ns[i] \in 1 .. l /\ ns[i] \in Range(ns) /\ nd[ns[i]] = rs[i]
  <2>1. ns[i] \in Range(ns)
    BY <1>3 DEF Range
  <2>2. ns[i] \in 1 .. l
    BY <1>2, <2>1
  <2>3. (CHOOSE j \in 1 .. k : ns[j] = ns[i]) = i
    BY <1>1, <1>3 DEF IsInjective
  <2> QED BY <1>4, <2>1, <2>2, <2>3
<1>6. ASSUME NEW n \in 1 .. l PROVE nd[n] \in TaskNode
  <2>1. CASE n \in Range(ns)
    <3>1. PICK i \in 1 .. k : ns[i] = n
      BY <1>3, <2>1 DEF Range
    <3> QED BY <1>5, <3>1
  <2>2. CASE n \notin Range(ns)
    <3>1. n \in 1 .. Len(node)
      BY <1>2, <2>2
    <3> QED BY <1>3, <1>4, <2>2, <3>1
  <2> QED BY <2>1, <2>2
<1>7. nd \in Seq(TaskNode) /\ Len(nd) = l
  <2>1. nd \in [1 .. l -> TaskNode]
    BY <1>4, <1>6
  <2>2. nd \in Seq(TaskNode)
    BY <2>1, SeqDef
  <2>3. DOMAIN nd = 1 .. l
    BY <1>4
  <2> QED BY <2>2, <2>3, LenProperties
<1>8. \A n \in 1 .. Len(node) : n \notin Range(ns) => nd[n] = node[n]
  BY <1>2, <1>4
<1> QED BY <1>2, <1>5, <1>7, <1>8 DEF nd, ns

\* What nodes that are listed and pooled say of their lists carries over to a table in which
\* other nodes have been initialised.
LEMMA Extended ==
  ASSUME NEW nd, NEW nd1, NEW pe, NEW ru, NEW fr, NEW fr1, NEW xs,
         Lists(nd, pe, ru, fr), nd1 \in Seq(TaskNode), Len(nd1) >= Len(nd),
         \A n \in 1 .. Len(nd) : n \notin Range(xs) => nd1[n] = nd[n],
         \A n \in Range(xs) : n \in Range(fr) \/ n > Len(nd),
         fr1 \in Seq(1 .. Len(nd)), IsInjective(fr1), Range(fr1) \subseteq Range(fr) \ Range(xs)
  PROVE  /\ Lists(nd1, pe, ru, fr1)
         /\ \A n \in Range(pe) \cup Range(ru) :
              n \in 1 .. Len(nd) /\ n \notin Range(xs) /\ nd1[n] = nd[n]
<1>1. Len(nd) \in Nat /\ Len(nd1) \in Nat
  BY LenProperties DEF Lists
<1>2. 1 .. Len(nd) \subseteq 1 .. Len(nd1)
  BY <1>1
<1>3. Range(pe) \subseteq 1 .. Len(nd) /\ Range(ru) \subseteq 1 .. Len(nd)
  BY InTable
<1>4. \A n \in 1 .. Len(nd) : ~ (n > Len(nd))
  BY <1>1
<1>5. \A n \in Range(pe) \cup Range(ru) :
        n \in 1 .. Len(nd) /\ n \notin Range(xs) /\ nd1[n] = nd[n]
  BY <1>3, <1>4 DEF Lists
<1>6. /\ pe \in Seq(1 .. Len(nd1)) /\ ru \in Seq(1 .. Len(nd1)) /\ fr1 \in Seq(1 .. Len(nd1))
  BY <1>2, SeqMonotonic DEF Lists
<1> QED BY <1>5, <1>6 DEF Lists

\* checkTimeout hangs a new node for the task of the oldest running one at the end of the
\* pending list (coordinator.go:273-285).
LEMMA TimedOut ==
  ASSUME NEW nd, NEW nd1, NEW pe, NEW ru, NEW fr, NEW fr1, NEW mt, NEW rt, NEW md, NEW x,
         NEW mt2, NEW rt2,
         Lists(nd, pe, ru, fr), Tasks(nd, Range(pe) \cup Range(ru), mt, rt, md), ru # <<>>,
         Lists(nd1, pe, ru, fr1),
         \A n \in Range(pe) \cup Range(ru) : n # x /\ nd1[n] = nd[n],
         x \in 1 .. Len(nd1), x \notin Range(fr1), x # 0,
         LET t == nd[Head(ru)]
         IN /\ nd1[x] = Node(t.kind, t.id, t.files)
            /\ mt2 = IF t.kind = "map" THEN [mt EXCEPT ![t.id] = x] ELSE mt
            /\ rt2 = IF t.kind = "reduce" THEN [rt EXCEPT ![t.id] = x] ELSE rt
  PROVE  LET nd2 == [nd1 EXCEPT ![Head(ru)].files = <<>>]
         IN /\ Lists(nd2, Append(pe, x), Tail(ru), Append(fr1, Head(ru)))
            /\ Tasks(nd2, Range(Append(pe, x)) \cup Range(Tail(ru)), mt2, rt2, md)
<1> DEFINE h == Head(ru)
           nd2 == [nd1 EXCEPT ![h].files = <<>>]
<1>1. /\ h \in Range(ru) /\ Tail(ru) \in Seq(1 .. Len(nd1))
      /\ Range(Tail(ru)) = Range(ru) \ {h} /\ IsInjective(Tail(ru))
  BY TailFacts DEF Lists
<1>2. h \in 1 .. Len(nd1) /\ h \notin Range(pe) /\ h \notin Range(fr1) /\ h # x
  BY <1>1, InTable DEF Lists
<1>3. x \notin Range(pe) /\ x \notin Range(ru)
  OBVIOUS
<1>4. /\ Append(pe, x) \in Seq(1 .. Len(nd1)) /\ Range(Append(pe, x)) = Range(pe) \cup {x}
      /\ IsInjective(Append(pe, x))
  BY <1>3, AppendFacts DEF Lists
<1>5. /\ Append(fr1, h) \in Seq(1 .. Len(nd1)) /\ Range(Append(fr1, h)) = Range(fr1) \cup {h}
      /\ IsInjective(Append(fr1, h))
  BY <1>2, AppendFacts DEF Lists
<1>6. nd1 \in [1 .. Len(nd1) -> TaskNode] /\ Len(nd1) \in Nat
  BY LenProperties DEF Lists
<1>7. nd2 \in Seq(TaskNode) /\ Len(nd2) = Len(nd1)
  <2>1. [nd1[h] EXCEPT !.files = <<>>] \in TaskNode
    BY <1>2, <1>6, EmptySeq DEF TaskNode
  <2>2. nd2 = [nd1 EXCEPT ![h] = [nd1[h] EXCEPT !.files = <<>>]]
    OBVIOUS
  <2> QED BY <1>2, <2>1, <2>2, ExceptSeq DEF Lists
<1>8. \A n \in 1 .. Len(nd1) :
        /\ nd2[n].kind = nd1[n].kind /\ nd2[n].id = nd1[n].id /\ nd2[n].state = nd1[n].state
        /\ n # h => nd2[n].files = nd1[n].files
  BY <1>2, <1>6 DEF TaskNode
<1> DEFINE t == nd[h]
<1>9. /\ nd1[x].kind = t.kind /\ nd1[x].id = t.id /\ nd1[x].files = t.files
      /\ nd1[x].state = "pending" /\ nd1[h] = t
  BY <1>1 DEF Node
<1>10. /\ mt2 = IF t.kind = "map" THEN [mt EXCEPT ![t.id] = x] ELSE mt
       /\ rt2 = IF t.kind = "reduce" THEN [rt EXCEPT ![t.id] = x] ELSE rt
  OBVIOUS
<1> HIDE DEF nd2, h, t
<1>11. Range(pe) \subseteq 1 .. Len(nd1) /\ Range(ru) \subseteq 1 .. Len(nd1)
  BY InTable
<1>12. Lists(nd2, Append(pe, x), Tail(ru), Append(fr1, h))
  <2>1. \A n \in Range(pe) \cup {x} : nd2[n].state = "pending"
    BY <1>8, <1>9, <1>11 DEF Lists
  <2>2. \A n \in Range(ru) \ {h} : nd2[n].state = "running"
    BY <1>8, <1>11 DEF Lists
  <2> QED BY <1>1, <1>2, <1>3, <1>4, <1>5, <1>7, <2>1, <2>2 DEF Lists
<1> DEFINE old == Range(pe) \cup Range(ru)
           left == (old \ {h}) \cup {x}
<1>13. Range(Append(pe, x)) \cup Range(Tail(ru)) = left
  BY <1>1, <1>2, <1>4
<1>14. Tasks(nd, old, mt, rt, md) /\ h \in old
  BY <1>1
<1>15. \A n \in old \ {h} : /\ n \in 1 .. Len(nd1) /\ n # x /\ nd2[n].kind = nd[n].kind
                            /\ nd2[n].id = nd[n].id /\ nd2[n].files = nd[n].files
  BY <1>8, <1>11
<1>16. nd2[x].kind = t.kind /\ nd2[x].id = t.id /\ nd2[x].files = t.files
  BY <1>2, <1>8, <1>9
<1> HIDE DEF old
<1>17. Tasks(nd2, left, mt2, rt2, md)
  <2>1. mt \in [Map -> Nat] /\ rt \in [Reduce -> Nat] /\ md \subseteq Map /\ x \in Nat
    BY <1>6, <1>14 DEF Tasks
  <2>2. CASE t.kind = "map"
    <3>1. /\ mt2 = [mt EXCEPT ![t.id] = x] /\ rt2 = rt
          /\ t.id \in Map \ md /\ mt[t.id] = h
      BY <1>10, <1>14, <2>2 DEF Tasks, t
    <3>2. mt2 \in [Map -> Nat] /\ rt2 \in [Reduce -> Nat] /\ mt2[t.id] = x
          /\ \A i \in Map : i # t.id => mt2[i] = mt[i]
      BY <2>1, <3>1
    <3>3. ASSUME NEW n \in left
          PROVE  \/ nd2[n].kind = "map" /\ nd2[n].id \in Map \ md /\ mt2[nd2[n].id] = n
                 \/ /\ nd2[n].kind = "reduce" /\ nd2[n].id \in Reduce /\ rt2[nd2[n].id] = n
                    /\ nd2[n].files \in Orders
      <4>1. CASE n = x
        BY <1>16, <2>2, <3>1, <3>2, <4>1
      <4>2. CASE n \in old \ {h}
        <5>1. nd2[n].kind = nd[n].kind /\ nd2[n].id = nd[n].id /\ nd2[n].files = nd[n].files
          BY <1>15, <4>2
        <5>2. nd[n].kind = "map" => nd[n].id # t.id
          BY <1>14, <3>1, <4>2 DEF Tasks
        <5> QED BY <1>14, <3>1, <3>2, <4>2, <5>1, <5>2 DEF Tasks
      <4> QED BY <4>1, <4>2
    <3>4. ASSUME NEW i \in Map \ md
          PROVE  mt2[i] \in left /\ nd2[mt2[i]].kind = "map" /\ nd2[mt2[i]].id = i
      <4>1. CASE i = t.id
        BY <1>16, <2>2, <3>2, <4>1
      <4>2. CASE i # t.id
        <5>1. mt[i] \in old /\ nd[mt[i]].kind = "map" /\ nd[mt[i]].id = i /\ mt[i] # h
          BY <1>14, <4>2 DEF Tasks, t
        <5> QED BY <1>15, <3>2, <4>2, <5>1
      <4> QED BY <4>1, <4>2
    <3>5. ASSUME NEW r \in Reduce, rt2[r] # 0
          PROVE  rt2[r] \in left /\ nd2[rt2[r]].kind = "reduce" /\ nd2[rt2[r]].id = r
      <4>1. rt[r] \in old /\ nd[rt[r]].kind = "reduce" /\ nd[rt[r]].id = r /\ rt[r] # h
        BY <1>14, <2>2, <3>1, <3>5 DEF Tasks, t
      <4> QED BY <1>15, <3>1, <4>1
    <3> QED BY <2>1, <3>2, <3>3, <3>4, <3>5 DEF Tasks
  <2>3. CASE t.kind = "reduce"
    <3>1. /\ rt2 = [rt EXCEPT ![t.id] = x] /\ mt2 = mt
          /\ t.id \in Reduce /\ rt[t.id] = h /\ t.files \in Orders
      BY <1>10, <1>14, <2>3 DEF Tasks, t
    <3>2. mt2 \in [Map -> Nat] /\ rt2 \in [Reduce -> Nat] /\ rt2[t.id] = x
          /\ \A i \in Reduce : i # t.id => rt2[i] = rt[i]
      BY <2>1, <3>1
    <3>3. ASSUME NEW n \in left
          PROVE  \/ nd2[n].kind = "map" /\ nd2[n].id \in Map \ md /\ mt2[nd2[n].id] = n
                 \/ /\ nd2[n].kind = "reduce" /\ nd2[n].id \in Reduce /\ rt2[nd2[n].id] = n
                    /\ nd2[n].files \in Orders
      <4>1. CASE n = x
        BY <1>16, <2>3, <3>1, <3>2, <4>1
      <4>2. CASE n \in old \ {h}
        <5>1. nd2[n].kind = nd[n].kind /\ nd2[n].id = nd[n].id /\ nd2[n].files = nd[n].files
          BY <1>15, <4>2
        <5>2. nd[n].kind = "reduce" => nd[n].id # t.id
          BY <1>14, <3>1, <4>2 DEF Tasks
        <5> QED BY <1>14, <3>1, <3>2, <4>2, <5>1, <5>2 DEF Tasks
      <4> QED BY <4>1, <4>2
    <3>4. ASSUME NEW i \in Map \ md
          PROVE  mt2[i] \in left /\ nd2[mt2[i]].kind = "map" /\ nd2[mt2[i]].id = i
      <4>1. mt[i] \in old /\ nd[mt[i]].kind = "map" /\ nd[mt[i]].id = i /\ mt[i] # h
        BY <1>14, <2>3 DEF Tasks, t
      <4> QED BY <1>15, <3>1, <4>1
    <3>5. ASSUME NEW r \in Reduce, rt2[r] # 0
          PROVE  rt2[r] \in left /\ nd2[rt2[r]].kind = "reduce" /\ nd2[rt2[r]].id = r
      <4>1. CASE r = t.id
        BY <1>16, <2>3, <3>2, <4>1
      <4>2. CASE r # t.id
        <5>1. rt[r] \in old /\ nd[rt[r]].kind = "reduce" /\ nd[rt[r]].id = r /\ rt[r] # h
          BY <1>14, <3>2, <3>5, <4>2 DEF Tasks, t
        <5> QED BY <1>15, <3>2, <4>2, <5>1
      <4> QED BY <4>1, <4>2
    <3> QED BY <2>1, <3>2, <3>3, <3>4, <3>5 DEF Tasks
  <2>4. t.kind = "map" \/ t.kind = "reduce"
    BY <1>14 DEF Tasks, t
  <2> QED BY <2>2, <2>3, <2>4
<1> QED BY <1>12, <1>13, <1>17 DEF nd2, h

\* The lists before the reduce phase: the maps are done and the nodes xs are initialised
Starting(nd, nd1, pe, ru, fr, fr1, mt, rt, md, xs, files, rt2) ==
  /\ Lists(nd, pe, ru, fr) /\ Tasks(nd, Range(pe) \cup Range(ru), mt, rt, md)
  /\ md = Map /\ \A r \in Reduce : rt[r] = 0 /\ files[r] \in Orders
  /\ Lists(nd1, pe, ru, fr1) /\ rt2 = [r \in Reduce |-> xs[r + 1]]
  /\ \A n \in Range(pe) \cup Range(ru) : n \in 1 .. Len(nd) /\ n \notin Range(xs)
  /\ xs \in Seq(Nat \ {0}) /\ Len(xs) = NReduce /\ IsInjective(xs)
  /\ Range(xs) \cap Range(fr1) = {}
  /\ \A i \in 1 .. NReduce : /\ xs[i] \in 1 .. Len(nd1)
                              /\ nd1[xs[i]] = Node("reduce", i - 1, files[i - 1])

\* startReducePhase hangs a node for every reduce task on the pending list
\* (coordinator.go:213-221).
LEMMA Started ==
  ASSUME NEW nd, NEW nd1, NEW pe, NEW ru, NEW fr, NEW fr1, NEW mt, NEW rt, NEW md, NEW xs,
         NEW files, NEW rt2, Starting(nd, nd1, pe, ru, fr, fr1, mt, rt, md, xs, files, rt2)
  PROVE  /\ Lists(nd1, pe \o xs, ru, fr1)
         /\ Tasks(nd1, Range(pe \o xs) \cup Range(ru), mt, rt2, md)
<1> USE DEF Starting
<1>1. NReduce \in Nat /\ Reduce = 0 .. NReduce - 1
  BY MapReduceAssumption DEF Reduce
<1>2. DOMAIN xs = 1 .. NReduce
  BY LenProperties
<1>3. xs \in Seq(1 .. Len(nd1))
  <2>1. xs \in [1 .. NReduce -> 1 .. Len(nd1)]
    BY <1>2, LenProperties
  <2> QED BY <1>1, <2>1, SeqDef
<1>4. Range(pe) = {} /\ Range(ru) = {}
  <2> SUFFICES ASSUME NEW n \in Range(pe) \cup Range(ru) PROVE FALSE
    OBVIOUS
  <2>1. nd[n].kind = "reduce" /\ nd[n].id \in Reduce /\ rt[nd[n].id] = n
    BY DEF Tasks
  <2> QED BY <2>1
<1>5. /\ pe \o xs \in Seq(1 .. Len(nd1)) /\ Range(pe \o xs) = Range(xs)
      /\ IsInjective(pe \o xs)
  <2>1. pe \in Seq(1 .. Len(nd1)) /\ IsInjective(pe) /\ Range(pe) \cap Range(xs) = {}
    BY <1>4 DEF Lists
  <2>2. /\ pe \o xs \in Seq(1 .. Len(nd1)) /\ Range(pe \o xs) = Range(pe) \cup Range(xs)
        /\ IsInjective(pe \o xs)
    BY <1>3, <2>1, ConcatFacts
  <2> QED BY <1>4, <2>2
<1>6. \A n \in Range(xs) : \E i \in 1 .. NReduce : xs[i] = n
  BY <1>2 DEF Range
<1>7. \A i \in 1 .. NReduce :
        /\ xs[i] \in Range(xs) /\ nd1[xs[i]].kind = "reduce" /\ nd1[xs[i]].id = i - 1
        /\ nd1[xs[i]].files = files[i - 1] /\ nd1[xs[i]].state = "pending"
  <2> SUFFICES ASSUME NEW i \in 1 .. NReduce
               PROVE  /\ xs[i] \in Range(xs) /\ nd1[xs[i]].kind = "reduce"
                      /\ nd1[xs[i]].id = i - 1
                      /\ nd1[xs[i]].files = files[i - 1] /\ nd1[xs[i]].state = "pending"
    OBVIOUS
  <2>1. xs[i] \in Range(xs)
    BY <1>2 DEF Range
  <2>2. nd1[xs[i]] = [kind |-> "reduce", id |-> i - 1, files |-> files[i - 1], state |-> "pending"]
    BY DEF Node
  <2> QED BY <2>1, <2>2
<1>8. Lists(nd1, pe \o xs, ru, fr1)
  BY <1>4, <1>5, <1>6, <1>7 DEF Lists
<1>9. \A r \in Reduce : r + 1 \in 1 .. NReduce /\ (r + 1) - 1 = r
  BY <1>1
<1>10. \A i \in 1 .. NReduce : i - 1 \in Reduce /\ (i - 1) + 1 = i
  BY <1>1
<1>11. Tasks(nd1, Range(xs), mt, rt2, md)
  <2>1. mt \in [Map -> Nat] /\ rt2 \in [Reduce -> Nat] /\ md \subseteq Map
    <3>1. \A r \in Reduce : xs[r + 1] \in Nat
      BY <1>2, <1>9, ElementOfSeq
    <3> QED BY <3>1 DEF Tasks
  <2>2. ASSUME NEW n \in Range(xs)
        PROVE  /\ nd1[n].kind = "reduce" /\ nd1[n].id \in Reduce /\ rt2[nd1[n].id] = n
               /\ nd1[n].files \in Orders
    <3>1. PICK i \in 1 .. NReduce : xs[i] = n
      BY <1>6
    <3>2. nd1[n].kind = "reduce" /\ nd1[n].id = i - 1 /\ nd1[n].files = files[i - 1]
      BY <1>7, <3>1
    <3> QED BY <1>10, <3>1, <3>2
  <2>3. ASSUME NEW r \in Reduce
        PROVE  rt2[r] \in Range(xs) /\ nd1[rt2[r]].kind = "reduce" /\ nd1[rt2[r]].id = r
    BY <1>7, <1>9
  <2> QED BY <2>1, <2>2, <2>3 DEF Tasks
<1>12. Range(pe \o xs) \cup Range(ru) = Range(xs)
  BY <1>4, <1>5
<1> QED BY <1>8, <1>11, <1>12

-----------------------------------------------------------------------------
\* The invariant is inductive

\* Nodes start with one pending node for every map.
LEMMA InitCoord == Init => CoordInv
<1> SUFFICES ASSUME Init PROVE CoordInv
  OBVIOUS
<1>1. NMap \in Nat \ {0} /\ Map = 1 .. NMap
  BY MapReduceAssumption DEF Map
<1>2. /\ node = [n \in Map |-> Node("map", n, <<>>)] /\ free = <<>> /\ pending = [n \in Map |-> n]
      /\ running = <<>> /\ mapTask = [i \in Map |-> i] /\ reduceTask = [r \in Reduce |-> 0]
      /\ mapDone = {}
  BY DEF Init
<1>3. node \in Seq(TaskNode) /\ Len(node) = NMap
  <2>1. \A n \in Map : Node("map", n, <<>>) \in TaskNode
    BY <1>1, EmptySeq DEF Node, TaskNode
  <2>2. node \in [1 .. NMap -> TaskNode]
    BY <1>1, <1>2, <2>1
  <2> QED BY <1>1, <2>2, SeqDef, LenProperties
<1>4. pending \in Seq(1 .. NMap)
  <2>1. pending \in [1 .. NMap -> 1 .. NMap]
    BY <1>1, <1>2
  <2> QED BY <1>1, <2>1, SeqDef
<1>5. Range(pending) = Map /\ IsInjective(pending)
  BY <1>2 DEF Range, IsInjective
<1>6. Range(<<>>) = {} /\ IsInjective(<<>>) /\ <<>> \in Seq(1 .. NMap) /\ <<>> \in Seq(Map)
  BY EmptySeq DEF Range, IsInjective
<1>7. \A n \in Map : node[n].kind = "map" /\ node[n].id = n /\ node[n].state = "pending"
  BY <1>2 DEF Node
<1>8. Lists(node, pending, running, free)
  BY <1>2, <1>3, <1>4, <1>5, <1>6, <1>7 DEF Lists
<1>9. Tasks(node, listedNodes, mapTask, reduceTask, mapDone)
  <2>1. mapTask \in [Map -> Nat] /\ reduceTask \in [Reduce -> Nat] /\ mapDone \subseteq Map
    BY <1>1, <1>2
  <2>2. listedNodes = Map
    BY <1>2, <1>5, <1>6 DEF listedNodes
  <2> QED BY <1>2, <1>7, <2>1, <2>2 DEF Tasks
<1>10. PhaseInv
  BY <1>2, <1>6 DEF Init, PhaseInv
<1>11. WorkerInv
  BY <1>6 DEF Init, WorkerInv, Idle
<1> QED BY <1>8, <1>9, <1>10, <1>11 DEF CoordInv

\* What GetTask does with the table nd and the pending list pe it has after the phase check
Answered(w, nd, pe) ==
  \/ /\ pe # <<>>
     /\ node' = [nd EXCEPT ![Head(pe)].state = "running"]
     /\ pending' = Tail(pe)
     /\ running' = Append(running, Head(pe))
     /\ worker' = [worker EXCEPT ![w] = [pc |-> nd[Head(pe)].kind, task |-> nd[Head(pe)].id,
                                         files |-> nd[Head(pe)].files]]
     /\ UNCHANGED done
  \/ /\ pe = <<>> /\ reducesReady' = TRUE /\ running = <<>>
     /\ done' = TRUE
     /\ worker' = [worker EXCEPT ![w].pc = "exit"]
     /\ node' = nd /\ pending' = pe /\ running' = running
  \/ /\ pe = <<>>
     /\ node' = nd /\ pending' = pe /\ UNCHANGED <<running, worker, done>>

\* The phase is the one before, or the reduce phase has started
Phased ==
  \/ reduceTask' = reduceTask /\ reducesReady' = reducesReady
  \/ /\ reducesReady' = TRUE /\ reducesReady = FALSE /\ mapDone = Map
     /\ \A r \in Reduce : reduceTask'[r] # 0

\* The reduce phase starts with the files of all maps, or the lists are as they were
\* (coordinator.go:130-141, 213-221).
LEMMA AfterStart ==
  ASSUME CoordInv, NEW w \in Worker, GetTask(w)
  PROVE  \E nd, pe :
           /\ Lists(nd, pe, running, free')
           /\ Tasks(nd, Range(pe) \cup Range(running), mapTask, reduceTask', mapDone)
           /\ Phased
           /\ Answered(w, nd, pe)
<1> DEFINE start == ~ reducesReady /\ mapsOver
           fresh == alloc(NReduce)
           rs == [i \in 1 .. NReduce |-> Node("reduce", i - 1, mapFiles[i - 1])]
<1>0. reducesReady \in BOOLEAN
  BY DEF CoordInv, PhaseInv
<1>1. CASE ~ start
  <2>1. free' = free /\ reduceTask' = reduceTask /\ reducesReady' = reducesReady
    BY <1>0, <1>1 DEF GetTask
  <2>2. Answered(w, node, pending)
    BY <1>0, <1>1, <2>1 DEF GetTask, Answered
  <2>3. /\ Lists(node, pending, running, free)
        /\ Tasks(node, Range(pending) \cup Range(running), mapTask, reduceTask, mapDone)
    BY DEF CoordInv, listedNodes
  <2>4. /\ Lists(node, pending, running, free')
        /\ Tasks(node, Range(pending) \cup Range(running), mapTask, reduceTask', mapDone)
    BY <2>1, <2>3
  <2>5. Phased
    BY <2>1 DEF Phased
  <2> QED BY <2>2, <2>4, <2>5
<1>2. CASE start
  <2> DEFINE nd1 == initialised(fresh, rs)
             pe1 == pending \o fresh
  <2>1. NReduce \in Nat /\ Reduce = 0 .. NReduce - 1
    BY MapReduceAssumption DEF Reduce
  <2>2. /\ node \in Seq(TaskNode) /\ free \in Seq(1 .. Len(node)) /\ IsInjective(free)
        /\ Len(node) \in Nat
    BY LenProperties DEF CoordInv, Lists
  <2>3. mapDone = Map /\ \A r \in Reduce : reduceTask[r] = 0 /\ mapFiles[r] \in Orders
    BY <1>2, OrderFacts DEF CoordInv, PhaseInv, mapsOver
  <2>4. rs \in [1 .. NReduce -> TaskNode]
    <3>1. ASSUME NEW i \in 1 .. NReduce
          PROVE  Node("reduce", i - 1, mapFiles[i - 1]) \in TaskNode
      <4>1. i - 1 \in Reduce /\ i - 1 \in Nat
        BY <2>1
      <4>2. mapFiles[i - 1] \in Seq(Map)
        BY <4>1 DEF CoordInv, PhaseInv
      <4> QED BY <4>1, <4>2 DEF Node, TaskNode
    <3> QED BY <3>1
  <2>5. /\ fresh \in Seq(Nat \ {0}) /\ Len(fresh) = NReduce /\ IsInjective(fresh)
        /\ \A n \in Range(fresh) : n \in Range(free) \/ n > Len(node)
        /\ poolAfter(NReduce) \in Seq(1 .. Len(node)) /\ IsInjective(poolAfter(NReduce))
        /\ Range(poolAfter(NReduce)) \subseteq Range(free) \ Range(fresh)
    BY <2>1, <2>2, AllocFacts
  <2>6. /\ nd1 \in Seq(TaskNode) /\ Len(nd1) >= Len(node)
        /\ \A n \in 1 .. Len(node) : n \notin Range(fresh) => nd1[n] = node[n]
        /\ \A i \in 1 .. NReduce : fresh[i] \in 1 .. Len(nd1) /\ nd1[fresh[i]] = rs[i]
    BY <2>1, <2>2, <2>4, InitialisedFacts
  <2>7. \A i \in 1 .. NReduce : nd1[fresh[i]] = Node("reduce", i - 1, mapFiles[i - 1])
    BY <2>6
  <2>8. /\ free' = poolAfter(NReduce) /\ reduceTask' = [r \in Reduce |-> fresh[r + 1]]
        /\ reducesReady' = TRUE /\ reducesReady = FALSE
    BY <1>0, <1>2 DEF GetTask
  <2>9. Answered(w, nd1, pe1)
    <3>1. /\ start = TRUE /\ nd1 = initialised(alloc(NReduce),
                    [i \in 1 .. NReduce |-> Node("reduce", i - 1, mapFiles[i - 1])])
          /\ pe1 = pending \o alloc(NReduce)
      BY <1>2
    <3> HIDE DEF start, nd1, pe1, fresh, rs
    <3>2. ~ reducesReady /\ mapsOver
      BY <3>1 DEF start
    <3>3. pe1 # <<>>
      <4>1. /\ pending \in Seq(Nat) /\ alloc(NReduce) \in Seq(Nat) /\ NReduce \in Nat \ {0}
            /\ Len(alloc(NReduce)) = NReduce
        <5>1. 1 .. Len(node) \subseteq Nat /\ Nat \ {0} \subseteq Nat
          OBVIOUS
        <5>2. alloc(NReduce) \in Seq(Nat \ {0}) /\ Len(alloc(NReduce)) = NReduce
          BY <2>1, <2>2, AllocFacts
        <5> QED BY <5>1, <5>2, SeqMonotonic, MapReduceAssumption DEF CoordInv, Lists
      <4>2. Len(pe1) = Len(pending) + NReduce /\ Len(pending) \in Nat
        BY <3>1, <4>1, ConcatProperties, LenProperties
      <4>3. Len(pe1) # 0
        BY <4>1, <4>2
      <4> QED BY <4>3, EmptySeq
    <3> QED BY <2>8, <3>1, <3>2, <3>3 DEF GetTask, Answered
  <2> HIDE DEF fresh, nd1, rs
  <2>10. /\ Lists(nd1, pending, running, free')
         /\ \A n \in Range(pending) \cup Range(running) :
              n \in 1 .. Len(node) /\ n \notin Range(fresh)
    BY <2>5, <2>6, <2>8, Extended DEF CoordInv
  <2>11. /\ Lists(nd1, pe1, running, free')
         /\ Tasks(nd1, Range(pe1) \cup Range(running), mapTask, reduceTask', mapDone)
    <3>1. Range(fresh) \cap Range(free') = {}
      BY <2>5, <2>8
    <3>2. /\ Lists(node, pending, running, free)
          /\ Tasks(node, Range(pending) \cup Range(running), mapTask, reduceTask, mapDone)
      BY DEF CoordInv, listedNodes
    <3>3. \A i \in 1 .. NReduce : /\ fresh[i] \in 1 .. Len(nd1)
                                  /\ nd1[fresh[i]] = Node("reduce", i - 1, mapFiles[i - 1])
      BY <2>6, <2>7
    <3>4. /\ Lists(nd1, pending \o fresh, running, free')
          /\ Tasks(nd1, Range(pending \o fresh) \cup Range(running), mapTask, reduceTask', mapDone)
      <4>1. Starting(node, nd1, pending, running, free, free', mapTask, reduceTask, mapDone,
                     fresh, mapFiles, reduceTask')
        BY <2>3, <2>5, <2>8, <2>10, <3>1, <3>2, <3>3 DEF Starting
      <4> QED BY <4>1, Started
    <3> QED BY <3>4
  <2>12. Phased
    <3>1. \A r \in Reduce : r + 1 \in 1 .. Len(fresh)
      BY <2>1, <2>5
    <3>2. \A r \in Reduce : fresh[r + 1] # 0
      BY <2>5, <3>1, ElementOfSeq
    <3> QED BY <2>3, <2>8, <3>2 DEF Phased
  <2> HIDE DEF pe1
  <2> QED BY <2>9, <2>11, <2>12
<1> QED BY <1>1, <1>2

\* What a step of the phase preserves.
LEMMA PhasedKeeps ==
  ASSUME CoordInv, Phased, UNCHANGED <<mapDone, mapFiles>>,
         done' \in BOOLEAN, done' => \/ done
                                     \/ /\ reducesReady' = TRUE
                                        /\ \A r \in Reduce : reduceTask'[r] = 0
  PROVE  PhaseInv'
<1>1. reducesReady \in BOOLEAN /\ done \in BOOLEAN
  BY DEF CoordInv, PhaseInv
<1>2. /\ mapFiles' \in [Reduce -> Seq(Map)]
      /\ \A r \in Reduce : IsInjective(mapFiles'[r]) /\ Range(mapFiles'[r]) = mapDone'
  BY DEF CoordInv, PhaseInv
<1>3. CASE reduceTask' = reduceTask /\ reducesReady' = reducesReady
  BY <1>1, <1>2, <1>3 DEF CoordInv, PhaseInv
<1>4. CASE reducesReady' = TRUE /\ reducesReady = FALSE /\ mapDone = Map
  <2>1. ~ done
    BY <1>4 DEF CoordInv, PhaseInv
  <2> QED BY <1>2, <1>4, <2>1 DEF PhaseInv
<1> QED BY <1>3, <1>4 DEF Phased

\* A worker asks for a task (coordinator.go:118-159).
LEMMA GetTaskKeeps ==
  ASSUME CoordInv, NEW w \in Worker, GetTask(w)
  PROVE  CoordInv'
<1>1. PICK nd, pe :
           /\ Lists(nd, pe, running, free')
           /\ Tasks(nd, Range(pe) \cup Range(running), mapTask, reduceTask', mapDone)
           /\ Phased
           /\ Answered(w, nd, pe)
  BY AfterStart
<1>2. UNCHANGED <<mapTask, mapDone, mapFiles>> /\ done \in BOOLEAN
  BY DEF GetTask, CoordInv, PhaseInv
<1>3. CASE /\ pe # <<>>
           /\ node' = [nd EXCEPT ![Head(pe)].state = "running"]
           /\ pending' = Tail(pe)
           /\ running' = Append(running, Head(pe))
           /\ worker' = [worker EXCEPT ![w] = [pc |-> nd[Head(pe)].kind, task |-> nd[Head(pe)].id,
                                               files |-> nd[Head(pe)].files]]
           /\ UNCHANGED done
  <2>1. /\ Lists(node', pending', running', free')
        /\ Tasks(node', Range(pending') \cup Range(running'), mapTask, reduceTask', mapDone)
        /\ Head(pe) \in Range(pe) /\ Head(pe) \in 1 .. Len(nd)
    BY <1>1, <1>3, HandOut
  <2>2. nd[Head(pe)] \in TaskNode
    BY <1>1, <2>1, ElementOfSeq DEF Lists
  <2>3. \/ nd[Head(pe)].kind = "map" /\ nd[Head(pe)].id \in Map
        \/ /\ nd[Head(pe)].kind = "reduce" /\ nd[Head(pe)].id \in Reduce
           /\ nd[Head(pe)].files \in Orders
    BY <1>1, <2>1 DEF Tasks
  <2>4. WorkerInv'
    <3> DEFINE new == [pc |-> nd[Head(pe)].kind, task |-> nd[Head(pe)].id,
                       files |-> nd[Head(pe)].files]
    <3>1. new \in [pc : {"idle", "map", "reduce", "report", "exit"}, task : Nat, files : Seq(Map)]
      BY <2>2 DEF TaskNode
    <3>2. worker' = [worker EXCEPT ![w] = new]
      BY <1>3
    <3>3. /\ new.pc = "map" => new.task \in Map
          /\ new.pc \in {"reduce", "report"} => new.task \in Reduce
          /\ new.pc = "reduce" => new.files \in Orders
      BY <2>3
    <3> HIDE DEF new
    <3> QED BY <3>1, <3>2, <3>3 DEF CoordInv, WorkerInv
  <2>5. PhaseInv'
    BY <1>1, <1>2, <1>3, PhasedKeeps
  <2>6. Tasks(node', listedNodes', mapTask', reduceTask', mapDone')
    BY <1>2, <2>1 DEF listedNodes
  <2> QED BY <2>1, <2>4, <2>5, <2>6 DEF CoordInv
<1>4. CASE /\ pe = <<>> /\ reducesReady' = TRUE /\ running = <<>>
           /\ done' = TRUE
           /\ worker' = [worker EXCEPT ![w].pc = "exit"]
           /\ node' = nd /\ pending' = pe /\ running' = running
  <2>1. Range(pe) \cup Range(running) = {}
    BY <1>4 DEF Range
  <2>2. \A r \in Reduce : reduceTask'[r] = 0
    BY <1>1, <2>1 DEF Tasks
  <2>3. PhaseInv'
    BY <1>1, <1>2, <1>4, <2>2, PhasedKeeps
  <2>4. WorkerInv'
    BY <1>4 DEF CoordInv, WorkerInv
  <2>5. /\ Lists(node', pending', running', free')
        /\ Tasks(node', listedNodes', mapTask', reduceTask', mapDone')
    BY <1>1, <1>2, <1>4 DEF listedNodes
  <2> QED BY <2>3, <2>4, <2>5 DEF CoordInv
<1>5. CASE /\ pe = <<>>
           /\ node' = nd /\ pending' = pe /\ UNCHANGED <<running, worker, done>>
  <2>1. PhaseInv'
    BY <1>1, <1>2, <1>5, PhasedKeeps
  <2>2. WorkerInv'
    BY <1>5 DEF CoordInv, WorkerInv
  <2>3. /\ Lists(node', pending', running', free')
        /\ Tasks(node', listedNodes', mapTask', reduceTask', mapDone')
    BY <1>1, <1>2, <1>5 DEF listedNodes
  <2> QED BY <2>1, <2>2, <2>3 DEF CoordInv
<1> QED BY <1>1, <1>3, <1>4, <1>5 DEF Answered

\* A worker that has nothing to do.
LEMMA BecomesIdle ==
  ASSUME CoordInv, NEW w \in Worker, worker' = [worker EXCEPT ![w] = Idle]
  PROVE  WorkerInv'
<1>1. Idle \in [pc : {"idle", "map", "reduce", "report", "exit"}, task : Nat, files : Seq(Map)]
      /\ Idle.pc = "idle"
  BY EmptySeq DEF Idle
<1> QED BY <1>1 DEF CoordInv, WorkerInv

\* The lists and the tasks stay as they are.
LEMMA ListsStay ==
  ASSUME CoordInv, UNCHANGED <<poolVars, pending, running, taskVars>>, WorkerInv'
  PROVE  CoordInv'
<1>1. /\ node' = node /\ free' = free /\ pending' = pending /\ running' = running
      /\ mapTask' = mapTask /\ reduceTask' = reduceTask /\ mapDone' = mapDone
      /\ mapFiles' = mapFiles /\ reducesReady' = reducesReady /\ done' = done
  BY DEF poolVars, taskVars
<1>2. PhaseInv'
  BY <1>1 DEF CoordInv, PhaseInv
<1>3. Lists(node', pending', running', free')
  BY <1>1 DEF CoordInv
<1>4. Tasks(node', listedNodes', mapTask', reduceTask', mapDone')
  BY <1>1 DEF CoordInv, listedNodes
<1> QED BY <1>2, <1>3, <1>4 DEF CoordInv

\* A worker reports a map task (coordinator.go:161-187).
LEMMA ReportMapKeeps ==
  ASSUME CoordInv, NEW w \in Worker, ReportMap(w)
  PROVE  CoordInv'
<1> DEFINE m == worker[w].task
           n == mapTask[m]
<1>1. WorkerInv'
  BY BecomesIdle DEF ReportMap
<1>2. CASE reported(m) \/ ~ awaits(n)
  <2>1. UNCHANGED <<poolVars, pending, running, taskVars>>
    BY <1>2 DEF ReportMap, taskVars
  <2> QED BY <1>1, <2>1, ListsStay
<1>3. CASE ~ (reported(m) \/ ~ awaits(n))
  <2>1. m \in Map
    BY DEF CoordInv, WorkerInv, ReportMap
  <2>2. m \notin mapDone /\ node[n].state = "running"
    BY <1>3 DEF reported, awaits
  <2>3. n \in listedNodes /\ node[n].kind = "map" /\ node[n].id = m
    BY <2>1, <2>2 DEF CoordInv, Tasks
  <2>4. n \in Range(running)
    BY <2>2, <2>3 DEF CoordInv, Lists, listedNodes
  <2>5. /\ running' = RemoveFirst(running, n) /\ free' = Append(free, n)
        /\ node' = [node EXCEPT ![n].files = <<>>]
        /\ mapDone' = mapDone \cup {m}
        /\ mapFiles' = [r \in Reduce |-> Append(mapFiles[r], m)]
        /\ UNCHANGED <<pending, mapTask, reduceTask, reducesReady, done>>
    BY <1>3 DEF ReportMap, recycle
  <2> HIDE DEF m, n
  <2>6. /\ Lists(node', pending', running', free')
        /\ Tasks(node', listedNodes', mapTask', reduceTask', mapDone')
    <3>1. /\ Lists(node, pending, running, free)
          /\ Tasks(node, Range(pending) \cup Range(running), mapTask, reduceTask, mapDone)
      BY DEF CoordInv, listedNodes
    <3>2. /\ Lists(node', pending, running', free')
          /\ Tasks(node', Range(pending) \cup Range(running'), mapTask, reduceTask, mapDone')
      BY <2>3, <2>4, <2>5, <3>1, Reported
    <3> QED BY <2>5, <3>2 DEF listedNodes
  <2>7. PhaseInv'
    <3>1. ~ reducesReady /\ ~ done
      BY <2>1, <2>2 DEF CoordInv, PhaseInv
    <3>2. ASSUME NEW r \in Reduce
          PROVE  /\ mapFiles'[r] \in Seq(Map) /\ IsInjective(mapFiles'[r])
                 /\ Range(mapFiles'[r]) = mapDone'
      <4>1. mapFiles[r] \in Seq(Map) /\ IsInjective(mapFiles[r]) /\ Range(mapFiles[r]) = mapDone
        BY DEF CoordInv, PhaseInv
      <4>2. mapFiles'[r] = Append(mapFiles[r], m)
        BY <2>5
      <4> QED BY <2>1, <2>2, <2>5, <4>1, <4>2, AppendFacts
    <3>3. mapFiles' \in [Reduce -> Seq(Map)]
      BY <2>5, <3>2
    <3> QED BY <2>5, <3>1, <3>2, <3>3 DEF CoordInv, PhaseInv
  <2> QED BY <1>1, <2>6, <2>7 DEF CoordInv
<1> QED BY <1>2, <1>3

\* A worker reports a reduce task (coordinator.go:189-211).
LEMMA ReportReduceKeeps ==
  ASSUME CoordInv, NEW w \in Worker, ReportReduce(w)
  PROVE  CoordInv'
<1> DEFINE r == worker[w].task
           n == reduceTask[r]
<1>1. WorkerInv'
  BY BecomesIdle DEF ReportReduce
<1>2. CASE n = 0 \/ ~ awaits(n)
  <2>1. UNCHANGED <<poolVars, pending, running, taskVars>>
    BY <1>2 DEF ReportReduce, taskVars
  <2> QED BY <1>1, <2>1, ListsStay
<1>3. CASE ~ (n = 0 \/ ~ awaits(n))
  <2>1. r \in Reduce
    BY DEF CoordInv, WorkerInv, ReportReduce
  <2>2. n # 0 /\ node[n].state = "running"
    BY <1>3 DEF awaits
  <2>3. n \in listedNodes /\ node[n].kind = "reduce" /\ node[n].id = r
    BY <2>1, <2>2 DEF CoordInv, Tasks
  <2>4. n \in Range(running)
    BY <2>2, <2>3 DEF CoordInv, Lists, listedNodes
  <2>5. /\ running' = RemoveFirst(running, n) /\ free' = Append(free, n)
        /\ node' = [node EXCEPT ![n].files = <<>>]
        /\ reduceTask' = [reduceTask EXCEPT ![r] = 0]
        /\ UNCHANGED <<pending, mapTask, mapDone, mapFiles, reducesReady, done>>
    BY <1>3 DEF ReportReduce, recycle
  <2>6. reduceTask \in [Reduce -> Nat]
    BY DEF CoordInv, Tasks
  <2> HIDE DEF r, n
  <2>7. /\ Lists(node', pending', running', free')
        /\ Tasks(node', listedNodes', mapTask', reduceTask', mapDone')
    <3>1. /\ Lists(node, pending, running, free)
          /\ Tasks(node, Range(pending) \cup Range(running), mapTask, reduceTask, mapDone)
      BY DEF CoordInv, listedNodes
    <3>2. /\ Lists(node', pending, running', free')
          /\ Tasks(node', Range(pending) \cup Range(running'), mapTask, reduceTask', mapDone)
      BY <2>3, <2>4, <2>5, <3>1, Reported
    <3> QED BY <2>5, <3>2 DEF listedNodes
  <2>8. PhaseInv'
    <3>1. \A x \in Reduce : reduceTask[x] = 0 => reduceTask'[x] = 0
      BY <2>1, <2>5, <2>6
    <3> QED BY <2>5, <3>1 DEF CoordInv, PhaseInv
  <2> QED BY <1>1, <2>7, <2>8 DEF CoordInv
<1> QED BY <1>2, <1>3

\* A worker links its output, or finds one (worker.go:270-278).
LEMMA LinkKeeps ==
  ASSUME CoordInv, NEW w \in Worker, link(w)
  PROVE  CoordInv'
<1>1. UNCHANGED <<poolVars, pending, running, taskVars>>
  BY DEF link
<1>2. WorkerInv'
  <2>1. CASE worker' = [worker EXCEPT ![w].pc = "report"]
    BY <2>1 DEF CoordInv, WorkerInv, link
  <2>2. CASE worker' = [worker EXCEPT ![w] = Idle]
    BY <2>2, BecomesIdle
  <2> QED BY <2>1, <2>2 DEF link
<1> QED BY <1>1, <1>2, ListsStay

\* The oldest task is given up (coordinator.go:261-289).
LEMMA TimeoutKeeps ==
  ASSUME CoordInv, checkTimeout
  PROVE  CoordInv'
<1> DEFINE n == Head(running)
           t == node[n]
           new == alloc(1)
           rs == <<Node(t.kind, t.id, t.files)>>
           nd1 == initialised(new, rs)
<1>1. /\ Lists(node, pending, running, free)
      /\ Tasks(node, Range(pending) \cup Range(running), mapTask, reduceTask, mapDone)
  BY DEF CoordInv, listedNodes
<1>2. /\ node \in Seq(TaskNode) /\ free \in Seq(1 .. Len(node)) /\ IsInjective(free)
      /\ Len(node) \in Nat
  BY <1>1, LenProperties DEF Lists
<1>3. running # <<>> /\ n \in Range(running) /\ n \in 1 .. Len(node) /\ t \in TaskNode
  <2>1. running # <<>>
    BY DEF checkTimeout
  <2>2. running \in Seq(1 .. Len(node)) /\ IsInjective(running)
    BY <1>1 DEF Lists
  <2>3. n \in Range(running) /\ n \in 1 .. Len(node)
    BY <2>1, <2>2, TailFacts, InRange
  <2> QED BY <1>2, <2>1, <2>3, ElementOfSeq
<1>4. rs \in [1 .. 1 -> TaskNode] /\ rs[1] = Node(t.kind, t.id, t.files)
  <2>1. Node(t.kind, t.id, t.files) \in TaskNode
    BY <1>3 DEF Node, TaskNode
  <2> QED BY <2>1
<1>5. /\ new \in Seq(Nat \ {0}) /\ Len(new) = 1 /\ IsInjective(new)
      /\ \A x \in Range(new) : x \in Range(free) \/ x > Len(node)
      /\ poolAfter(1) \in Seq(1 .. Len(node)) /\ IsInjective(poolAfter(1))
      /\ Range(poolAfter(1)) \subseteq Range(free) \ Range(new)
  BY <1>2, AllocFacts
<1>6. /\ nd1 \in Seq(TaskNode) /\ Len(nd1) >= Len(node)
      /\ \A x \in 1 .. Len(node) : x \notin Range(new) => nd1[x] = node[x]
      /\ \A i \in 1 .. 1 : new[i] \in 1 .. Len(nd1) /\ nd1[new[i]] = rs[i]
  BY <1>2, <1>4, InitialisedFacts
<1>7. /\ running' = Tail(running)
      /\ node' = [nd1 EXCEPT ![n].files = <<>>]
      /\ free' = Append(poolAfter(1), n)
      /\ pending' = Append(pending, new[1])
      /\ mapTask' = IF t.kind = "map" THEN [mapTask EXCEPT ![t.id] = new[1]] ELSE mapTask
      /\ reduceTask' = IF t.kind = "reduce" THEN [reduceTask EXCEPT ![t.id] = new[1]]
                                            ELSE reduceTask
      /\ UNCHANGED <<worker, mapDone, mapFiles, reducesReady, done>>
  BY DEF checkTimeout, requeued
<1>8. new[1] \in Range(new) /\ new[1] # 0
  BY <1>5, InRange
<1>9. nd1[new[1]] = Node(t.kind, t.id, t.files) /\ new[1] \in 1 .. Len(nd1)
  BY <1>4, <1>6
<1> HIDE DEF new, nd1, rs
<1>10. /\ Lists(nd1, pending, running, poolAfter(1))
       /\ \A x \in Range(pending) \cup Range(running) :
            x \in 1 .. Len(node) /\ x \notin Range(new) /\ nd1[x] = node[x]
  <2>1. Lists(node, pending, running, free)
    BY <1>1
  <2>2. /\ nd1 \in Seq(TaskNode) /\ Len(nd1) >= Len(node)
        /\ \A x \in 1 .. Len(node) : x \notin Range(new) => nd1[x] = node[x]
    BY <1>6
  <2>3. /\ \A x \in Range(new) : x \in Range(free) \/ x > Len(node)
        /\ poolAfter(1) \in Seq(1 .. Len(node)) /\ IsInjective(poolAfter(1))
        /\ Range(poolAfter(1)) \subseteq Range(free) \ Range(new)
    BY <1>5
  <2> QED BY <2>1, <2>2, <2>3, Extended
<1>11. /\ Lists(node', pending', running', free')
       /\ Tasks(node', Range(pending') \cup Range(running'), mapTask', reduceTask', mapDone)
  <2>1. \A x \in Range(pending) \cup Range(running) : x # new[1] /\ nd1[x] = node[x]
    BY <1>8, <1>10
  <2>2. new[1] \notin Range(poolAfter(1))
    BY <1>5, <1>8
  <2> QED BY <1>1, <1>3, <1>7, <1>8, <1>9, <1>10, <2>1, <2>2, TimedOut
<1>12. PhaseInv'
  <2>1. ASSUME ~ reducesReady \/ done PROVE reduceTask' = reduceTask
    <3>1. \A r \in Reduce : reduceTask[r] = 0
      BY <2>1 DEF CoordInv, PhaseInv
    <3>2. t.kind = "map"
      BY <1>1, <1>2, <1>3, <3>1 DEF Tasks
    <3> QED BY <1>7, <3>2
  <2> QED BY <1>7, <2>1 DEF CoordInv, PhaseInv
<1>13. WorkerInv'
  BY <1>7 DEF CoordInv, WorkerInv
<1>14. Tasks(node', listedNodes', mapTask', reduceTask', mapDone')
  BY <1>7, <1>11 DEF listedNodes
<1> QED BY <1>11, <1>12, <1>13, <1>14 DEF CoordInv

\* Every step keeps the invariant.
LEMMA NextCoord == CoordInv /\ [Next]_vars => CoordInv'
<1> SUFFICES ASSUME CoordInv, [Next]_vars PROVE CoordInv'
  OBVIOUS
<1>1. ASSUME NEW w \in Worker, crash(w) PROVE CoordInv'
  <2>1. UNCHANGED <<poolVars, pending, running, taskVars>> /\ worker' = [worker EXCEPT ![w] = Idle]
    BY <1>1 DEF crash
  <2> QED BY <2>1, BecomesIdle, ListsStay
<1>2. CASE UNCHANGED vars
  <2>1. UNCHANGED <<poolVars, pending, running, taskVars>> /\ worker' = worker
    BY <1>2 DEF vars, workerVars
  <2>2. WorkerInv'
    BY <2>1 DEF CoordInv, WorkerInv
  <2> QED BY <2>1, <2>2, ListsStay
<1> QED BY <1>1, <1>2, GetTaskKeeps, ReportMapKeeps, ReportReduceKeeps, LinkKeeps, TimeoutKeeps
    DEF Next, rpc

\* The invariant holds in every state.
THEOREM CoordInvHolds == Spec => []CoordInv
<1> QED BY InitCoord, NextCoord, PTL DEF Spec

-----------------------------------------------------------------------------
\* A task is in the lists at most once

\* A list without repetition is as long as it has elements.
LEMMA LenInjective ==
  ASSUME NEW S, NEW s \in Seq(S), IsInjective(s)
  PROVE  IsFiniteSet(Range(s)) /\ Cardinality(Range(s)) = Len(s)
<1>1. Len(s) \in Nat /\ DOMAIN s = 1 .. Len(s) /\ s \in [1 .. Len(s) -> S]
  BY LenProperties
<1>2. s \in [1 .. Len(s) -> Range(s)]
  BY <1>1 DEF Range
<1>3. s \in Bijection(1 .. Len(s), Range(s))
  BY <1>1, <1>2 DEF Bijection, Injection, Surjection, IsInjective, Range
<1>4. IsFiniteSet(1 .. Len(s)) /\ Cardinality(1 .. Len(s)) = Len(s)
  BY <1>1, FS_Interval
<1>5. ExistsBijection(1 .. Len(s), Range(s))
  BY <1>3 DEF ExistsBijection
<1> QED BY <1>4, <1>5, FS_Bijection

\* A set of tasks has as many tasks as it has nodes when each node tells its task.
LEMMA CountNodes ==
  ASSUME NEW S, IsFiniteSet(S), NEW N, NEW f, NEW g,
         \A t \in S : f[t] \in N /\ g[f[t]] = t,
         \A n \in N : \E t \in S : f[t] = n
  PROVE  IsFiniteSet(N) /\ Cardinality(N) = Cardinality(S)
<1> DEFINE h == [t \in S |-> f[t]]
<1>1. h \in [S -> N]
  OBVIOUS
<1>2. \A a, b \in S : h[a] = h[b] => a = b
  <2> SUFFICES ASSUME NEW a \in S, NEW b \in S, h[a] = h[b] PROVE a = b
    OBVIOUS
  <2>1. g[f[a]] = a /\ g[f[b]] = b /\ f[a] = f[b]
    OBVIOUS
  <2> QED BY <2>1
<1>3. \A n \in N : \E t \in S : h[t] = n
  OBVIOUS
<1> HIDE DEF h
<1>4. h \in Bijection(S, N)
  BY <1>1, <1>2, <1>3 DEF Bijection, Injection, Surjection, IsInjective
<1>5. ExistsBijection(S, N)
  BY <1>4 DEF ExistsBijection
<1> QED BY <1>5, FS_Bijection

\* The invariant says it.
LEMMA CoordInvImplies == CoordInv => OneNodePerTask
<1> SUFFICES ASSUME CoordInv PROVE OneNodePerTask
  OBVIOUS
<1>1. /\ Lists(node, pending, running, free)
      /\ Tasks(node, Range(pending) \cup Range(running), mapTask, reduceTask, mapDone)
  BY DEF CoordInv, listedNodes
<1>2. /\ pending \o running \in Seq(1 .. Len(node))
      /\ Range(pending \o running) = Range(pending) \cup Range(running)
      /\ IsInjective(pending \o running)
  BY <1>1, ConcatFacts DEF Lists
<1>3. IsInjective((pending \o running) \o free)
  <2>1. Range(pending \o running) \cap Range(free) = {}
    BY <1>1, <1>2 DEF Lists
  <2> QED BY <1>1, <1>2, <2>1, ConcatFacts DEF Lists
<1> DEFINE listed == Range(pending) \cup Range(running)
           maps == {n \in listed : node[n].kind = "map"}
           reduces == {n \in listed : node[n].kind = "reduce"}
           id == [n \in listed |-> node[n].id]
           R == {r \in Reduce : reduceTask[r] # 0}
<1>4. IsFiniteSet(Map \ mapDone) /\ IsFiniteSet(R)
  <2>1. NMap \in Nat /\ NReduce \in Nat /\ Map = 1 .. NMap /\ Reduce = 0 .. NReduce - 1
    BY MapReduceAssumption DEF Map, Reduce
  <2>2. IsFiniteSet(Map) /\ IsFiniteSet(Reduce)
    BY <2>1, FS_Interval
  <2> QED BY <2>2, FS_Subset
<1>5. IsFiniteSet(maps) /\ Cardinality(maps) = Cardinality(Map \ mapDone)
  <2>1. \A t \in Map \ mapDone : mapTask[t] \in maps /\ id[mapTask[t]] = t
    BY <1>1 DEF Tasks
  <2>2. \A n \in maps : \E t \in Map \ mapDone : mapTask[t] = n
    BY <1>1 DEF Tasks
  <2> HIDE DEF maps, id
  <2> QED BY <1>4, <2>1, <2>2, CountNodes
<1>6. IsFiniteSet(reduces) /\ Cardinality(reduces) = Cardinality(R)
  <2>1. \A r \in R : reduceTask[r] \in reduces /\ id[reduceTask[r]] = r
    BY <1>1 DEF Tasks
  <2>2. \A n \in reduces : \E r \in R : reduceTask[r] = n
    <3> SUFFICES ASSUME NEW n \in reduces PROVE \E r \in R : reduceTask[r] = n
      OBVIOUS
    <3>1. node[n].id \in Reduce /\ reduceTask[node[n].id] = n
      BY <1>1 DEF Tasks
    <3>2. n # 0
      <4>1. n \in 1 .. Len(node)
        BY <1>1, InTable DEF Lists
      <4> QED BY <4>1
    <3> QED BY <3>1, <3>2
  <2> HIDE DEF reduces, id, R
  <2> QED BY <1>4, <2>1, <2>2, CountNodes
<1>7. listed = maps \cup reduces /\ maps \cap reduces = {}
  BY <1>1 DEF Tasks
<1>8. Len(pending \o running) = Cardinality(Map \ mapDone) + Cardinality(R)
  <2>1. Cardinality(listed) = Len(pending \o running)
    BY <1>2, LenInjective
  <2> HIDE DEF listed, maps, reduces
  <2>2. Cardinality(maps \cup reduces)
          = Cardinality(maps) + Cardinality(reduces) - Cardinality(maps \cap reduces)
    BY <1>5, <1>6, FS_Union
  <2>3. Cardinality(maps \cap reduces) = 0
    BY <1>7, FS_EmptySet
  <2>4. Cardinality(maps) \in Nat /\ Cardinality(reduces) \in Nat
    BY <1>5, <1>6, FS_CardinalityType
  <2> QED BY <1>5, <1>6, <1>7, <2>1, <2>2, <2>3, <2>4
<1>9. \A m \in Map \ mapDone : /\ mapTask[m] \in Range(pending \o running)
                               /\ node[mapTask[m]].kind = "map" /\ node[mapTask[m]].id = m
  BY <1>1, <1>2 DEF Tasks
<1> QED BY <1>3, <1>8, <1>9 DEF OneNodePerTask

\* A node is in one list or in the pool and only once, and there is one node for every task
\* that is not done (coordinator.go:38-40).
THEOREM OneNode == Spec => []OneNodePerTask
BY CoordInvHolds, CoordInvImplies, PTL

-----------------------------------------------------------------------------
\* Induction over 0 .. n, with the predicate given as a set, because the theorems of
\* NaturalsInduction take it as a parameter, which the provers cannot instantiate.  The
\* numbers below the first gap would have an injection into a proper subset of theirs.
LEMMA Induct ==
  ASSUME NEW n \in Nat, NEW S, 0 \in S, \A i \in 0 .. n : i \in S /\ i < n => i + 1 \in S
  PROVE  \A i \in 0 .. n : i \in S
<1> SUFFICES ASSUME NEW k \in 0 .. n, k \notin S PROVE FALSE
  OBVIOUS
<1> DEFINE A == {i \in 0 .. k : i \in S /\ \A j \in 0 .. i : j \in S}
           f == [i \in A |-> i + 1]
<1>1. 0 \in A
  OBVIOUS
<1>2. \A i \in A : i + 1 \in A \ {0}
  OBVIOUS
<1>3. IsFiniteSet(A) /\ Cardinality(A) \in Nat
  <2>1. IsFiniteSet(0 .. k)
    BY FS_Interval
  <2>2. A \in SUBSET (0 .. k)
    OBVIOUS
  <2> HIDE DEF A
  <2> QED BY <2>1, <2>2, FS_Subset, FS_CardinalityType
<1>4. f \in Injection(A, A \ {0})
  BY <1>2 DEF Injection, IsInjective
<1>5. IsFiniteSet(A \ {0}) /\ Cardinality(A \ {0}) = Cardinality(A) - 1
  <2> HIDE DEF A
  <2> QED BY <1>1, <1>3, FS_RemoveElement
<1>6. Cardinality(A) <= Cardinality(A \ {0})
  <2> HIDE DEF A, f
  <2> QED BY <1>4, <1>5, FS_Injection
<1> HIDE DEF A
<1> QED BY <1>3, <1>5, <1>6

\* A nonempty set of natural numbers has a least element.
LEMMA Least ==
  ASSUME NEW T \in SUBSET Nat, T # {}
  PROVE  \E x \in T : \A y \in T : x <= y
<1> SUFFICES ASSUME \A x \in T : \E y \in T : y < x PROVE FALSE
  OBVIOUS
<1> PICK n \in T : TRUE
  OBVIOUS
<1> DEFINE S == {i \in 0 .. n : \A j \in 0 .. i : j \notin T}
<1>1. 0 \in S
  OBVIOUS
<1>2. ASSUME NEW i \in 0 .. n, i \in S, i < n PROVE i + 1 \in S
  <2>1. i + 1 \notin T
    <3> SUFFICES ASSUME i + 1 \in T PROVE FALSE
      OBVIOUS
    <3> PICK y \in T : y < i + 1
      OBVIOUS
    <3> QED BY <1>2
  <2>2. \A j \in 0 .. i + 1 : j \in 0 .. i \/ j = i + 1
    OBVIOUS
  <2>3. i + 1 \in 0 .. n
    BY <1>2
  <2> QED BY <1>2, <2>1, <2>2, <2>3
<1>3. \A i \in 0 .. n : i \in S
  <2> HIDE DEF S
  <2> QED BY <1>1, <1>2, Induct
<1> QED BY <1>3

-----------------------------------------------------------------------------
\* What a map task writes

Pair == [key : Nat, value : Map \X Nat]

\* There is an order of any set of indexes in which the keys do not ascend.
LEMMA Descending ==
  ASSUME NEW n \in Nat, NEW key \in [1 .. n -> Nat]
  PROVE  \A k \in 0 .. n, T \in SUBSET (1 .. n) : Cardinality(T) = k =>
           \E q \in Bijection(1 .. k, T) :
             \A i, j \in 1 .. k : i < j => key[q[j]] <= key[q[i]]
<1> DEFINE P(k, T, q) == /\ q \in Bijection(1 .. k, T)
                         /\ \A i, j \in 1 .. k : i < j => key[q[j]] <= key[q[i]]
           S == {k \in 0 .. n : \A T \in SUBSET (1 .. n) :
                                  Cardinality(T) = k => \E q : P(k, T, q)}
<1>0. \A T \in SUBSET (1 .. n) : IsFiniteSet(T)
  <2>1. IsFiniteSet(1 .. n)
    BY FS_Interval
  <2> QED BY <2>1, FS_Subset
<1>1. 0 \in S
  <2> SUFFICES ASSUME NEW T \in SUBSET (1 .. n), Cardinality(T) = 0 PROVE \E q : P(0, T, q)
    OBVIOUS
  <2>1. T = {} /\ 1 .. 0 = {}
    BY <1>0, FS_EmptySet
  <2> DEFINE q == [i \in {} |-> 0]
  <2>2. q \in Bijection({}, {})
    BY DEF Bijection, Injection, Surjection, IsInjective
  <2> HIDE DEF q
  <2>3. P(0, T, q)
    BY <2>1, <2>2
  <2> QED BY <2>3
<1>2. ASSUME NEW k \in 0 .. n, k \in S, k < n PROVE k + 1 \in S
  <2> SUFFICES ASSUME NEW T \in SUBSET (1 .. n), Cardinality(T) = k + 1
               PROVE  \E q : P(k + 1, T, q)
    BY <1>2
  <2> DEFINE keys == {key[i] : i \in T}
  <2>1. T # {}
    <3>1. Cardinality({}) = 0 /\ k + 1 # 0
      BY <1>2, FS_EmptySet
    <3> QED BY <3>1
  <2>2. keys \in SUBSET Nat /\ keys # {}
    BY <2>1
  <2>3. PICK y \in keys : \A z \in keys : y <= z
    <3> HIDE DEF keys
    <3> QED BY <2>2, Least
  <2>4. PICK t \in T : \A i \in T : key[t] <= key[i]
    BY <2>3
  <2> DEFINE U == T \ {t}
  <2>5. U \in SUBSET (1 .. n) /\ Cardinality(U) = k
    <3>1. IsFiniteSet(T)
      BY <1>0
    <3>2. Cardinality(U) = Cardinality(T) - 1
      BY <3>1, FS_RemoveElement
    <3> QED BY <1>2, <3>2
  <2> HIDE DEF keys
  <2>6. PICK q : P(k, U, q)
    BY <1>2, <2>5
  <2> DEFINE p == [i \in 1 .. k + 1 |-> IF i <= k THEN q[i] ELSE t]
  <2>7. /\ q \in [1 .. k -> U] /\ \A i, j \in 1 .. k : q[i] = q[j] => i = j
        /\ \A u \in U : \E i \in 1 .. k : q[i] = u
    BY <2>6 DEF Bijection, Injection, Surjection, IsInjective
  <2>8. \A i \in 1 .. k + 1 : (i \in 1 .. k /\ p[i] = q[i]) \/ (i = k + 1 /\ p[i] = t)
    BY <1>2
  <2>9. p \in Bijection(1 .. k + 1, T)
    <3>1. p \in [1 .. k + 1 -> T]
      BY <2>7
    <3>2. \A i, j \in 1 .. k + 1 : p[i] = p[j] => i = j
      BY <2>7, <2>8
    <3>3. \A u \in T : \E i \in 1 .. k + 1 : p[i] = u
      <4> SUFFICES ASSUME NEW u \in T PROVE \E i \in 1 .. k + 1 : p[i] = u
        OBVIOUS
      <4>1. CASE u = t
        BY <1>2, <4>1
      <4>2. CASE u # t
        <5>1. PICK i \in 1 .. k : q[i] = u
          BY <2>7, <4>2
        <5>2. i \in 1 .. k + 1 /\ p[i] = u
          BY <1>2, <5>1
        <5> QED BY <5>2
      <4> QED BY <4>1, <4>2
    <3> HIDE DEF p, U
    <3> QED BY <3>1, <3>2, <3>3 DEF Bijection, Injection, Surjection, IsInjective
  <2>10. ASSUME NEW i \in 1 .. k + 1, NEW j \in 1 .. k + 1, i < j PROVE key[p[j]] <= key[p[i]]
    <3>1. i \in 1 .. k /\ p[i] = q[i]
      BY <1>2, <2>10
    <3>2. q[i] \in T
      BY <2>7, <3>1
    <3>3. CASE j <= k
      <4>1. p[j] = q[j] /\ j \in 1 .. k
        BY <3>3
      <4> HIDE DEF p, U
      <4> QED BY <2>6, <2>10, <3>1, <4>1
    <3>4. CASE j = k + 1
      <4>1. p[j] = t
        BY <1>2, <3>4
      <4> HIDE DEF p
      <4> QED BY <2>4, <3>1, <3>2, <4>1
    <3> QED BY <1>2, <3>3, <3>4
  <2> HIDE DEF p
  <2> QED BY <2>9, <2>10
<1>3. \A k \in 0 .. n : k \in S
  <2> HIDE DEF S
  <2> QED BY <1>1, <1>2, Induct
<1> QED BY <1>3

\* What has been sorted is the same pairs in another order.
LEMMA SortedFacts ==
  ASSUME NEW s \in Seq(Pair)
  PROVE  /\ sorted(s) \in Seq(Pair) /\ Range(sorted(s)) = Range(s)
         /\ IsInjective(s) => IsInjective(sorted(s))
<1> DEFINE n == Len(s)
           key == [i \in 1 .. n |-> s[i].key]
<1>1. n \in Nat /\ DOMAIN s = 1 .. n /\ s \in [1 .. n -> Pair]
  BY LenProperties
<1>2. key \in [1 .. n -> Nat]
  BY <1>1 DEF Pair
<1>3. IsFiniteSet(1 .. n) /\ Cardinality(1 .. n) = n
  BY <1>1, FS_Interval
<1> DEFINE down(d) == /\ d \in Bijection(1 .. n, 1 .. n)
                      /\ \A i, j \in 1 .. n : i < j => key[d[j]] <= key[d[i]]
           up(q) == \A i, j \in DOMAIN s : i < j => s[q[i]].key <= s[q[j]].key
<1>4. PICK d : down(d)
  <2> HIDE DEF key, n
  <2>1. n \in 0 .. n /\ 1 .. n \in SUBSET (1 .. n)
    BY <1>1
  <2> QED BY <1>1, <1>2, <1>3, <2>1, Descending
<1> DEFINE q == [i \in 1 .. n |-> d[n + 1 - i]]
<1>5. d \in [1 .. n -> 1 .. n] /\ (\A i, j \in 1 .. n : d[i] = d[j] => i = j)
      /\ \A u \in 1 .. n : \E i \in 1 .. n : d[i] = u
  BY <1>4 DEF Bijection, Injection, Surjection, IsInjective
<1> HIDE DEF n
<1>6. \A i \in 1 .. n : n + 1 - i \in 1 .. n /\ n + 1 - (n + 1 - i) = i
  BY <1>1
<1>7. q \in Bijection(1 .. n, 1 .. n)
  <2>1. q \in [1 .. n -> 1 .. n]
    BY <1>5, <1>6
  <2>2. ASSUME NEW i \in 1 .. n, NEW j \in 1 .. n, q[i] = q[j] PROVE i = j
    <3>1. n + 1 - i = n + 1 - j
      BY <1>5, <1>6, <2>2
    <3> QED BY <1>1, <3>1
  <2>3. ASSUME NEW u \in 1 .. n PROVE \E i \in 1 .. n : q[i] = u
    <3>1. PICK i \in 1 .. n : d[i] = u
      BY <1>5
    <3>2. n + 1 - i \in 1 .. n /\ q[n + 1 - i] = u
      BY <1>6, <3>1
    <3> QED BY <3>2
  <2> HIDE DEF q
  <2> QED BY <2>1, <2>2, <2>3 DEF Bijection, Injection, Surjection, IsInjective
<1>8. up(q)
  <2> SUFFICES ASSUME NEW i \in 1 .. n, NEW j \in 1 .. n, i < j PROVE s[q[i]].key <= s[q[j]].key
    BY <1>1 DEF n
  <2>1. n + 1 - j < n + 1 - i /\ n + 1 - j \in 1 .. n /\ n + 1 - i \in 1 .. n
    BY <1>1, <1>6
  <2>2. key[d[n + 1 - i]] <= key[d[n + 1 - j]]
    BY <1>4, <2>1
  <2>3. d[n + 1 - i] \in 1 .. n /\ d[n + 1 - j] \in 1 .. n
    BY <1>5, <2>1
  <2> QED BY <2>2, <2>3
<1> DEFINE p == CHOOSE x \in Bijection(DOMAIN s, DOMAIN s) : up(x)
<1>9. p \in Bijection(1 .. n, 1 .. n)
  <2>1. DOMAIN s = 1 .. n
    BY <1>1 DEF n
  <2>2. \E x \in Bijection(DOMAIN s, DOMAIN s) : up(x)
    <3> HIDE DEF q
    <3> QED BY <1>7, <1>8, <2>1
  <2> HIDE DEF up
  <2> QED BY <2>1, <2>2
<1>10. sorted(s) = [i \in 1 .. n |-> s[p[i]]]
  BY <1>1 DEF sorted, n
<1> HIDE DEF p
<1>11. /\ p \in [1 .. n -> 1 .. n] /\ \A i, j \in 1 .. n : p[i] = p[j] => i = j
       /\ \A u \in 1 .. n : \E i \in 1 .. n : p[i] = u
  BY <1>9 DEF Bijection, Injection, Surjection, IsInjective
<1>12. s \in [1 .. n -> Pair] /\ DOMAIN s = 1 .. n /\ n \in Nat
  BY <1>1 DEF n
<1>13. sorted(s) \in [1 .. n -> Pair]
  BY <1>10, <1>11, <1>12
<1>14. sorted(s) \in Seq(Pair)
  BY <1>12, <1>13
<1>15. ASSUME IsInjective(s) PROVE IsInjective(sorted(s))
  BY <1>10, <1>11, <1>12, <1>15 DEF IsInjective
<1>16. Range(sorted(s)) = Range(s)
  <2>1. ASSUME NEW x \in Range(s) PROVE x \in Range(sorted(s))
    <3>1. PICK u \in 1 .. n : s[u] = x
      BY <1>12 DEF Range
    <3>2. PICK i \in 1 .. n : p[i] = u
      BY <1>11
    <3> QED BY <1>10, <3>1, <3>2 DEF Range
  <2>2. ASSUME NEW x \in Range(sorted(s)) PROVE x \in Range(s)
    BY <1>10, <1>11, <1>12 DEF Range
  <2> QED BY <2>1, <2>2
<1> QED BY <1>14, <1>15, <1>16

\* The pairs of a buffer and its file
held(b) == Range(b.file) \cup Range(b.part)

\* No pair is twice in a buffer and its file
Buffer == {b \in [file : Seq(Pair), part : Seq(Pair)] :
             /\ IsInjective(b.file) /\ IsInjective(b.part)
             /\ Range(b.file) \cap Range(b.part) = {}}

\* Nothing is lost or written twice when a batch is written.
LEMMA FlushFacts ==
  ASSUME NEW b \in Buffer
  PROVE  /\ flush(b) \in Buffer /\ held(flush(b)) = held(b)
         /\ flush(b).part = <<>> /\ Range(flush(b).file) = held(b)
<1> DEFINE s == sorted(b.part)
<1>1. /\ b.file \in Seq(Pair) /\ b.part \in Seq(Pair)
      /\ IsInjective(b.file) /\ IsInjective(b.part) /\ Range(b.file) \cap Range(b.part) = {}
  BY DEF Buffer
<1>2. s \in Seq(Pair) /\ Range(s) = Range(b.part) /\ IsInjective(s)
  BY <1>1, SortedFacts
<1>3. /\ b.file \o s \in Seq(Pair) /\ IsInjective(b.file \o s)
      /\ Range(b.file \o s) = Range(b.file) \cup Range(s)
  <2> HIDE DEF s
  <2> QED BY <1>1, <1>2, ConcatFacts
<1>4. flush(b) = [file |-> b.file \o s, part |-> <<>>]
  BY DEF flush
<1>5. <<>> \in Seq(Pair) /\ IsInjective(<<>>) /\ Range(<<>>) = {}
  BY DEF IsInjective, Range
<1> HIDE DEF s
<1> DEFINE file == b.file \o s
<1> HIDE DEF file
<1>6. /\ file \in Seq(Pair) /\ IsInjective(file) /\ Range(file) = Range(b.file) \cup Range(b.part)
      /\ flush(b) = [file |-> file, part |-> <<>>]
  BY <1>2, <1>3, <1>4 DEF file
<1>7. /\ flush(b).file = file /\ flush(b).part = <<>>
      /\ flush(b) \in [file : Seq(Pair), part : Seq(Pair)]
  BY <1>5, <1>6
<1>8. flush(b) \in Buffer
  BY <1>5, <1>6, <1>7 DEF Buffer
<1> QED BY <1>5, <1>6, <1>7, <1>8 DEF held

\* A pair that is added is in the buffer or the file.
LEMMA AddPairFacts ==
  ASSUME NEW b \in Buffer, NEW kv \in Pair, kv \notin held(b)
  PROVE  addPair(b, kv) \in Buffer /\ held(addPair(b, kv)) = held(b) \cup {kv}
<1> DEFINE full == [b EXCEPT !.part = Append(@, kv)]
<1>1. b \in [file : Seq(Pair), part : Seq(Pair)] /\ kv \notin Range(b.part) /\ IsInjective(b.part)
  BY DEF Buffer, held
<1>2. /\ Append(b.part, kv) \in Seq(Pair) /\ IsInjective(Append(b.part, kv))
      /\ Range(Append(b.part, kv)) = Range(b.part) \cup {kv}
  BY <1>1, AppendFacts
<1>3. /\ full.file = b.file /\ full.part = Append(b.part, kv)
      /\ full \in [file : Seq(Pair), part : Seq(Pair)]
  BY <1>1, <1>2
<1>4. full \in Buffer /\ held(full) = held(b) \cup {kv}
  <2> HIDE DEF full
  <2>1. held(full) = held(b) \cup {kv}
    BY <1>2, <1>3 DEF held
  <2>2. kv \notin Range(b.file) /\ Range(b.file) \cap Range(b.part) = {} /\ IsInjective(b.file)
    BY DEF Buffer, held
  <2> QED BY <1>2, <1>3, <2>1, <2>2 DEF Buffer
<1>5. addPair(b, kv) = flush(full) \/ addPair(b, kv) = full
  BY DEF addPair
<1> HIDE DEF full
<1> QED BY <1>4, <1>5, FlushFacts

\* The pair of word i of input file m
pair(in, m, i) == [key |-> in[m][i], value |-> <<m, i>>]

\* Each pair of the partition is once in the file that the map task leaves for it
\* (worker.go:131-157).
LEMMA DoMapFacts ==
  ASSUME NEW in \in [Map -> Seq(Nat)], NEW m \in Map, NEW r \in Reduce
  PROVE  /\ doMap(in, m, r) \in Seq(Pair) /\ IsInjective(doMap(in, m, r))
         /\ Range(doMap(in, m, r)) =
              {pair(in, m, i) : i \in {i \in DOMAIN in[m] : ihash(in[m][i]) = r}}
<1> DEFINE n == Len(in[m])
           empty == [file |-> <<>>, part |-> <<>>]
           add(b, i) == IF ihash(in[m][i]) = r THEN addPair(b, kva(in, m)[i]) ELSE b
           body(f, k) == [i \in 0 .. k |-> IF i = 0 THEN empty ELSE add(f[i - 1], i)]
           upTo(k) == {pair(in, m, i) : i \in {i \in 1 .. k : ihash(in[m][i]) = r}}
<1>1. n \in Nat /\ DOMAIN in[m] = 1 .. n /\ in[m] \in [1 .. n -> Nat]
  BY LenProperties
<1>2. \A i \in 1 .. n : kva(in, m)[i] = pair(in, m, i) /\ pair(in, m, i) \in Pair
  BY <1>1 DEF kva, pair, Pair
<1>3. \E f : f = body(f, n)
  <2> DEFINE S == {k \in 0 .. n : \E f : f = body(f, k)}
  <2> HIDE DEF add, n, empty
  <2>1. 0 \in S
    <3> DEFINE f == [i \in 0 .. 0 |-> empty]
    <3>1. f = body(f, 0)
      OBVIOUS
    <3> HIDE DEF f, body
    <3> QED BY <1>1, <3>1
  <2>2. ASSUME NEW k \in 0 .. n, k \in S, k < n PROVE k + 1 \in S
    <3> PICK f : f = body(f, k)
      BY <2>2
    <3> DEFINE g == [i \in 0 .. k + 1 |-> IF i <= k THEN f[i] ELSE add(f[k], i)]
    <3>1. ASSUME NEW i \in 0 .. k + 1 PROVE g[i] = IF i = 0 THEN empty ELSE add(g[i - 1], i)
      <4>1. CASE i <= k
        <5>1. g[i] = f[i] /\ (i # 0 => g[i - 1] = f[i - 1])
          BY <4>1
        <5> QED BY <4>1, <5>1
      <4>2. CASE i = k + 1
        BY <4>2
      <4> QED BY <4>1, <4>2
    <3>2. g = body(g, k + 1)
      BY <3>1
    <3> HIDE DEF g, body
    <3> QED BY <1>1, <2>2, <3>2
  <2>3. \A k \in 0 .. n : k \in S
    <3> HIDE DEF S
    <3> QED BY <1>1, <2>1, <2>2, Induct
  <2> HIDE DEF body
  <2> QED BY <1>1, <2>3
<1> DEFINE b == CHOOSE f : f = body(f, n)
<1>4. b = body(b, n)
  BY <1>3
<1>5. doMap(in, m, r) = flush(b[n]).file
  BY DEF doMap
<1> DEFINE T == {k \in 0 .. n : b[k] \in Buffer /\ held(b[k]) = upTo(k)}
<1> HIDE DEF b, n
<1>6. 0 \in T
  <2>1. b[0] = empty
    BY <1>1, <1>4
  <2>2. <<>> \in Seq(Pair) /\ IsInjective(<<>>) /\ Range(<<>>) = {}
    BY DEF IsInjective, Range
  <2>3. empty \in Buffer /\ held(empty) = {} /\ upTo(0) = {}
    BY <2>2 DEF Buffer, held
  <2> QED BY <1>1, <2>1, <2>3
<1>7. ASSUME NEW k \in 0 .. n, k \in T, k < n PROVE k + 1 \in T
  <2>1. b[k + 1] = add(b[k], k + 1) /\ k + 1 \in 1 .. n
    BY <1>1, <1>4, <1>7
  <2>2. b[k] \in Buffer /\ held(b[k]) = upTo(k)
    BY <1>7
  <2>3. 1 .. k + 1 = 1 .. k \cup {k + 1}
    BY <1>7
  <2>4. CASE ihash(in[m][k + 1]) = r
    <3>1. pair(in, m, k + 1) \notin upTo(k) /\ upTo(k + 1) = upTo(k) \cup {pair(in, m, k + 1)}
      <4>1. \A i \in 1 .. k : pair(in, m, i) # pair(in, m, k + 1)
        BY <1>7 DEF pair
      <4>2. {i \in 1 .. k + 1 : ihash(in[m][i]) = r} = {i \in 1 .. k : ihash(in[m][i]) = r} \cup {k + 1}
        BY <2>3, <2>4
      <4> QED BY <4>1, <4>2
    <3> HIDE DEF upTo
    <3>2. add(b[k], k + 1) = addPair(b[k], pair(in, m, k + 1))
      BY <1>2, <2>1, <2>4
    <3> DEFINE kv == pair(in, m, k + 1)
    <3> HIDE DEF kv
    <3>3. kv \in Pair /\ kv \notin held(b[k])
      BY <1>2, <2>1, <2>2, <3>1 DEF kv
    <3>4. addPair(b[k], kv) \in Buffer /\ held(addPair(b[k], kv)) = held(b[k]) \cup {kv}
      BY <2>2, <3>3, AddPairFacts
    <3>5. b[k + 1] = addPair(b[k], kv)
      BY <2>1, <3>2 DEF kv
    <3>6. held(b[k + 1]) = upTo(k + 1)
      BY <2>2, <3>1, <3>4, <3>5 DEF kv
    <3> QED BY <1>1, <2>1, <3>4, <3>5, <3>6
  <2>5. CASE ihash(in[m][k + 1]) # r
    <3>1. upTo(k + 1) = upTo(k)
      BY <2>3, <2>5
    <3> HIDE DEF upTo
    <3> QED BY <2>1, <2>2, <2>5, <3>1
  <2> QED BY <2>4, <2>5
<1>8. n \in T
  <2> HIDE DEF T
  <2>1. \A k \in 0 .. n : k \in T
    BY <1>1, <1>6, <1>7, Induct
  <2> QED BY <1>1, <2>1
<1>9. flush(b[n]) \in Buffer /\ Range(flush(b[n]).file) = upTo(n)
  BY <1>8, FlushFacts
<1>10. upTo(n) = {pair(in, m, i) : i \in {i \in DOMAIN in[m] : ihash(in[m][i]) = r}}
  BY <1>1 DEF n
<1> QED BY <1>5, <1>9, <1>10 DEF Buffer

-----------------------------------------------------------------------------
\* The segments

\* The last line of the segment of f that starts at line i
lastOf(f, i) == Min({j - 1 : j \in {j \in cuts(f) : j > i}} \cup {Len(f)})

\* A segment ends before the next one starts, or with the file.
LEMMA LastOf ==
  ASSUME NEW f \in Seq(Pair), NEW i \in cuts(f)
  PROVE  /\ lastOf(f, i) \in i .. Len(f)
         /\ \A j \in cuts(f) : j > i => lastOf(f, i) < j
         /\ lastOf(f, i) = Len(f) \/ \E j \in cuts(f) : j > i /\ lastOf(f, i) = j - 1
<1> DEFINE S == {j - 1 : j \in {j \in cuts(f) : j > i}} \cup {Len(f)}
<1>1. Len(f) \in Nat /\ cuts(f) \in SUBSET (1 .. Len(f))
  BY LenProperties DEF cuts
<1>2. S \in SUBSET Nat /\ S # {}
  BY <1>1
<1>3. \A x \in S : x = Len(f) \/ \E j \in cuts(f) : j > i /\ x = j - 1
  OBVIOUS
<1>4. Len(f) \in S /\ \A j \in cuts(f) : j > i => j - 1 \in S
  OBVIOUS
<1> DEFINE x == Min(S)
<1>5. x \in S /\ \A y \in S : x <= y
  <2> HIDE DEF S
  <2>1. \E z \in S : \A y \in S : z <= y
    BY <1>2, Least
  <2> QED BY <2>1 DEF Min
<1>6. lastOf(f, i) = x
  BY DEF lastOf
<1> HIDE DEF x, S
<1>7. x = Len(f) \/ \E j \in cuts(f) : j > i /\ x = j - 1
  BY <1>3, <1>5
<1>8. ASSUME NEW j \in cuts(f), j > i PROVE x < j
  <2>1. x <= j - 1 /\ x \in Nat /\ j \in Nat
    BY <1>1, <1>2, <1>4, <1>5, <1>8
  <2> QED BY <2>1
<1>9. x \in i .. Len(f)
  <2>1. x <= Len(f) /\ x \in Nat /\ i \in 1 .. Len(f)
    BY <1>1, <1>2, <1>4, <1>5
  <2> QED BY <1>1, <1>7, <2>1
<1> QED BY <1>6, <1>7, <1>8, <1>9

\* Keys that do not go down from one line to the next ascend.
LEMMA Ascending ==
  ASSUME NEW f \in Seq(Pair), NEW a \in 1 .. Len(f), NEW z \in a .. Len(f),
         \A k \in a + 1 .. z : f[k].key >= f[k - 1].key
  PROVE  \A i, j \in a .. z : i <= j => f[i].key <= f[j].key
<1> SUFFICES ASSUME NEW i \in a .. z, NEW j \in a .. z, i <= j PROVE f[i].key <= f[j].key
  OBVIOUS
<1>1. Len(f) \in Nat /\ \A k \in a .. z : f[k].key \in Nat
  <2>1. Len(f) \in Nat /\ f \in [1 .. Len(f) -> Pair]
    BY LenProperties
  <2>2. \A k \in a .. z : k \in 1 .. Len(f)
    BY <2>1
  <2> QED BY <2>1, <2>2 DEF Pair
<1> DEFINE n == j - i
           S == {k \in 0 .. n : f[i].key <= f[i + k].key}
<1>2. n \in Nat /\ i \in Nat
  BY <1>1
<1>3. 0 \in S
  BY <1>1, <1>2
<1>4. ASSUME NEW k \in 0 .. n, k \in S, k < n PROVE k + 1 \in S
  <2>1. i + (k + 1) \in a + 1 .. z /\ i + k \in a .. z /\ i + (k + 1) - 1 = i + k
    BY <1>1, <1>2, <1>4
  <2>2. f[i + (k + 1)].key >= f[i + k].key
    BY <2>1
  <2>3. i + (k + 1) \in a .. z
    BY <2>1
  <2> QED BY <1>1, <1>2, <1>4, <2>1, <2>2, <2>3
<1>5. n \in S
  <2> HIDE DEF S
  <2>1. \A k \in 0 .. n : k \in S
    BY <1>2, <1>3, <1>4, Induct
  <2> QED BY <1>2, <2>1
<1>6. i + n = j
  BY <1>1, <1>2
<1> QED BY <1>5, <1>6

\* The files of a reduce
Files == [Map -> Seq(Pair)]

\* Segments of the files in which the keys ascend, none of which overlap
Segments(files) ==
  {segs \in SUBSET [file : Map, at : Nat, end : Nat] :
     /\ \A s \in segs : /\ 1 <= s.at /\ s.at <= s.end /\ s.end <= Len(files[s.file])
                        /\ \A i, j \in s.at .. s.end :
                             i <= j => files[s.file][i].key <= files[s.file][j].key
     /\ \A s, t \in segs : s # t /\ s.file = t.file => s.end < t.at \/ t.end < s.at}

\* The places of the lines of the files
Places(files) == UNION {{f} \X DOMAIN files[f] : f \in DOMAIN files}

\* The line at a place
lineAt(files, p) == files[p[1]][p[2]]

\* The places that are still in the segments
left(segs) == UNION {{s.file} \X (s.at .. s.end) : s \in segs}

\* Cutting where a key is less than the one before gives segments that ascend, and every
\* line is in one (worker.go:196-217).
LEMMA SegmentsFacts ==
  ASSUME NEW files \in Files
  PROVE  segments(files) \in Segments(files) /\ left(segments(files)) = Places(files)
<1> DEFINE seg(f, i) == [file |-> f, at |-> i, end |-> lastOf(files[f], i)]
           segs == UNION {{seg(f, i) : i \in cuts(files[f])} : f \in Map}
<1>0. \A f \in Map : /\ files[f] \in Seq(Pair) /\ Len(files[f]) \in Nat
                     /\ DOMAIN files[f] = 1 .. Len(files[f])
                     /\ files[f] \in [1 .. Len(files[f]) -> Pair]
  BY LenProperties DEF Files
<1>1. segments(files) = segs
  BY DEF segments, lastOf, Files
<1>2. ASSUME NEW f \in Map, NEW i \in cuts(files[f])
      PROVE  /\ i \in 1 .. Len(files[f]) /\ lastOf(files[f], i) \in i .. Len(files[f])
             /\ \A j \in cuts(files[f]) : j > i => lastOf(files[f], i) < j
  BY <1>0, LastOf DEF cuts
<1>3. \A s \in segs : \E f \in Map : \E i \in cuts(files[f]) : s = seg(f, i)
  OBVIOUS
<1>4. \A f \in Map : \A i \in cuts(files[f]) : seg(f, i) \in segs
  OBVIOUS
<1> HIDE DEF segs
<1>5. segs \in SUBSET [file : Map, at : Nat, end : Nat]
  <2> SUFFICES ASSUME NEW s \in segs PROVE s \in [file : Map, at : Nat, end : Nat]
    OBVIOUS
  <2> PICK f \in Map : \E i \in cuts(files[f]) : s = seg(f, i)
    BY <1>3
  <2> PICK i \in cuts(files[f]) : s = seg(f, i)
    OBVIOUS
  <2>1. i \in Nat /\ lastOf(files[f], i) \in Nat
    BY <1>0, <1>2
  <2> QED BY <2>1
<1>6. ASSUME NEW s \in segs
      PROVE  /\ 1 <= s.at /\ s.at <= s.end /\ s.end <= Len(files[s.file])
             /\ \A i, j \in s.at .. s.end : i <= j => files[s.file][i].key <= files[s.file][j].key
  <2> PICK f \in Map : \E a \in cuts(files[f]) : s = seg(f, a)
    BY <1>3
  <2> PICK a \in cuts(files[f]) : s = seg(f, a)
    OBVIOUS
  <2> DEFINE lines == files[f]
             z == lastOf(lines, a)
  <2>1. s.file = f /\ s.at = a /\ s.end = z
    OBVIOUS
  <2>2. lines \in Seq(Pair) /\ Len(lines) \in Nat /\ a \in 1 .. Len(lines) /\ z \in a .. Len(lines)
    BY <1>0, <1>2
  <2>3. ASSUME NEW k \in a + 1 .. z PROVE lines[k].key >= lines[k - 1].key
    <3>1. k \notin cuts(lines)
      <4>1. ASSUME k \in cuts(lines) PROVE FALSE
        <5>1. z < k
          BY <1>2, <2>2, <4>1
        <5> QED BY <2>2, <5>1
      <4> QED BY <4>1
    <3>2. k \in 1 .. Len(lines) /\ k # 1 /\ k - 1 \in 1 .. Len(lines)
      BY <2>2
    <3>3. lines[k].key \in Nat /\ lines[k - 1].key \in Nat
      BY <1>0, <3>2 DEF Pair
    <3>4. ~ (lines[k].key < lines[k - 1].key)
      BY <1>0, <3>1, <3>2 DEF cuts
    <3> QED BY <3>3, <3>4
  <2> HIDE DEF lines, z
  <2>4. \A i, j \in a .. z : i <= j => lines[i].key <= lines[j].key
    BY <2>2, <2>3, Ascending
  <2>5. 1 <= a /\ a <= z /\ z <= Len(lines)
    BY <2>2
  <2> QED BY <2>1, <2>4, <2>5 DEF lines
<1>7. ASSUME NEW s \in segs, NEW t \in segs, s # t, s.file = t.file
      PROVE  s.end < t.at \/ t.end < s.at
  <2> PICK f \in Map : \E i \in cuts(files[f]) : s = seg(f, i)
    BY <1>3
  <2> PICK i \in cuts(files[f]) : s = seg(f, i)
    OBVIOUS
  <2> PICK g \in Map : \E j \in cuts(files[g]) : t = seg(g, j)
    BY <1>3
  <2> PICK j \in cuts(files[g]) : t = seg(g, j)
    OBVIOUS
  <2>1. f = g /\ i # j
    BY <1>7
  <2>2. i \in Nat /\ j \in Nat
    <3>1. i \in 1 .. Len(files[f]) /\ j \in 1 .. Len(files[g])
      BY <1>2
    <3> QED BY <3>1
  <2>3. CASE j > i
    BY <1>2, <2>1, <2>3
  <2>4. CASE i > j
    BY <1>2, <2>1, <2>4
  <2> QED BY <2>1, <2>2, <2>3, <2>4
<1>8. ASSUME NEW f \in Map, NEW i \in 1 .. Len(files[f])
      PROVE  \E s \in segs : s.file = f /\ i \in s.at .. s.end
  <2> DEFINE C == {i - j : j \in {j \in cuts(files[f]) : j <= i}}
  <2>1. Len(files[f]) \in Nat /\ cuts(files[f]) \in SUBSET (1 .. Len(files[f]))
    BY <1>0 DEF cuts
  <2>2. 1 \in cuts(files[f])
    BY <1>0, <2>1 DEF cuts
  <2>3. C \in SUBSET Nat /\ C # {}
    BY <2>1, <2>2
  <2>4. PICK x \in C : \A y \in C : x <= y
    <3> HIDE DEF C
    <3> QED BY <2>3, Least
  <2>5. PICK c \in cuts(files[f]) : c <= i /\ \A j \in cuts(files[f]) : j <= i => i - c <= i - j
    BY <2>4
  <2>6. \A j \in cuts(files[f]) : j <= i => j <= c
    BY <2>1, <2>5
  <2>7. i <= lastOf(files[f], c)
    <3>1. \/ lastOf(files[f], c) = Len(files[f])
          \/ \E j \in cuts(files[f]) : j > c /\ lastOf(files[f], c) = j - 1
      BY <1>0, LastOf
    <3>2. ASSUME NEW j \in cuts(files[f]), j > c, lastOf(files[f], c) = j - 1
          PROVE  i <= lastOf(files[f], c)
      BY <2>1, <2>6, <3>2
    <3> QED BY <2>1, <3>1, <3>2
  <2>8. i \in c .. lastOf(files[f], c)
    BY <1>2, <2>1, <2>5, <2>7
  <2> QED BY <1>4, <2>8
<1>9. segs \in Segments(files)
  BY <1>5, <1>6, <1>7 DEF Segments
<1>10. left(segs) = Places(files)
  <2>1. ASSUME NEW p \in left(segs) PROVE p \in Places(files)
    <3>1. PICK s \in segs : p \in {s.file} \X (s.at .. s.end)
      BY DEF left
    <3>2. s.file \in Map /\ s.at \in Nat /\ s.end \in Nat
      BY <1>5
    <3>3. s.at .. s.end \subseteq 1 .. Len(files[s.file])
      BY <1>0, <1>6, <3>2
    <3>4. p \in {s.file} \X DOMAIN files[s.file]
      BY <1>0, <3>1, <3>2, <3>3
    <3> QED BY <3>2, <3>4 DEF Places, Files
  <2>2. ASSUME NEW p \in Places(files) PROVE p \in left(segs)
    <3>1. PICK f \in Map : p \in {f} \X DOMAIN files[f]
      BY DEF Places, Files
    <3>2. PICK i \in 1 .. Len(files[f]) : p = <<f, i>>
      BY <1>0, <3>1
    <3>3. PICK s \in segs : s.file = f /\ i \in s.at .. s.end
      BY <1>8
    <3> QED BY <3>2, <3>3 DEF left
  <2> QED BY <2>1, <2>2
<1> QED BY <1>1, <1>9, <1>10

-----------------------------------------------------------------------------
\* The merge

\* What the output lines consist of
OutLine == [key : Nat, values : Seq(Map \X Nat)]

\* The pairs that have gone into the output
collected(lines) ==
  UNION {{[key |-> lines[l].key, value |-> v] : v \in Range(lines[l].values)} : l \in DOMAIN lines}

\* Lines in ascending order, no value twice in one
Ordered ==
  {lines \in Seq(OutLine) :
     /\ \A i, j \in DOMAIN lines : i < j => lines[i].key < lines[j].key
     /\ \A i \in DOMAIN lines : IsInjective(lines[i].values)}

\* A segment at the top of the heap has the least next key, which is the least key that is
\* left (worker.go:226-229).
LEMMA TopFacts ==
  ASSUME NEW files \in Files, NEW segs \in Segments(files), segs # {}
  PROVE  /\ top(files, segs) \in segs
         /\ \A p \in left(segs) : next(files, top(files, segs)).key <= lineAt(files, p).key
<1> DEFINE keys == {next(files, s).key : s \in segs}
<1>1. ASSUME NEW s \in segs, NEW i \in s.at .. s.end
      PROVE  /\ s.file \in Map /\ s.at \in s.at .. s.end /\ i \in 1 .. Len(files[s.file])
             /\ files[s.file][i].key \in Nat
             /\ files[s.file][s.at].key <= files[s.file][i].key
  <2>1. s.file \in Map /\ s.at \in Nat /\ s.end \in Nat
    BY DEF Segments
  <2>2. /\ 1 <= s.at /\ s.at <= s.end /\ s.end <= Len(files[s.file])
        /\ \A x, y \in s.at .. s.end : x <= y => files[s.file][x].key <= files[s.file][y].key
    BY DEF Segments
  <2>3. s.at \in s.at .. s.end /\ s.at <= i
    BY <2>1, <2>2
  <2>4. Len(files[s.file]) \in Nat /\ files[s.file] \in [1 .. Len(files[s.file]) -> Pair]
    BY <2>1, LenProperties DEF Files
  <2>5. i \in 1 .. Len(files[s.file])
    BY <2>1, <2>2, <2>4
  <2>6. files[s.file][i] \in Pair
    BY <2>4, <2>5
  <2> QED BY <2>1, <2>2, <2>3, <2>5, <2>6 DEF Pair
<1>2. \A s \in segs : s.at \in s.at .. s.end
  BY DEF Segments
<1>3. keys \in SUBSET Nat /\ keys # {}
  BY <1>1, <1>2 DEF next
<1>4. PICK x \in keys : \A y \in keys : x <= y
  <2> HIDE DEF keys
  <2> QED BY <1>3, Least
<1>5. \E s \in segs : \A t \in segs : next(files, s).key <= next(files, t).key
  BY <1>4
<1> DEFINE s == top(files, segs)
<1>6. s \in segs /\ \A t \in segs : next(files, s).key <= next(files, t).key
  BY <1>5 DEF top
<1> HIDE DEF s
<1>7. ASSUME NEW p \in left(segs) PROVE next(files, s).key <= lineAt(files, p).key
  <2>1. PICK t \in segs : p \in {t.file} \X (t.at .. t.end)
    BY DEF left
  <2>2. p[1] = t.file /\ p[2] \in t.at .. t.end
    BY <2>1
  <2>3. next(files, s).key <= next(files, t).key
    BY <1>6
  <2>4. next(files, s).key \in Nat /\ next(files, t).key \in Nat
    BY <1>1, <1>2, <1>6 DEF next
  <2>5. lineAt(files, p).key \in Nat /\ next(files, t).key <= lineAt(files, p).key
    BY <1>1, <2>2 DEF lineAt, next
  <2> QED BY <2>3, <2>4, <2>5
<1> QED BY <1>6, <1>7 DEF s

\* What is left of a segment after its next line
restOf(s) == IF s.at < s.end THEN {[s EXCEPT !.at = @ + 1]} ELSE {}

\* Taking a line from the top segment takes its place from what is left.
LEMMA TakeFacts ==
  ASSUME NEW files \in Files, NEW segs \in Segments(files), NEW s \in segs
  PROVE  /\ (segs \ {s}) \cup restOf(s) \in Segments(files)
         /\ left((segs \ {s}) \cup restOf(s)) = left(segs) \ {<<s.file, s.at>>}
         /\ <<s.file, s.at>> \in left(segs)
<1> DEFINE new == [s EXCEPT !.at = @ + 1]
           after == (segs \ {s}) \cup restOf(s)
<1>1. segs \in SUBSET [file : Map, at : Nat, end : Nat]
  BY DEF Segments
<1>2. \A t \in segs : /\ t.file \in Map /\ t.at \in Nat /\ t.end \in Nat
                      /\ 1 <= t.at /\ t.at <= t.end /\ t.end <= Len(files[t.file])
                      /\ \A i, j \in t.at .. t.end :
                           i <= j => files[t.file][i].key <= files[t.file][j].key
  BY DEF Segments
<1>3. \A t, u \in segs : t # u /\ t.file = u.file => t.end < u.at \/ u.end < t.at
  BY DEF Segments
<1>4. /\ new \in [file : Map, at : Nat, end : Nat]
      /\ new.file = s.file /\ new.at = s.at + 1 /\ new.end = s.end
  BY <1>1
<1> HIDE DEF new
<1>5. \A t \in after : (t \in segs /\ t # s) \/ (t = new /\ s.at < s.end)
  BY DEF new, restOf
<1> HIDE DEF after
<1>6. after \in SUBSET [file : Map, at : Nat, end : Nat]
  BY <1>1, <1>4, <1>5
<1>7. ASSUME NEW t \in after
      PROVE  /\ 1 <= t.at /\ t.at <= t.end /\ t.end <= Len(files[t.file])
             /\ \A i, j \in t.at .. t.end : i <= j => files[t.file][i].key <= files[t.file][j].key
  <2>1. CASE t \in segs
    BY <1>2, <2>1
  <2>2. CASE t = new /\ s.at < s.end
    <3>1. \A i \in t.at .. t.end : i \in s.at .. s.end
      BY <1>2, <1>4, <2>2
    <3>2. 1 <= t.at /\ t.at <= t.end /\ t.end <= Len(files[t.file])
      BY <1>2, <1>4, <2>2
    <3>3. t.file = s.file
      BY <1>4, <2>2
    <3> QED BY <1>2, <3>1, <3>2, <3>3
  <2> QED BY <1>5, <2>1, <2>2
<1>8. ASSUME NEW t \in after, NEW u \in after, t # u, t.file = u.file
      PROVE  t.end < u.at \/ u.end < t.at
  <2>1. CASE t \in segs /\ u \in segs
    BY <1>3, <1>8, <2>1
  <2>2. CASE t = new /\ u \in segs /\ u # s
    <3>1. s.end < u.at \/ u.end < s.at
      BY <1>3, <1>4, <1>8, <2>2
    <3> QED BY <1>2, <1>4, <2>2, <3>1
  <2>3. CASE u = new /\ t \in segs /\ t # s
    <3>1. s.end < t.at \/ t.end < s.at
      BY <1>3, <1>4, <1>8, <2>3
    <3> QED BY <1>2, <1>4, <2>3, <3>1
  <2> QED BY <1>5, <1>8, <2>1, <2>2, <2>3
<1>9. after \in Segments(files)
  BY <1>6, <1>7, <1>8 DEF Segments
<1>10. \A p, t : p \in {t.file} \X (t.at .. t.end) <=> \E i \in t.at .. t.end : p = <<t.file, i>>
  OBVIOUS
<1>11. \A p : p \in left(segs) <=> \E t \in segs : \E i \in t.at .. t.end : p = <<t.file, i>>
  BY <1>10 DEF left
<1>12. \A p : p \in left(after) <=> \E t \in after : \E i \in t.at .. t.end : p = <<t.file, i>>
  BY <1>10 DEF left
<1>13. <<s.file, s.at>> \in left(segs)
  <2>1. s.at \in s.at .. s.end
    BY <1>2
  <2> QED BY <1>11, <2>1
<1>14. ASSUME NEW p \in left(after) PROVE p \in left(segs) /\ p # <<s.file, s.at>>
  <2>1. PICK t \in after : \E i \in t.at .. t.end : p = <<t.file, i>>
    BY <1>12
  <2>2. PICK i \in t.at .. t.end : p = <<t.file, i>>
    BY <2>1
  <2>3. CASE t \in segs /\ t # s
    <3>1. t.file = s.file => t.end < s.at \/ s.end < t.at
      BY <1>3, <2>3
    <3>2. t.file = s.file => i # s.at
      BY <1>2, <2>3, <3>1
    <3> QED BY <1>11, <2>2, <2>3, <3>2
  <2>4. CASE t = new
    <3>1. i \in s.at .. s.end /\ i # s.at /\ p = <<s.file, i>>
      BY <1>2, <1>4, <2>2, <2>4
    <3> QED BY <1>11, <3>1
  <2> QED BY <1>5, <2>3, <2>4
<1>15. ASSUME NEW p \in left(segs), p # <<s.file, s.at>> PROVE p \in left(after)
  <2>1. PICK t \in segs : \E i \in t.at .. t.end : p = <<t.file, i>>
    BY <1>11
  <2>2. PICK i \in t.at .. t.end : p = <<t.file, i>>
    BY <2>1
  <2>3. CASE t # s
    <3>1. t \in after
      BY <2>3 DEF after
    <3> QED BY <1>12, <2>2, <3>1
  <2>4. CASE t = s
    <3>1. i # s.at
      BY <1>15, <2>2, <2>4
    <3>2. s.at < s.end /\ i \in s.at + 1 .. s.end
      BY <1>2, <2>2, <2>4, <3>1
    <3>3. new \in after
      BY <3>2 DEF after, new, restOf
    <3> QED BY <1>4, <1>12, <2>2, <2>4, <3>2, <3>3
  <2> QED BY <2>3, <2>4
<1> QED BY <1>9, <1>13, <1>14, <1>15 DEF after

\* A pair whose key is not below the last key goes into the output, which stays in order
\* (worker.go:247-257).
LEMMA EmitFacts ==
  ASSUME NEW lines \in Ordered, NEW kv \in Pair, kv \notin collected(lines),
         lines # <<>> => lines[Len(lines)].key <= kv.key
  PROVE  /\ emit(lines, kv) \in Ordered /\ emit(lines, kv) # <<>>
         /\ emit(lines, kv)[Len(emit(lines, kv))].key = kv.key
         /\ collected(emit(lines, kv)) = collected(lines) \cup {kv}
<1> DEFINE e == emit(lines, kv)
           n == Len(lines)
<1>1. /\ n \in Nat /\ DOMAIN lines = 1 .. n /\ lines \in [1 .. n -> OutLine] /\ lines \in Seq(OutLine)
      /\ \A i, j \in 1 .. n : i < j => lines[i].key < lines[j].key
      /\ \A i \in 1 .. n : IsInjective(lines[i].values)
  BY LenProperties DEF Ordered
<1>2. kv = [key |-> kv.key, value |-> kv.value] /\ kv.key \in Nat /\ kv.value \in Map \X Nat
  BY DEF Pair
<1>3. \A i \in 1 .. n : lines[i].key \in Nat /\ lines[i].values \in Seq(Map \X Nat)
  BY <1>1 DEF OutLine
<1>4. CASE lines # <<>> /\ lines[n].key = kv.key
  <2> DEFINE vs == Append(lines[n].values, kv.value)
  <2>1. n \in 1 .. n
    BY <1>1, <1>4
  <2>2. kv.value \notin Range(lines[n].values)
    <3>1. kv.value \in Range(lines[n].values) => kv \in collected(lines)
      BY <1>1, <1>2, <1>4, <2>1 DEF collected
    <3> QED BY <3>1
  <2>3. vs \in Seq(Map \X Nat) /\ Range(vs) = Range(lines[n].values) \cup {kv.value} /\ IsInjective(vs)
    <3>1. lines[n].values \in Seq(Map \X Nat) /\ IsInjective(lines[n].values)
      BY <1>1, <1>3, <2>1
    <3> QED BY <1>2, <2>2, <3>1, AppendFacts
  <2>4. e = [lines EXCEPT ![n].values = vs]
    BY <1>4 DEF emit, Last
  <2> HIDE DEF vs, e, n
  <2>5. /\ e \in Seq(OutLine) /\ Len(e) = n /\ DOMAIN e = 1 .. n
        /\ \A i \in 1 .. n : i # n => e[i] = lines[i]
        /\ e[n].key = kv.key /\ e[n].values = vs
    <3>1. [lines[n] EXCEPT !.values = vs] = [key |-> lines[n].key, values |-> vs]
      BY <1>1, <2>1 DEF OutLine
    <3>2. e \in [1 .. n -> OutLine]
      BY <1>1, <1>3, <2>1, <2>3, <2>4, <3>1 DEF OutLine
    <3>3. \A i \in 1 .. n : i # n => e[i] = lines[i]
      BY <1>1, <2>4
    <3>4. e[n] = [lines[n] EXCEPT !.values = vs]
      BY <1>1, <2>1, <2>4
    <3>5. e[n].key = kv.key /\ e[n].values = vs
      BY <1>4, <3>1, <3>4
    <3>6. e \in Seq(OutLine) /\ Len(e) = n
      BY <1>1, <3>2, LenProperties
    <3> QED BY <3>2, <3>3, <3>5, <3>6
  <2>6. e \in Ordered
    <3>1. \A i \in 1 .. n : e[i].key = lines[i].key
      BY <1>4, <2>5
    <3>2. \A i \in 1 .. n : IsInjective(e[i].values)
      BY <1>1, <2>3, <2>5
    <3> QED BY <1>1, <2>5, <3>1, <3>2 DEF Ordered
  <2>7. collected(e) = collected(lines) \cup {kv}
    <3> DEFINE of(l, i) == {[key |-> l[i].key, value |-> v] : v \in Range(l[i].values)}
    <3>1. collected(e) = UNION {of(e, i) : i \in 1 .. n}
      BY <2>5 DEF collected
    <3>2. collected(lines) = UNION {of(lines, i) : i \in 1 .. n}
      BY <1>1 DEF collected, n
    <3>3. \A i \in 1 .. n : i # n => of(e, i) = of(lines, i)
      BY <2>5
    <3>4. of(e, n) = of(lines, n) \cup {kv}
      BY <1>2, <1>4, <2>3, <2>5
    <3> HIDE DEF of
    <3> QED BY <2>1, <3>1, <3>2, <3>3, <3>4
  <2>8. e # <<>>
    BY <2>1, <2>5
  <2> QED BY <2>5, <2>6, <2>7, <2>8 DEF e
<1>5. CASE ~ (lines # <<>> /\ lines[n].key = kv.key)
  <2> DEFINE new == [key |-> kv.key, values |-> <<kv.value>>]
  <2>1. <<kv.value>> \in Seq(Map \X Nat) /\ IsInjective(<<kv.value>>) /\ Range(<<kv.value>>) = {kv.value}
    BY <1>2 DEF IsInjective, Range
  <2>2. new \in OutLine
    BY <1>2, <2>1 DEF OutLine
  <2>3. e = Append(lines, new)
    BY <1>5 DEF emit, Last
  <2> HIDE DEF e, n, new
  <2>4. /\ e \in Seq(OutLine) /\ Len(e) = n + 1 /\ DOMAIN e = 1 .. n + 1
        /\ \A i \in 1 .. n : e[i] = lines[i]
        /\ e[n + 1] = new
    BY <1>1, <2>2, <2>3, AppendProperties DEF n
  <2>5. n > 0 => lines[n].key < kv.key
    BY <1>1, <1>2, <1>3, <1>5 DEF n
  <2>6. \A i \in 1 .. n : lines[i].key < kv.key
    <3> SUFFICES ASSUME NEW i \in 1 .. n PROVE lines[i].key < kv.key
      OBVIOUS
    <3>1. i = n \/ lines[i].key < lines[n].key
      BY <1>1
    <3>2. n \in 1 .. n
      BY <1>1
    <3> QED BY <1>1, <1>2, <1>3, <2>5, <3>1, <3>2
  <2>7. new.key = kv.key /\ new.values = <<kv.value>>
    BY DEF new
  <2>8. e \in Ordered
    <3>1. ASSUME NEW i \in 1 .. n + 1, NEW j \in 1 .. n + 1, i < j PROVE e[i].key < e[j].key
      <4>1. i \in 1 .. n
        BY <1>1, <3>1
      <4>2. j \in 1 .. n \/ j = n + 1
        BY <1>1
      <4> QED BY <1>1, <2>4, <2>6, <2>7, <3>1, <4>1, <4>2
    <3>2. ASSUME NEW i \in 1 .. n + 1 PROVE IsInjective(e[i].values)
      <4>1. i \in 1 .. n \/ i = n + 1
        BY <1>1
      <4> QED BY <1>1, <2>1, <2>4, <2>7, <4>1
    <3> QED BY <2>4, <3>1, <3>2 DEF Ordered
  <2>9. collected(e) = collected(lines) \cup {kv}
    <3> DEFINE of(l, i) == {[key |-> l[i].key, value |-> v] : v \in Range(l[i].values)}
    <3>1. collected(e) = UNION {of(e, i) : i \in 1 .. n + 1}
      BY <2>4 DEF collected
    <3>2. collected(lines) = UNION {of(lines, i) : i \in 1 .. n}
      BY <1>1 DEF collected, n
    <3>3. \A i \in 1 .. n : of(e, i) = of(lines, i)
      BY <2>4
    <3>4. of(e, n + 1) = {kv}
      BY <1>2, <2>1, <2>4, <2>7
    <3>5. 1 .. n + 1 = 1 .. n \cup {n + 1}
      BY <1>1
    <3> HIDE DEF of
    <3> QED BY <3>1, <3>2, <3>3, <3>4, <3>5
  <2>10. e # <<>> /\ e[Len(e)].key = kv.key
    BY <1>1, <2>4, <2>7
  <2> QED BY <2>8, <2>9, <2>10 DEF e
<1> QED BY <1>4, <1>5

\* The segments and the output so far hold the lines of the files between them; what is
\* left comes after what has been taken
MergeInv(files, h) ==
  /\ h.segs \in Segments(files) /\ left(h.segs) \subseteq Places(files)
  /\ h.lines \in Ordered
  /\ h.lines # <<>> =>
       \A p \in left(h.segs) : h.lines[Len(h.lines)].key <= lineAt(files, p).key
  /\ collected(h.lines) = {lineAt(files, p) : p \in Places(files) \ left(h.segs)}

\* No line is twice in the files
Distinct(files) ==
  \A p, q \in Places(files) : lineAt(files, p) = lineAt(files, q) => p = q

\* A turn moves one line from the segments to the output.
LEMMA TurnFacts ==
  ASSUME NEW files \in Files, Distinct(files), NEW h, MergeInv(files, h), left(h.segs) # {}
  PROVE  /\ MergeInv(files, mergeOne(files, h))
         /\ \E p \in left(h.segs) : left(mergeOne(files, h).segs) = left(h.segs) \ {p}
<1> DEFINE s == top(files, h.segs)
           kv == next(files, s)
           p == <<s.file, s.at>>
           segs == (h.segs \ {s}) \cup restOf(s)
           lines == emit(h.lines, kv)
<1>1. h.segs \in Segments(files) /\ h.segs # {}
  BY DEF MergeInv, left
<1>2. s \in h.segs /\ \A q \in left(h.segs) : kv.key <= lineAt(files, q).key
  BY <1>1, TopFacts
<1>3. mergeOne(files, h) = [segs |-> segs, lines |-> lines]
  BY DEF mergeOne, restOf
<1>4. kv = lineAt(files, p)
  BY DEF next, lineAt
<1> HIDE DEF s, kv, lines
<1>5. segs \in Segments(files) /\ left(segs) = left(h.segs) \ {p} /\ p \in left(h.segs)
  <2>1. h.segs \in Segments(files) /\ s \in h.segs
    BY <1>1, <1>2
  <2> QED BY <2>1, TakeFacts
<1> HIDE DEF p, segs
<1>6. p \in Places(files) /\ left(segs) \subseteq Places(files)
  BY <1>5 DEF MergeInv
<1>7. kv \in Pair
  <2>1. PICK f \in Map : p \in {f} \X DOMAIN files[f]
    BY <1>6 DEF Places, Files
  <2>2. p[1] = f /\ p[2] \in DOMAIN files[f]
    BY <2>1
  <2>3. files[f] \in Seq(Pair)
    BY DEF Files
  <2>4. files[f] \in [1 .. Len(files[f]) -> Pair] /\ DOMAIN files[f] = 1 .. Len(files[f])
    BY <2>3, LenProperties
  <2> QED BY <1>4, <2>2, <2>4 DEF lineAt
<1>8. kv \notin collected(h.lines)
  BY <1>4, <1>5, <1>6 DEF MergeInv, Distinct
<1>9. h.lines \in Ordered /\ (h.lines # <<>> => h.lines[Len(h.lines)].key <= kv.key)
  BY <1>4, <1>5 DEF MergeInv
<1>10. /\ lines \in Ordered /\ lines # <<>> /\ lines[Len(lines)].key = kv.key
       /\ collected(lines) = collected(h.lines) \cup {kv}
  BY <1>7, <1>8, <1>9, EmitFacts DEF lines
<1>11. \A q \in left(segs) : lines[Len(lines)].key <= lineAt(files, q).key
  BY <1>2, <1>5, <1>10
<1>12. collected(lines) = {lineAt(files, q) : q \in Places(files) \ left(segs)}
  <2>1. Places(files) \ left(segs) = (Places(files) \ left(h.segs)) \cup {p}
    BY <1>5, <1>6
  <2>2. collected(h.lines) = {lineAt(files, q) : q \in Places(files) \ left(h.segs)}
    BY DEF MergeInv
  <2> QED BY <1>4, <1>10, <2>1, <2>2
<1>13. mergeOne(files, h).segs = segs /\ mergeOne(files, h).lines = lines
  BY <1>3
<1>14. MergeInv(files, mergeOne(files, h))
  BY <1>5, <1>6, <1>10, <1>11, <1>12, <1>13 DEF MergeInv
<1> QED BY <1>5, <1>13, <1>14

\* The lines after as many turns as the files have lines
merged(files) ==
  LET turns == Cardinality(UNION {{f} \X DOMAIN files[f] : f \in DOMAIN files})
      h[k \in 0 .. turns] ==
        IF k = 0 THEN [segs |-> segments(files), lines |-> <<>>] ELSE mergeOne(files, h[k - 1])
  IN h[turns].lines

\* There are finitely many lines.
LEMMA PlacesFinite == \A files \in Files : IsFiniteSet(Places(files))
<1> SUFFICES ASSUME NEW files \in Files PROVE IsFiniteSet(Places(files))
  OBVIOUS
<1> DEFINE of(f) == {f} \X DOMAIN files[f]
           A == {of(f) : f \in Map}
<1>1. IsFiniteSet(Map)
  BY MapReduceAssumption, FS_Interval DEF Map
<1>2. ASSUME NEW f \in Map PROVE IsFiniteSet(of(f))
  <2>1. files[f] \in Seq(Pair)
    BY DEF Files
  <2>2. DOMAIN files[f] = 1 .. Len(files[f]) /\ Len(files[f]) \in Nat
    BY <2>1, LenProperties
  <2>3. IsFiniteSet(DOMAIN files[f]) /\ IsFiniteSet({f})
    <3>1. IsFiniteSet(1 .. Len(files[f]))
      BY <2>2, FS_Interval
    <3> QED BY <2>2, <3>1, FS_Singleton
  <2> QED BY <2>3, FS_Product
<1> DEFINE g == [f \in Map |-> of(f)]
<1> HIDE DEF of
<1>3. IsFiniteSet(A)
  <2>1. g \in Surjection(Map, A)
    BY DEF Surjection
  <2> HIDE DEF g, A
  <2> QED BY <1>1, <2>1, FS_Surjection
<1>4. \A a \in A : IsFiniteSet(a)
  BY <1>2
<1>5. Places(files) = UNION A
  BY DEF Places, Files, of
<1> HIDE DEF A
<1> QED BY <1>3, <1>4, <1>5, FS_UNION

\* The merge takes every line of the files to the output (worker.go:247-263).
LEMMA MergedFacts ==
  ASSUME NEW files \in Files, Distinct(files)
  PROVE  /\ merged(files) \in Ordered
         /\ collected(merged(files)) = {lineAt(files, p) : p \in Places(files)}
<1> DEFINE n == Cardinality(Places(files))
           start == [segs |-> segments(files), lines |-> <<>>]
           body(f, k) == [i \in 0 .. k |-> IF i = 0 THEN start ELSE mergeOne(files, f[i - 1])]
<1>1. IsFiniteSet(Places(files)) /\ n \in Nat
  <2>1. IsFiniteSet(Places(files))
    BY PlacesFinite
  <2> QED BY <2>1, FS_CardinalityType
<1>2. \E f : f = body(f, n)
  <2> DEFINE S == {k \in 0 .. n : \E f : f = body(f, k)}
  <2> HIDE DEF n, start
  <2>1. 0 \in S
    <3> DEFINE f == [i \in 0 .. 0 |-> start]
    <3>1. f = body(f, 0)
      OBVIOUS
    <3> HIDE DEF f, body
    <3> QED BY <1>1, <3>1
  <2>2. ASSUME NEW k \in 0 .. n, k \in S, k < n PROVE k + 1 \in S
    <3> PICK f : f = body(f, k)
      BY <2>2
    <3> DEFINE g == [i \in 0 .. k + 1 |-> IF i <= k THEN f[i] ELSE mergeOne(files, f[k])]
    <3>1. ASSUME NEW i \in 0 .. k + 1
          PROVE  g[i] = IF i = 0 THEN start ELSE mergeOne(files, g[i - 1])
      <4>1. CASE i <= k
        <5>1. g[i] = f[i] /\ (i # 0 => g[i - 1] = f[i - 1])
          BY <4>1
        <5> QED BY <4>1, <5>1
      <4>2. CASE i = k + 1
        BY <4>2
      <4> QED BY <4>1, <4>2
    <3>2. g = body(g, k + 1)
      BY <3>1
    <3> HIDE DEF g, body
    <3> QED BY <1>1, <2>2, <3>2
  <2>3. \A k \in 0 .. n : k \in S
    <3> HIDE DEF S
    <3> QED BY <1>1, <2>1, <2>2, Induct
  <2> HIDE DEF body
  <2> QED BY <1>1, <2>3
<1> DEFINE h == CHOOSE f : f = body(f, n)
<1>3. h = body(h, n)
  BY <1>2
<1>4. merged(files) = h[n].lines
  BY DEF merged, Places
<1> HIDE DEF h, n
<1> DEFINE T == {k \in 0 .. n : /\ MergeInv(files, h[k])
                                /\ IsFiniteSet(left(h[k].segs))
                                /\ Cardinality(left(h[k].segs)) = n - k}
<1>5. 0 \in T
  <2>1. h[0] = start
    BY <1>1, <1>3
  <2>2. segments(files) \in Segments(files) /\ left(segments(files)) = Places(files)
    BY SegmentsFacts
  <2>3. <<>> \in Ordered /\ collected(<<>>) = {}
    BY DEF Ordered, collected
  <2>4. MergeInv(files, start)
    BY <2>2, <2>3 DEF MergeInv
  <2>5. Cardinality(left(start.segs)) = n - 0
    BY <1>1, <2>2 DEF n
  <2> QED BY <1>1, <2>1, <2>2, <2>4, <2>5
<1>6. ASSUME NEW k \in 0 .. n, k \in T, k < n PROVE k + 1 \in T
  <2>1. h[k + 1] = mergeOne(files, h[k])
    BY <1>1, <1>3, <1>6
  <2>2. MergeInv(files, h[k]) /\ IsFiniteSet(left(h[k].segs)) /\ Cardinality(left(h[k].segs)) = n - k
    BY <1>6
  <2>3. left(h[k].segs) # {}
    <3>1. n - k # 0
      BY <1>1, <1>6
    <3> QED BY <2>2, <3>1, FS_EmptySet
  <2>4. MergeInv(files, h[k + 1])
        /\ \E p \in left(h[k].segs) : left(h[k + 1].segs) = left(h[k].segs) \ {p}
    BY <2>1, <2>2, <2>3, TurnFacts
  <2>5. PICK p \in left(h[k].segs) : left(h[k + 1].segs) = left(h[k].segs) \ {p}
    BY <2>4
  <2>6. IsFiniteSet(left(h[k + 1].segs)) /\ Cardinality(left(h[k + 1].segs)) = n - k - 1
    BY <2>2, <2>5, FS_RemoveElement
  <2> QED BY <1>1, <1>6, <2>4, <2>6
<1>7. n \in T
  <2> HIDE DEF T
  <2>1. \A k \in 0 .. n : k \in T
    BY <1>1, <1>5, <1>6, Induct
  <2> QED BY <1>1, <2>1
<1>8. left(h[n].segs) = {}
  <2>1. IsFiniteSet(left(h[n].segs)) /\ Cardinality(left(h[n].segs)) = 0
    BY <1>1, <1>7
  <2> QED BY <2>1, FS_EmptySet
<1> QED BY <1>4, <1>7, <1>8 DEF MergeInv

\* An order of the maps has every map.
LEMMA OrderCovers ==
  ASSUME NEW l \in Orders
  PROVE  l \in [Map -> Map] /\ IsInjective(l) /\ \A m \in Map : \E f \in Map : l[f] = m
<1>1. l \in [Map -> Map] /\ IsInjective(l)
  BY DEF Orders, Map
<1>2. IsFiniteSet(Map)
  BY MapReduceAssumption, FS_Interval DEF Map
<1>3. l \in Injection(Map, Map)
  BY <1>1 DEF Injection, IsInjective
<1>4. l \in Surjection(Map, Map)
  BY <1>2, <1>3, FS_Injection
<1> QED BY <1>1, <1>4 DEF Surjection

\* A reduce of any input counts every word of its partition once, in whatever order the
\* maps were reported (worker.go:131-152, 196-257).
LEMMA MergesHolds == input \in [Map -> Seq(Nat)] => Merges
<1> SUFFICES ASSUME input \in [Map -> Seq(Nat)], NEW r \in Reduce, NEW l \in Orders
             PROVE  doReduce(input, l, r) # Nil /\ Counted(input, doReduce(input, l, r), r)
  BY DEF Merges
<1> DEFINE files == [f \in Map |-> doMap(input, l[f], r)]
           words(m) == {i \in DOMAIN input[m] : ihash(input[m][i]) = r}
           lines == doReduce(input, l, r)
<1>1. l \in [Map -> Map] /\ IsInjective(l) /\ \A m \in Map : \E f \in Map : l[f] = m
  BY OrderCovers
<1>2. ASSUME NEW f \in Map
      PROVE  /\ files[f] \in Seq(Pair) /\ IsInjective(files[f])
             /\ Range(files[f]) = {pair(input, l[f], i) : i \in words(l[f])}
  <2> PICK m \in Map : m = l[f]
    BY <1>1
  <2>1. /\ doMap(input, m, r) \in Seq(Pair) /\ IsInjective(doMap(input, m, r))
        /\ Range(doMap(input, m, r)) = {pair(input, m, i) : i \in words(m)}
    BY DoMapFacts
  <2>2. files[f] = doMap(input, m, r)
    OBVIOUS
  <2> HIDE DEF files, words
  <2> QED BY <2>1, <2>2
<1>3. lines = merged(files)
  <2>1. DOMAIN l = Map
    BY <1>1
  <2> QED BY <2>1 DEF doReduce, merged
<1> HIDE DEF lines, words
<1>4. files \in Files
  BY <1>2 DEF Files
<1> HIDE DEF files
<1>5. \A p \in Places(files) : p[1] \in Map /\ p[2] \in DOMAIN files[p[1]] /\ p = <<p[1], p[2]>>
  BY <1>4 DEF Places, Files
<1>6. Distinct(files)
  <2> SUFFICES ASSUME NEW p \in Places(files), NEW q \in Places(files),
                      lineAt(files, p) = lineAt(files, q)
               PROVE  p = q
    BY DEF Distinct
  <2> DEFINE f == p[1]
             g == q[1]
  <2>1. f \in Map /\ g \in Map /\ p[2] \in DOMAIN files[f] /\ q[2] \in DOMAIN files[g]
    BY <1>5
  <2>2. files[f][p[2]] = files[g][q[2]]
    BY DEF lineAt
  <2>3. files[f][p[2]] \in Range(files[f]) /\ files[g][q[2]] \in Range(files[g])
    BY <2>1 DEF Range
  <2>4. PICK i \in words(l[f]) : files[f][p[2]] = pair(input, l[f], i)
    BY <1>2, <2>1, <2>3
  <2>5. PICK j \in words(l[g]) : files[g][q[2]] = pair(input, l[g], j)
    BY <1>2, <2>1, <2>3
  <2>6. l[f] = l[g]
    <3>1. pair(input, l[f], i).value = <<l[f], i>> /\ pair(input, l[g], j).value = <<l[g], j>>
      BY DEF pair
    <3>2. <<l[f], i>> = <<l[g], j>>
      BY <2>2, <2>4, <2>5, <3>1
    <3> QED BY <3>2
  <2>7. f = g
    BY <1>1, <2>1, <2>6 DEF IsInjective
  <2>8. p[2] = q[2]
    BY <1>2, <2>1, <2>2, <2>7 DEF IsInjective
  <2> QED BY <1>5, <2>7, <2>8
<1>7. lines \in Ordered /\ collected(lines) = {lineAt(files, p) : p \in Places(files)}
  BY <1>3, <1>4, <1>6, MergedFacts
<1>8. ASSUME NEW m \in Map, NEW i \in words(m) PROVE pair(input, m, i) \in collected(lines)
  <2>1. PICK f \in Map : l[f] = m
    BY <1>1
  <2>2. pair(input, m, i) \in Range(files[f])
    BY <1>2, <2>1
  <2>3. PICK x \in DOMAIN files[f] : files[f][x] = pair(input, m, i)
    BY <2>2 DEF Range
  <2>4. <<f, x>> \in Places(files) /\ lineAt(files, <<f, x>>) = pair(input, m, i)
    BY <1>4, <2>3 DEF Places, Files, lineAt
  <2> QED BY <1>7, <2>4
<1>9. ASSUME NEW kv \in collected(lines)
      PROVE  \E m \in Map : \E i \in words(m) : kv = pair(input, m, i)
  <2>1. PICK p \in Places(files) : kv = files[p[1]][p[2]]
    BY <1>7 DEF lineAt
  <2>2. p[1] \in Map /\ kv \in Range(files[p[1]])
    BY <1>5, <2>1 DEF Range
  <2>3. PICK i \in words(l[p[1]]) : kv = pair(input, l[p[1]], i)
    BY <1>2, <2>2
  <2> QED BY <1>1, <2>2, <2>3
<1>10. lines # Nil
  BY <1>7, NilAssumption DEF Ordered, OutLine
<1>11. /\ \A i, j \in DOMAIN lines : i < j => lines[i].key < lines[j].key
       /\ \A i \in DOMAIN lines : IsInjective(lines[i].values)
  BY <1>7 DEF Ordered
<1>12. ASSUME NEW m \in Map, NEW i \in DOMAIN input[m], ihash(input[m][i]) = r
       PROVE  \E x \in Range(lines) : x.key = input[m][i] /\ <<m, i>> \in Range(x.values)
  <2>1. pair(input, m, i) \in collected(lines)
    BY <1>8, <1>12 DEF words
  <2>2. PICK y \in DOMAIN lines :
           pair(input, m, i) \in {[key |-> lines[y].key, value |-> v] : v \in Range(lines[y].values)}
    BY <2>1 DEF collected
  <2>3. lines[y].key = input[m][i] /\ <<m, i>> \in Range(lines[y].values)
    BY <2>2 DEF pair
  <2>4. lines[y] \in Range(lines)
    BY DEF Range
  <2> QED BY <2>3, <2>4
<1>13. ASSUME NEW x \in Range(lines), NEW v \in Range(x.values)
       PROVE  ihash(x.key) = r /\ input[v[1]][v[2]] = x.key
  <2>1. PICK y \in DOMAIN lines : lines[y] = x
    BY DEF Range
  <2>2. [key |-> x.key, value |-> v] \in collected(lines)
    <3> DEFINE of(i) == {[key |-> lines[i].key, value |-> u] : u \in Range(lines[i].values)}
    <3>1. [key |-> x.key, value |-> v] \in of(y)
      BY <2>1
    <3> QED BY <2>1, <3>1 DEF collected
  <2>3. PICK m \in Map : \E i \in words(m) : [key |-> x.key, value |-> v] = pair(input, m, i)
    BY <1>9, <2>2
  <2>4. PICK i \in words(m) : [key |-> x.key, value |-> v] = pair(input, m, i)
    BY <2>3
  <2>5. x.key = input[m][i] /\ v = <<m, i>> /\ ihash(input[m][i]) = r
    BY <2>4 DEF pair, words
  <2> QED BY <2>5
<1> QED BY <1>10, <1>11, <1>12, <1>13 DEF Counted, lines

-----------------------------------------------------------------------------
\* The outputs

\* An output that exists is right, the worker that reports it has seen it, and so it is
\* there when its task is done.
OutInv ==
  /\ out = [r \in Reduce |-> out[r]]
  /\ \A r \in Reduce : out[r] # Nil => Counted(input, out[r], r)
  /\ \A w \in Worker : worker[w].pc = "report" => out[worker[w].task] # Nil
  /\ \A r \in Reduce : reducesReady /\ reduceTask[r] = 0 => out[r] # Nil

\* There is no output at first.
LEMMA InitOut == Init => OutInv
BY DEF Init, OutInv, Idle

\* The input files do not change.
LEMMA InputStays == input \in [Map -> Seq(Nat)] /\ [Next]_vars => (input \in [Map -> Seq(Nat)])'
BY DEF Next, vars, rpc, GetTask, ReportMap, ReportReduce, link, crash, checkTimeout

\* A worker has nothing to report, and a task whose node is 0 had none before.
LEMMA OutStays ==
  ASSUME OutInv, CoordInv, UNCHANGED <<input, out>>,
         \A w \in Worker : \/ worker'[w] = worker[w]
                           \/ worker'[w].pc # "report",
         \A r \in Reduce :
           reducesReady' /\ reduceTask'[r] = 0 =>
             \/ reducesReady /\ reduceTask[r] = 0
             \/ out[r] # Nil
  PROVE  OutInv'
<1>1. \A r \in Reduce : out'[r] # Nil => Counted(input', out'[r], r)
  BY DEF OutInv
<1>2. \A w \in Worker : worker'[w].pc = "report" => out'[worker'[w].task] # Nil
  BY DEF OutInv
<1>3. \A r \in Reduce : reducesReady' /\ reduceTask'[r] = 0 => out'[r] # Nil
  BY DEF OutInv
<1>4. out' = [r \in Reduce |-> out'[r]]
  BY DEF OutInv
<1> QED BY <1>1, <1>2, <1>3, <1>4 DEF OutInv

\* Every step keeps the outputs right.
LEMMA NextOut == OutInv /\ CoordInv /\ Merges /\ [Next]_vars => OutInv'
<1> SUFFICES ASSUME OutInv, CoordInv, Merges, [Next]_vars PROVE OutInv'
  OBVIOUS
<1>0. worker = [w \in Worker |-> worker[w]] /\ Idle.pc = "idle"
  BY DEF CoordInv, WorkerInv, Idle
<1>1. ASSUME NEW w \in Worker, GetTask(w) PROVE OutInv'
  <2>1. PICK nd, pe :
           /\ Lists(nd, pe, running, free')
           /\ Tasks(nd, Range(pe) \cup Range(running), mapTask, reduceTask', mapDone)
           /\ Phased
           /\ Answered(w, nd, pe)
    BY <1>1, AfterStart
  <2>2. UNCHANGED <<input, out>>
    BY <1>1 DEF GetTask
  <2>3. \A v \in Worker : worker'[v] = worker[v] \/ worker'[v].pc # "report"
    <3>1. CASE /\ pe # <<>>
               /\ worker' = [worker EXCEPT ![w] = [pc |-> nd[Head(pe)].kind,
                                                   task |-> nd[Head(pe)].id,
                                                   files |-> nd[Head(pe)].files]]
      <4>1. Head(pe) \in Range(pe)
        BY <2>1, <3>1, TailFacts DEF Lists
      <4>2. nd[Head(pe)].kind # "report"
        BY <2>1, <4>1 DEF Tasks
      <4> QED BY <1>0, <3>1, <4>2
    <3>2. CASE worker' = [worker EXCEPT ![w].pc = "exit"]
      <4>1. [worker[w] EXCEPT !.pc = "exit"].pc = "exit"
        BY DEF CoordInv, WorkerInv
      <4> QED BY <1>0, <3>2, <4>1
    <3>3. CASE worker' = worker
      BY <3>3
    <3> QED BY <2>1, <3>1, <3>2, <3>3 DEF Answered
  <2>4. \A r \in Reduce : reducesReady' /\ reduceTask'[r] = 0 => reducesReady /\ reduceTask[r] = 0
    BY <2>1 DEF Phased
  <2> QED BY <2>2, <2>3, <2>4, OutStays
<1>2. ASSUME NEW w \in Worker, ReportMap(w) PROVE OutInv'
  <2>1. /\ UNCHANGED <<input, out, reducesReady, reduceTask>>
        /\ worker' = [worker EXCEPT ![w] = Idle]
    BY <1>2 DEF ReportMap
  <2>2. \A v \in Worker : worker'[v] = worker[v] \/ worker'[v].pc # "report"
    BY <1>0, <2>1
  <2> QED BY <2>1, <2>2, OutStays
<1>3. ASSUME NEW w \in Worker, ReportReduce(w) PROVE OutInv'
  <2>1. /\ UNCHANGED <<input, out, reducesReady>>
        /\ worker' = [worker EXCEPT ![w] = Idle]
        /\ worker[w].pc = "report"
        /\ \/ reduceTask' = reduceTask
           \/ reduceTask' = [reduceTask EXCEPT ![worker[w].task] = 0]
    BY <1>3 DEF ReportReduce
  <2>2. \A v \in Worker : worker'[v] = worker[v] \/ worker'[v].pc # "report"
    BY <1>0, <2>1
  <2>3. out[worker[w].task] # Nil /\ reduceTask \in [Reduce -> Nat]
    BY <2>1 DEF OutInv, CoordInv, Tasks
  <2>4. \A r \in Reduce : reduceTask'[r] = 0 => reduceTask[r] = 0 \/ out[r] # Nil
    BY <2>1, <2>3
  <2> QED BY <2>1, <2>2, <2>4, OutStays
<1>4. ASSUME NEW w \in Worker, link(w) PROVE OutInv'
  <2> DEFINE r == worker[w].task
             lines == doReduce(input, worker[w].files, r)
  <2>1. r \in Reduce /\ worker[w].files \in Orders
    BY <1>4 DEF link, CoordInv, WorkerInv
  <2>2. lines # Nil /\ Counted(input, lines, r)
    BY <2>1 DEF Merges
  <2>3. UNCHANGED <<input, reducesReady, reduceTask>>
    BY <1>4 DEF link, taskVars
  <2>4. CASE /\ out[r] = Nil
             /\ out' = [out EXCEPT ![r] = lines]
             /\ worker' = [worker EXCEPT ![w].pc = "report"]
    <3> HIDE DEF r, lines
    <3>1. out'[r] = lines /\ \A x \in Reduce : x # r => out'[x] = out[x]
      BY <2>1, <2>4 DEF OutInv
    <3>2. out' = [x \in Reduce |-> out'[x]]
      BY <2>4 DEF OutInv
    <3>3. \A x \in Reduce : out'[x] # Nil => Counted(input', out'[x], x)
      BY <2>2, <2>3, <3>1 DEF OutInv
    <3>4. \A v \in Worker : worker'[v].pc = "report" => out'[worker'[v].task] # Nil
      <4> SUFFICES ASSUME NEW v \in Worker, worker'[v].pc = "report"
                   PROVE  out'[worker'[v].task] # Nil
        OBVIOUS
      <4>1. CASE v = w
        <5>1. worker'[v].task = r
          BY <1>0, <2>4, <4>1 DEF r, CoordInv, WorkerInv
        <5> QED BY <2>2, <3>1, <5>1
      <4>2. CASE v # w
        <5>1. worker'[v] = worker[v] /\ worker[v].task \in Reduce
          BY <1>0, <2>4, <4>2 DEF CoordInv, WorkerInv
        <5>2. out[worker[v].task] # Nil
          BY <5>1 DEF OutInv
        <5> QED BY <2>2, <3>1, <5>1, <5>2
      <4> QED BY <4>1, <4>2
    <3>5. \A x \in Reduce : reducesReady' /\ reduceTask'[x] = 0 => out'[x] # Nil
      BY <2>2, <2>3, <3>1 DEF OutInv
    <3> QED BY <3>2, <3>3, <3>4, <3>5 DEF OutInv
  <2>5. CASE out' = out /\ worker' = [worker EXCEPT ![w] = Idle]
    <3>1. \A v \in Worker : worker'[v] = worker[v] \/ worker'[v].pc # "report"
      BY <1>0, <2>5
    <3> QED BY <2>3, <2>5, <3>1, OutStays
  <2> QED BY <1>4, <2>4, <2>5 DEF link
<1>5. ASSUME NEW w \in Worker, crash(w) PROVE OutInv'
  <2>1. /\ UNCHANGED <<input, out, reducesReady, reduceTask>>
        /\ worker' = [worker EXCEPT ![w] = Idle]
    BY <1>5 DEF crash, taskVars
  <2>2. \A v \in Worker : worker'[v] = worker[v] \/ worker'[v].pc # "report"
    BY <1>0, <2>1
  <2> QED BY <2>1, <2>2, OutStays
<1>6. CASE checkTimeout
  <2> DEFINE t == node[Head(running)]
  <2>1. alloc(1)[1] # 0
    <3>1. alloc(1) \in Seq(Nat \ {0}) /\ Len(alloc(1)) = 1
      BY AllocFacts, LenProperties DEF CoordInv, Lists
    <3> QED BY <3>1, ElementOfSeq
  <2>2. /\ UNCHANGED <<input, out, worker, reducesReady>>
        /\ reduceTask' = IF t.kind = "reduce" THEN [reduceTask EXCEPT ![t.id] = alloc(1)[1]]
                                              ELSE reduceTask
    BY <1>6 DEF checkTimeout
  <2>3. reduceTask \in [Reduce -> Nat]
    BY DEF CoordInv, Tasks
  <2> HIDE DEF t
  <2>4. \A r \in Reduce : reduceTask'[r] = 0 => reduceTask[r] = 0
    BY <2>1, <2>2, <2>3
  <2> QED BY <2>2, <2>4, OutStays
<1>7. CASE UNCHANGED vars
  BY <1>7, OutStays DEF vars, workerVars, taskVars
<1> QED BY <1>1, <1>2, <1>3, <1>4, <1>5, <1>6, <1>7 DEF Next, rpc

\* The job is done when no reduce task is left, and the invariant says the rest.
LEMMA OutInvImplies == OutInv /\ CoordInv => OutputsRight
BY DEF OutInv, CoordInv, PhaseInv, OutputsRight

\* A reduce counts every word of its partition once, for any input, any order of the maps
\* and any size of the buffer (worker.go:131-152, 196-257).
THEOREM Merging == Spec => []MergesRight
<1>1. Init => input \in [Map -> Seq(Nat)]
  BY MapReduceAssumption DEF Init
<1>2. input \in [Map -> Seq(Nat)] => MergesRight
  BY MergesHolds DEF MergesRight
<1> QED BY <1>1, <1>2, InputStays, PTL DEF Spec

\* An output file is right from the moment it has its name, and the job is not done before
\* all of them are there, whatever tasks crash, time out, are repeated or reported late
\* (worker.go:161-166, 270-278, mr_test.go:95-96).
THEOREM Outputs == Spec => []OutputsRight
<1>1. Init => CoordInv /\ OutInv /\ input \in [Map -> Seq(Nat)]
  BY InitCoord, InitOut, MapReduceAssumption DEF Init
<1>2. CoordInv /\ OutInv /\ input \in [Map -> Seq(Nat)] /\ [Next]_vars
        => (CoordInv /\ OutInv /\ input \in [Map -> Seq(Nat)])'
  BY NextCoord, NextOut, MergesHolds, InputStays
<1>3. CoordInv /\ OutInv => OutputsRight
  BY OutInvImplies
<1> QED BY <1>1, <1>2, <1>3, PTL DEF Spec

=============================================================================
