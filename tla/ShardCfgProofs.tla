--------------------------- MODULE ShardCfgProofs ---------------------------
(***************************************************************************)
(* What Rebalance computes, for any number of shards and groups: both of   *)
(* its loops are followed round by round.  The installed provers cannot    *)
(* apply the induction theorems of the library, which take a predicate as  *)
(* a parameter, so that induction over 0 .. n is proved here for sets.     *)
(* Hence every configuration that joins and leaves produce passes          *)
(* CheckConfig, and none moves a shard that could stay.                    *)
(***************************************************************************)
EXTENDS ShardConfigs, FiniteSetTheorems, FunctionTheorems, TLAPS

-----------------------------------------------------------------------------
\* Induction over 0 .. n.  The theorems of NaturalsInduction take a predicate as a
\* parameter; here it is a set, and the proof counts: the numbers below the first gap
\* would have an injection into a proper subset of theirs.
LEMMA Induct ==
  ASSUME NEW n \in Nat, NEW S, 0 \in S, \A i \in 0 .. n : i \in S /\ i < n => i + 1 \in S
  PROVE  \A i \in 0 .. n : i \in S
<1> SUFFICES ASSUME NEW k \in 0 .. n, k \notin S PROVE FALSE
  OBVIOUS
<1> DEFINE A == {i \in 0 .. k : i \in S /\ \A j \in 0 .. i : j \in S}
           f == [i \in A |-> i + 1]
<1>1. 0 \in A
  OBVIOUS
<1>2. \A i \in A : i + 1 \in A \ {0}
  OBVIOUS
<1>3. IsFiniteSet(A) /\ Cardinality(A) \in Nat
  <2>1. IsFiniteSet(0 .. k)
    BY FS_Interval
  <2>2. A \in SUBSET (0 .. k)
    OBVIOUS
  <2> HIDE DEF A
  <2> QED BY <2>1, <2>2, FS_Subset, FS_CardinalityType
<1>4. f \in Injection(A, A \ {0})
  BY <1>2 DEF Injection, IsInjective
<1>5. IsFiniteSet(A \ {0}) /\ Cardinality(A \ {0}) = Cardinality(A) - 1
  <2> HIDE DEF A
  <2> QED BY <1>1, <1>3, FS_RemoveElement
<1>6. Cardinality(A) <= Cardinality(A \ {0})
  <2> HIDE DEF A, f
  <2> QED BY <1>4, <1>5, FS_Injection
<1> HIDE DEF A
<1> QED BY <1>3, <1>5, <1>6

\* A nonempty set of natural numbers has a least element.
LEMMA Least ==
  ASSUME NEW T \in SUBSET Nat, T # {}
  PROVE  \E x \in T : \A y \in T : x <= y
<1> SUFFICES ASSUME \A x \in T : \E y \in T : y < x PROVE FALSE
  OBVIOUS
<1> PICK n \in T : TRUE
  OBVIOUS
<1> DEFINE S == {i \in 0 .. n : \A j \in 0 .. i : j \notin T}
<1>1. 0 \in S
  OBVIOUS
<1>2. ASSUME NEW i \in 0 .. n, i \in S, i < n PROVE i + 1 \in S
  <2>1. i + 1 \notin T
    <3> SUFFICES ASSUME i + 1 \in T PROVE FALSE
      OBVIOUS
    <3> PICK y \in T : y < i + 1
      OBVIOUS
    <3> QED BY <1>2
  <2>2. \A j \in 0 .. i + 1 : j \in 0 .. i \/ j = i + 1
    OBVIOUS
  <2>3. i + 1 \in 0 .. n
    BY <1>2
  <2> QED BY <1>2, <2>1, <2>2, <2>3
<1>3. \A i \in 0 .. n : i \in S
  <2> HIDE DEF S
  <2> QED BY <1>1, <1>2, Induct
<1> QED BY <1>3

\* The values of f after 0 .. n steps from c on
unfolds(f, n, c, step) == f[0] = c /\ \A i \in 1 .. n : f[i] = step[<<i, f[i - 1]>>]

\* Recursion: n steps from c on have an outcome.
LEMMA Recursion ==
  ASSUME NEW n \in Nat, NEW C, NEW c \in C, NEW step \in [(1 .. n) \X C -> C]
  PROVE  \E f \in [0 .. n -> C] : unfolds(f, n, c, step)
<1> USE DEF unfolds
<1> DEFINE P(k) == \E f \in [0 .. k -> C] : unfolds(f, k, c, step)
           S == {k \in 0 .. n : P(k)}
<1>1. 0 \in S
  <2> DEFINE f == [i \in 0 .. 0 |-> c]
  <2>1. f \in [0 .. 0 -> C] /\ f[0] = c /\ 1 .. 0 = {}
    OBVIOUS
  <2> HIDE DEF f
  <2>2. P(0)
    BY <2>1
  <2> QED BY <2>2
<1>2. ASSUME NEW k \in 0 .. n, k \in S, k < n PROVE k + 1 \in S
  <2> PICK f \in [0 .. k -> C] : f[0] = c /\ \A i \in 1 .. k : f[i] = step[<<i, f[i - 1]>>]
    BY <1>2
  <2> DEFINE g == [i \in 0 .. k + 1 |-> IF i <= k THEN f[i] ELSE step[<<i, f[k]>>]]
  <2>1. g \in [0 .. k + 1 -> C]
    <3>1. step[<<k + 1, f[k]>>] \in C
      BY <1>2
    <3> QED BY <1>2, <3>1
  <2>2. g[0] = c
    BY <1>2
  <2>3. ASSUME NEW i \in 1 .. k + 1 PROVE g[i] = step[<<i, g[i - 1]>>]
    <3>1. CASE i <= k
      BY <3>1
    <3>2. CASE i = k + 1
      BY <3>2
    <3> QED BY <3>1, <3>2
  <2>4. P(k + 1)
    <3> HIDE DEF g
    <3> QED BY <2>1, <2>2, <2>3
  <2> QED BY <1>2, <2>4
<1>3. \A k \in 0 .. n : k \in S
  <2> HIDE DEF S
  <2> QED BY <1>1, <1>2, Induct
<1> QED BY <1>3

-----------------------------------------------------------------------------
\* A configuration with groups, in which every shard has one of them
Complete == {f \in ShardConfig : f.groups # {} /\ \A s \in Shard : f.shards[s] \in f.groups}

\* The number of shards of a group is a number, and not above that of all shards.
LEMMA CountType ==
  ASSUME NEW c, NEW g
  PROVE  /\ IsFiniteSet({s \in Shard : c.shards[s] = g})
         /\ count(c, g) \in Nat /\ count(c, g) <= NShards
<1>1. IsFiniteSet(Shard) /\ Cardinality(Shard) = NShards
  BY FS_Interval, CfgAssumption DEF Shard
<1>2. {s \in Shard : c.shards[s] = g} \in SUBSET Shard
  OBVIOUS
<1> QED BY <1>1, <1>2, FS_Subset, FS_CardinalityType DEF count

\* analyze finds a group with the fewest shards when there is a group.
LEMMA LeastType ==
  ASSUME NEW c \in ShardConfig, c.groups # {}
  PROVE  /\ least(c) \in c.groups
         /\ \A h \in c.groups : count(c, least(c)) <= count(c, h)
<1> DEFINE T == {count(c, g) : g \in c.groups}
<1>1. T \in SUBSET Nat /\ T # {}
  BY CountType
<1>2. PICK x \in T : \A y \in T : x <= y
  <2> HIDE DEF T
  <2> QED BY <1>1, Least
<1> DEFINE U == {g \in c.groups : count(c, g) = x}
<1>3. U \in SUBSET Nat /\ U # {}
  BY CfgAssumption DEF ShardConfig
<1>4. PICK g \in U : \A h \in U : g <= h
  <2> HIDE DEF U
  <2> QED BY <1>3, Least
<1>5. \E f \in c.groups : \A h \in c.groups :
        count(c, f) < count(c, h) \/ (count(c, f) = count(c, h) /\ f <= h)
  <2>1. ASSUME NEW h \in c.groups
        PROVE  count(c, g) < count(c, h) \/ (count(c, g) = count(c, h) /\ g <= h)
    <3>1. count(c, g) = x /\ x <= count(c, h) /\ x \in Nat /\ count(c, h) \in Nat
      BY <1>1, <1>2
    <3>2. count(c, h) = x => g <= h
      BY <1>4
    <3> QED BY <3>1, <3>2
  <2> QED BY <2>1
<1>6. /\ least(c) \in c.groups
      /\ \A h \in c.groups : count(c, least(c)) < count(c, h)
                               \/ (count(c, least(c)) = count(c, h) /\ least(c) <= h)
  BY <1>5 DEF least
<1>7. \A i : count(c, i) \in Nat
  BY CountType
<1> QED BY <1>6, <1>7

\* and one with the most.
LEMMA MostType ==
  ASSUME NEW c \in ShardConfig, c.groups # {}
  PROVE  /\ most(c) \in c.groups
         /\ \A h \in c.groups : count(c, h) <= count(c, most(c))
<1> DEFINE T == {NShards - count(c, g) : g \in c.groups}
<1>1. NShards \in Nat /\ \A g : count(c, g) \in Nat /\ count(c, g) <= NShards
  BY CountType, CfgAssumption
<1>2. T \in SUBSET Nat /\ T # {}
  BY <1>1
<1>3. PICK x \in T : \A y \in T : x <= y
  <2> HIDE DEF T
  <2> QED BY <1>2, Least
<1> DEFINE U == {g \in c.groups : NShards - count(c, g) = x}
<1>4. U \in SUBSET Nat /\ U # {}
  BY CfgAssumption DEF ShardConfig
<1>5. PICK g \in U : \A h \in U : g <= h
  <2> HIDE DEF U
  <2> QED BY <1>4, Least
<1>6. \E f \in c.groups : \A h \in c.groups :
        count(c, f) > count(c, h) \/ (count(c, f) = count(c, h) /\ f <= h)
  <2>1. ASSUME NEW h \in c.groups
        PROVE  count(c, g) > count(c, h) \/ (count(c, g) = count(c, h) /\ g <= h)
    <3>1. NShards - count(c, g) = x /\ x <= NShards - count(c, h)
      BY <1>3
    <3>2. NShards - count(c, h) = x => g <= h
      BY <1>5
    <3> QED BY <1>1, <3>1, <3>2
  <2> QED BY <2>1
<1>7. /\ most(c) \in c.groups
      /\ \A h \in c.groups : count(c, most(c)) > count(c, h)
                               \/ (count(c, most(c)) = count(c, h) /\ most(c) <= h)
  BY <1>6 DEF most
<1> QED BY <1>1, <1>7

\* A group that has more than no shard has one.
LEMMA HasShard ==
  ASSUME NEW c, NEW g, count(c, g) > 0
  PROVE  \E s \in Shard : c.shards[s] = g
<1> SUFFICES ASSUME {s \in Shard : c.shards[s] = g} = {} PROVE FALSE
  OBVIOUS
<1> QED BY FS_EmptySet DEF count

\* What one more shard changes: it counts for the group that gets it, and no longer for
\* the one that had it.
LEMMA Reassign ==
  ASSUME NEW b \in ShardConfig, NEW s \in Shard, NEW h \in Gid, b.shards[s] # h
  PROVE  LET r == [b EXCEPT !.shards[s] = h]
         IN /\ r \in ShardConfig /\ r.num = b.num /\ r.groups = b.groups
            /\ r.shards[s] = h /\ \A i \in Shard : i # s => r.shards[i] = b.shards[i]
            /\ count(r, h) = count(b, h) + 1
            /\ count(r, b.shards[s]) = count(b, b.shards[s]) - 1
            /\ \A g : g # h /\ g # b.shards[s] => count(r, g) = count(b, g)
<1> DEFINE r == [b EXCEPT !.shards[s] = h]
           of(f, g) == {i \in Shard : f.shards[i] = g}
<1>1. /\ r \in ShardConfig /\ r.num = b.num /\ r.groups = b.groups
      /\ r.shards[s] = h /\ \A i \in Shard : i # s => r.shards[i] = b.shards[i]
  BY DEF ShardConfig
<1> HIDE DEF r
<1>2. \A f, g : IsFiniteSet(of(f, g)) /\ count(f, g) = Cardinality(of(f, g))
  BY CountType DEF count
<1>3. of(r, h) = of(b, h) \cup {s} /\ s \notin of(b, h)
  BY <1>1
<1>4. of(r, b.shards[s]) = of(b, b.shards[s]) \ {s} /\ s \in of(b, b.shards[s])
  BY <1>1
<1>5. \A g : g # h /\ g # b.shards[s] => of(r, g) = of(b, g)
  BY <1>1
<1> HIDE DEF of
<1>6. count(r, h) = count(b, h) + 1
  BY <1>2, <1>3, FS_AddElement
<1>7. count(r, b.shards[s]) = count(b, b.shards[s]) - 1
  BY <1>2, <1>4, FS_RemoveElement
<1>8. \A g : g # h /\ g # b.shards[s] => count(r, g) = count(b, g)
  BY <1>2, <1>5
<1> QED BY <1>1, <1>6, <1>7, <1>8 DEF r

-----------------------------------------------------------------------------
\* The first loop

\* Round i of the first loop
assign(i, b) == IF b.shards[i] \in b.groups THEN b ELSE [b EXCEPT !.shards[i] = least(b)]

\* A round changes the shard it is about, and that to a group with the fewest shards.
LEMMA AssignType ==
  ASSUME NEW b \in ShardConfig, b.groups # {}, NEW i \in Shard
  PROVE  /\ assign(i, b) \in ShardConfig
         /\ assign(i, b).groups = b.groups /\ assign(i, b).num = b.num
         /\ assign(i, b).shards[i] \in b.groups
         /\ \A j \in Shard : j # i => assign(i, b).shards[j] = b.shards[j]
<1>1. least(b) \in b.groups
  BY LeastType
<1> QED BY <1>1 DEF assign, ShardConfig

\* What the rounds keep holds after the last.
LEMMA AssignedRounds ==
  ASSUME NEW c \in ShardConfig, c.groups # {},
         NEW J \in SUBSET ((0 .. NShards) \X ShardConfig), <<0, c>> \in J,
         \A i \in 1 .. NShards, b \in ShardConfig :
           b.groups # {} /\ <<i - 1, b>> \in J => <<i, assign(i, b)>> \in J
  PROVE  <<NShards, assigned(c, NShards)>> \in J
<1> DEFINE C == {b \in ShardConfig : b.groups # {}}
           step == [p \in (1 .. NShards) \X C |-> assign(p[1], p[2])]
           body(f) == [i \in 0 .. NShards |-> IF i = 0 THEN c ELSE assign(i, f[i - 1])]
<1>0. NShards \in Nat
  BY CfgAssumption
<1>1. ASSUME NEW i \in Shard, NEW b \in C PROVE assign(i, b) \in C
  BY AssignType
<1>2. step \in [(1 .. NShards) \X C -> C]
  BY <1>1 DEF Shard
<1>3. PICK f \in [0 .. NShards -> C] : unfolds(f, NShards, c, step)
  <2>1. c \in C
    OBVIOUS
  <2> HIDE DEF step, C
  <2> QED BY <1>0, <1>2, <2>1, Recursion
<1>4. f = body(f)
  <2>1. ASSUME NEW i \in 1 .. NShards PROVE f[i] = assign(i, f[i - 1])
    <3>1. i - 1 \in 0 .. NShards
      BY <1>0
    <3>2. f[i - 1] \in C
      BY <3>1
    <3> HIDE DEF C
    <3> QED BY <1>3, <3>2 DEF unfolds
  <2>2. \A i \in 0 .. NShards : i = 0 \/ i \in 1 .. NShards
    BY <1>0
  <2> HIDE DEF C
  <2> QED BY <1>3, <2>1, <2>2 DEF unfolds
<1> DEFINE after == CHOOSE g : g = body(g)
<1>5. after = body(after)
  BY <1>4
<1>6. assigned(c, NShards) = after[NShards]
  BY DEF assigned, assign
<1> HIDE DEF after
<1> DEFINE S == {i \in 0 .. NShards : after[i] \in C /\ <<i, after[i]>> \in J}
<1>7. 0 \in S
  <2>1. after[0] = c
    BY <1>0, <1>5
  <2> QED BY <1>0, <2>1
<1>8. ASSUME NEW i \in 0 .. NShards, i \in S, i < NShards PROVE i + 1 \in S
  <2>1. i + 1 \in 0 .. NShards /\ i + 1 \in 1 .. NShards /\ (i + 1) - 1 = i
    BY <1>0, <1>8
  <2>2. after[i + 1] = assign(i + 1, after[i])
    BY <1>5, <2>1
  <2>3. after[i] \in C /\ <<(i + 1) - 1, after[i]>> \in J
    BY <1>8, <2>1
  <2>4. after[i + 1] \in C
    BY <1>1, <2>1, <2>2, <2>3 DEF Shard
  <2>5. <<i + 1, after[i + 1]>> \in J
    BY <2>1, <2>2, <2>3
  <2> QED BY <2>1, <2>4, <2>5
<1>9. NShards \in S
  <2>1. \A i \in 0 .. NShards : i \in S
    <3> HIDE DEF S
    <3> QED BY <1>0, <1>7, <1>8, Induct
  <2> HIDE DEF S
  <2> QED BY <2>1, <1>0
<1> QED BY <1>6, <1>9

\* No group of G has two shards more than another.
even(c, G) == \A g, h \in G : count(c, g) <= count(c, h) + 1

\* The first loop gives every shard to a group, touches none that has one, and leaves
\* groups even that were.
LEMMA AssignedFacts ==
  ASSUME NEW c \in ShardConfig, c.groups # {}
  PROVE  /\ assigned(c, NShards) \in Complete
         /\ assigned(c, NShards).num = c.num
         /\ assigned(c, NShards).groups = c.groups
         /\ \A s \in Shard :
              c.shards[s] \in c.groups => assigned(c, NShards).shards[s] = c.shards[s]
         /\ even(c, c.groups) => even(assigned(c, NShards), c.groups)
<1> DEFINE fine(i, b) ==
             /\ b.groups = c.groups /\ b.num = c.num
             /\ \A s \in Shard : s <= i => b.shards[s] \in c.groups
             /\ \A s \in Shard : c.shards[s] \in c.groups => b.shards[s] = c.shards[s]
             /\ even(c, c.groups) => even(b, c.groups)
           J == {p \in (0 .. NShards) \X ShardConfig : fine(p[1], p[2])}
<1>0. NShards \in Nat /\ 0 \in 0 .. NShards /\ NShards \in 0 .. NShards
  BY CfgAssumption
<1>1. <<0, c>> \in J
  BY <1>0 DEF Shard
<1>2. ASSUME NEW i \in 1 .. NShards, NEW b \in ShardConfig, b.groups # {}, fine(i - 1, b)
      PROVE  fine(i, assign(i, b))
  <2>1. i \in Shard
    BY DEF Shard
  <2>2. \A s \in Shard : s <= i => s <= i - 1 \/ s = i
    BY <1>0 DEF Shard
  <2>3. even(c, c.groups) => even(assign(i, b), c.groups)
    <3>1. CASE b.shards[i] \in b.groups
      BY <1>2, <3>1 DEF assign
    <3>2. CASE b.shards[i] \notin b.groups
      <4> DEFINE r == [b EXCEPT !.shards[i] = least(b)]
      <4>1. least(b) \in b.groups /\ \A g \in b.groups : count(b, least(b)) <= count(b, g)
        BY <1>2, LeastType
      <4>2. least(b) \in Gid /\ b.shards[i] # least(b)
        BY <3>2, <4>1 DEF ShardConfig
      <4>3. /\ count(r, least(b)) = count(b, least(b)) + 1
            /\ \A g : g # least(b) /\ g # b.shards[i] => count(r, g) = count(b, g)
        BY <2>1, <4>2, Reassign
      <4>4. assign(i, b) = r
        BY <3>2 DEF assign
      <4> HIDE DEF r
      <4> SUFFICES ASSUME even(b, c.groups), NEW g \in c.groups, NEW h \in c.groups
                   PROVE  count(r, g) <= count(r, h) + 1
        BY <1>2, <4>4 DEF even
      <4>5. /\ g # b.shards[i] /\ h # b.shards[i] /\ count(b, g) <= count(b, h) + 1
            /\ count(b, least(b)) <= count(b, h)
            /\ count(b, g) \in Nat /\ count(b, h) \in Nat /\ count(b, least(b)) \in Nat
        BY <1>2, <3>2, <4>1, CountType DEF even
      <4> QED BY <4>3, <4>5
    <3> QED BY <3>1, <3>2
  <2>4. \A s \in Shard : c.shards[s] \in c.groups => assign(i, b).shards[s] = c.shards[s]
    BY <1>2, <2>1, AssignType DEF assign
  <2> QED BY <1>2, <2>1, <2>2, <2>3, <2>4, AssignType
<1>3. \A i \in 1 .. NShards, b \in ShardConfig :
        b.groups # {} /\ <<i - 1, b>> \in J => <<i, assign(i, b)>> \in J
  <2> SUFFICES ASSUME NEW i \in 1 .. NShards, NEW b \in ShardConfig, b.groups # {},
                      fine(i - 1, b)
               PROVE  <<i, assign(i, b)>> \in J
    OBVIOUS
  <2>1. assign(i, b) \in ShardConfig
    BY AssignType DEF Shard
  <2>2. fine(i, assign(i, b))
    BY <1>2
  <2> HIDE DEF fine
  <2> QED BY <1>0, <2>1, <2>2
<1>4. <<NShards, assigned(c, NShards)>> \in J
  <2>1. J \in SUBSET ((0 .. NShards) \X ShardConfig)
    OBVIOUS
  <2> HIDE DEF J
  <2> QED BY <1>1, <1>3, <2>1, AssignedRounds
<1>5. assigned(c, NShards) \in ShardConfig /\ fine(NShards, assigned(c, NShards))
  BY <1>4
<1> QED BY <1>5 DEF Complete, Shard

-----------------------------------------------------------------------------
\* The second loop

\* A round of the second loop
evenOut(b) == IF balanced(b) THEN b ELSE moveOne(b)

\* It moves one shard, from a group with the most to one with the fewest.
LEMMA MoveOneFacts ==
  ASSUME NEW b \in Complete, ~ balanced(b)
  PROVE  /\ most(b) \in b.groups /\ least(b) \in b.groups /\ most(b) # least(b)
         /\ count(b, most(b)) >= count(b, least(b)) + 2
         /\ \E s \in Shard :
              /\ b.shards[s] = most(b)
              /\ moveOne(b) = [b EXCEPT !.shards[s] = least(b)]
<1>1. /\ b \in ShardConfig /\ most(b) \in b.groups /\ least(b) \in b.groups
  BY LeastType, MostType DEF Complete
<1>2. \A g : count(b, g) \in Nat
  BY CountType
<1>3. count(b, most(b)) >= count(b, least(b)) + 2
  BY <1>2 DEF balanced
<1>4. most(b) # least(b) /\ count(b, most(b)) > 0
  BY <1>2, <1>3
<1> DEFINE T == {s \in Shard : b.shards[s] = most(b)}
<1>5. T # {}
  BY <1>4, HasShard
<1>6. PICK x \in T : \A y \in T : x <= y
  <2>1. T \in SUBSET Nat
    BY DEF Shard
  <2> HIDE DEF T
  <2> QED BY <1>5, <2>1, Least
<1>7. \A j \in 1 .. x - 1 : b.shards[j] # most(b)
  BY <1>6, CfgAssumption DEF Shard
<1> DEFINE s == CHOOSE i \in Shard : b.shards[i] = most(b)
                                     /\ \A j \in 1 .. i - 1 : b.shards[j] # most(b)
<1>8. s \in Shard /\ b.shards[s] = most(b)
  BY <1>6, <1>7
<1>9. moveOne(b) = [b EXCEPT !.shards[s] = least(b)]
  BY DEF moveOne
<1> HIDE DEF s
<1> QED BY <1>1, <1>3, <1>4, <1>8, <1>9

\* It leaves every shard with a group.
LEMMA EvenOutType ==
  ASSUME NEW b \in Complete
  PROVE  evenOut(b) \in Complete /\ evenOut(b).num = b.num /\ evenOut(b).groups = b.groups
<1>1. CASE balanced(b)
  BY <1>1 DEF evenOut
<1>2. CASE ~ balanced(b)
  <2>1. PICK s \in Shard : moveOne(b) = [b EXCEPT !.shards[s] = least(b)]
    BY <1>2, MoveOneFacts
  <2>2. least(b) \in b.groups /\ b \in ShardConfig
    BY <1>2, MoveOneFacts DEF Complete
  <2> QED BY <1>2, <2>1, <2>2 DEF evenOut, Complete, ShardConfig
<1> QED BY <1>1, <1>2

\* What the rounds keep holds after the last.
LEMMA EvenedRounds ==
  ASSUME NEW c \in Complete,
         NEW J \in SUBSET ((0 .. NShards) \X Complete), <<0, c>> \in J,
         \A i \in 1 .. NShards, b \in Complete : <<i - 1, b>> \in J => <<i, evenOut(b)>> \in J
  PROVE  <<NShards, evened(c)>> \in J
<1> DEFINE step == [p \in (1 .. NShards) \X Complete |-> evenOut(p[2])]
           body(f) == [i \in 0 .. NShards |-> IF i = 0 THEN c ELSE evenOut(f[i - 1])]
<1>0. NShards \in Nat
  BY CfgAssumption
<1>1. step \in [(1 .. NShards) \X Complete -> Complete]
  BY EvenOutType
<1>2. PICK f \in [0 .. NShards -> Complete] : unfolds(f, NShards, c, step)
  <2> HIDE DEF step
  <2> QED BY <1>0, <1>1, Recursion
<1>3. f = body(f)
  <2>1. ASSUME NEW i \in 1 .. NShards PROVE f[i] = evenOut(f[i - 1])
    <3>1. i - 1 \in 0 .. NShards
      BY <1>0
    <3> QED BY <1>2, <3>1 DEF unfolds
  <2>2. \A i \in 0 .. NShards : i = 0 \/ i \in 1 .. NShards
    BY <1>0
  <2> QED BY <1>2, <2>1, <2>2 DEF unfolds
<1> DEFINE after == CHOOSE g : g = body(g)
<1>4. after = body(after)
  BY <1>3
<1>5. evened(c) = after[NShards]
  BY DEF evened, evenOut
<1> HIDE DEF after
<1> DEFINE S == {i \in 0 .. NShards : after[i] \in Complete /\ <<i, after[i]>> \in J}
<1>6. 0 \in S
  <2>1. after[0] = c
    BY <1>0, <1>4
  <2> QED BY <1>0, <2>1
<1>7. ASSUME NEW i \in 0 .. NShards, i \in S, i < NShards PROVE i + 1 \in S
  <2>1. i + 1 \in 0 .. NShards /\ i + 1 \in 1 .. NShards /\ (i + 1) - 1 = i
    BY <1>0, <1>7
  <2>2. after[i + 1] = evenOut(after[i])
    BY <1>4, <2>1
  <2>3. after[i] \in Complete /\ <<(i + 1) - 1, after[i]>> \in J
    BY <1>7, <2>1
  <2>4. after[i + 1] \in Complete
    BY <2>2, <2>3, EvenOutType
  <2>5. <<i + 1, after[i + 1]>> \in J
    BY <2>1, <2>2, <2>3
  <2> QED BY <2>1, <2>4, <2>5
<1>8. NShards \in S
  <2>1. \A i \in 0 .. NShards : i \in S
    <3> HIDE DEF S
    <3> QED BY <1>0, <1>6, <1>7, Induct
  <2> HIDE DEF S
  <2> QED BY <2>1, <1>0
<1> QED BY <1>5, <1>8

\* What the second loop has moved on the way from c to b
moved(c, b) == {s \in Shard : b.shards[s] # c.shards[s]}

\* A group that got a shard has hardly more than any other, and one that gave a shard
\* hardly less: neither of them does the opposite while the groups are out of balance.
settled(c, b) ==
  /\ b.groups = c.groups /\ b.num = c.num
  /\ \A s \in moved(c, b) : count(b, b.shards[s]) <= count(b, least(b)) + 1
  /\ \A s \in moved(c, b) : count(b, most(b)) <= count(b, c.shards[s]) + 1

\* So a round moves a shard that has not been moved before, and keeps that so.
LEMMA MoveOneSettled ==
  ASSUME NEW c \in Complete, NEW b \in Complete, settled(c, b), ~ balanced(b)
  PROVE  /\ moveOne(b) \in Complete /\ settled(c, moveOne(b))
         /\ \E s \in Shard : /\ s \notin moved(c, b) /\ moved(c, moveOne(b)) = moved(c, b) \cup {s}
                             /\ b.shards[s] = most(b)
                             /\ moveOne(b).shards[s] = least(b)
                             /\ \A i \in Shard : i # s => moveOne(b).shards[i] = b.shards[i]
<1> DEFINE g == most(b)
           h == least(b)
           r == moveOne(b)
<1>1. /\ b \in ShardConfig /\ b.groups # {} /\ g \in b.groups /\ h \in b.groups /\ g # h
      /\ count(b, g) >= count(b, h) + 2 /\ h \in Gid
  BY MoveOneFacts DEF Complete, ShardConfig
<1>2. PICK s \in Shard : b.shards[s] = g /\ r = [b EXCEPT !.shards[s] = h]
  BY MoveOneFacts
<1>3. \A x : count(b, x) \in Nat /\ count(r, x) \in Nat
  BY CountType
<1>4. /\ r \in ShardConfig /\ r.num = b.num /\ r.groups = b.groups
      /\ r.shards[s] = h /\ \A i \in Shard : i # s => r.shards[i] = b.shards[i]
      /\ count(r, h) = count(b, h) + 1
      /\ count(r, g) = count(b, g) - 1
      /\ \A x : x # h /\ x # g => count(r, x) = count(b, x)
  BY <1>1, <1>2, Reassign
<1>5. r \in Complete
  BY EvenOutType DEF evenOut
<1>6. /\ \A x \in b.groups : count(b, h) <= count(b, x) /\ count(b, x) <= count(b, g)
      /\ least(r) \in b.groups /\ most(r) \in b.groups
  BY <1>1, <1>4, LeastType, MostType
<1> HIDE DEF g, h, r
<1>7. \A x \in b.groups : count(b, h) <= count(r, x) /\ count(r, x) <= count(b, g)
  <2> SUFFICES ASSUME NEW x \in b.groups
               PROVE  count(b, h) <= count(r, x) /\ count(r, x) <= count(b, g)
    OBVIOUS
  <2>1. count(b, h) <= count(b, x) /\ count(b, x) <= count(b, g)
    BY <1>6
  <2> QED BY <1>1, <1>3, <1>4, <2>1
<1>8. count(b, h) <= count(r, least(r)) /\ count(r, most(r)) <= count(b, g)
  BY <1>6, <1>7
<1>9. s \notin moved(c, b)
  <2> SUFFICES ASSUME s \in moved(c, b) PROVE FALSE
    OBVIOUS
  <2>1. count(b, g) <= count(b, h) + 1
    BY <1>2 DEF settled, h
  <2> QED BY <1>1, <1>3, <2>1
<1>10. c.shards[s] = g
  BY <1>2, <1>9 DEF moved
<1>11. moved(c, r) = moved(c, b) \cup {s}
  BY <1>1, <1>4, <1>9, <1>10 DEF moved
<1>12. ASSUME NEW i \in moved(c, r) PROVE count(r, r.shards[i]) <= count(r, least(r)) + 1
  <2>1. CASE i = s
    BY <1>3, <1>4, <1>8, <2>1
  <2>2. CASE i # s
    <3>1. i \in moved(c, b) /\ i \in Shard /\ r.shards[i] = b.shards[i]
      BY <1>4, <1>11, <2>2 DEF moved
    <3>2. count(b, b.shards[i]) <= count(b, h) + 1
      BY <3>1 DEF settled, h
    <3>3. b.shards[i] # g
      BY <1>1, <1>3, <3>2
    <3>4. count(r, b.shards[i]) <= count(b, h) + 1
      BY <1>3, <1>4, <3>2, <3>3
    <3> QED BY <1>3, <1>8, <3>1, <3>4
  <2> QED BY <2>1, <2>2
<1>13. ASSUME NEW i \in moved(c, r) PROVE count(r, most(r)) <= count(r, c.shards[i]) + 1
  <2>1. CASE i = s
    BY <1>3, <1>4, <1>8, <1>10, <2>1
  <2>2. CASE i # s
    <3>1. i \in moved(c, b)
      BY <1>11, <2>2
    <3>2. count(b, g) <= count(b, c.shards[i]) + 1
      BY <3>1 DEF settled, g
    <3>3. c.shards[i] # h
      BY <1>1, <1>3, <3>2
    <3>4. CASE c.shards[i] = g
      BY <1>3, <1>4, <1>8, <3>4
    <3>5. CASE c.shards[i] # g
      BY <1>3, <1>4, <1>8, <3>2, <3>3, <3>5
    <3> QED BY <3>4, <3>5
  <2> QED BY <2>1, <2>2
<1>14. settled(c, r)
  BY <1>4, <1>12, <1>13 DEF settled
<1> QED BY <1>2, <1>4, <1>5, <1>9, <1>11, <1>14 DEF g, h, r

\* If the groups of old had all shards and were even, a round takes a shard from one of
\* them and gives it to another group.
LEMMA MoveOneJoins ==
  ASSUME NEW c \in Complete, NEW b \in Complete, settled(c, b), ~ balanced(b),
         NEW old, \A s \in Shard : c.shards[s] \in old, even(c, old),
         \A s \in moved(c, b) : b.shards[s] \notin old
  PROVE  least(b) \notin old
<1> SUFFICES ASSUME least(b) \in old PROVE FALSE
  OBVIOUS
<1> DEFINE g == most(b)
           h == least(b)
           of(f, x) == {i \in Shard : f.shards[i] = x}
<1>0. \A f, x : count(f, x) \in Nat
  BY CountType
<1>1. count(b, g) >= count(b, h) + 2
  BY MoveOneFacts
<1>2. \A f, x : IsFiniteSet(of(f, x)) /\ count(f, x) = Cardinality(of(f, x))
  BY CountType DEF count
<1>3. PICK s \in Shard : b.shards[s] = g
  BY <1>0, <1>1, HasShard
<1>4. s \notin moved(c, b)
  <2> SUFFICES ASSUME s \in moved(c, b) PROVE FALSE
    OBVIOUS
  <2>1. count(b, g) <= count(b, h) + 1
    BY <1>3 DEF settled
  <2> QED BY <1>0, <1>1, <2>1
<1>5. g \in old
  BY <1>3, <1>4 DEF moved
<1>6. count(b, g) <= count(c, g)
  <2>1. of(b, g) \in SUBSET of(c, g)
    BY <1>5 DEF moved
  <2> HIDE DEF of
  <2> QED BY <1>2, <2>1, FS_Subset
<1>7. count(c, g) <= count(c, h) + 1
  BY <1>5 DEF even
<1>8. count(b, h) < count(c, h)
  BY <1>0, <1>1, <1>6, <1>7
<1>9. PICK i \in Shard : c.shards[i] = h /\ b.shards[i] # h
  <2> SUFFICES ASSUME of(c, h) \in SUBSET of(b, h) PROVE FALSE
    OBVIOUS
  <2> HIDE DEF of
  <2>1. count(c, h) <= count(b, h)
    BY <1>2, FS_Subset
  <2> QED BY <1>0, <1>8, <2>1
<1>10. count(b, g) <= count(b, h) + 1
  BY <1>9 DEF settled, moved
<1> QED BY <1>0, <1>1, <1>10

\* The second loop ends in balance within NShards rounds, and what it moves it moves to
\* groups that had no shard, if the others were even.
LEMMA EvenedFacts ==
  ASSUME NEW c \in Complete, NEW old
  PROVE  /\ evened(c) \in Complete /\ evened(c).num = c.num /\ evened(c).groups = c.groups
         /\ balanced(evened(c))
         /\ (\A s \in Shard : c.shards[s] \in old) /\ even(c, old) =>
              \A s \in moved(c, evened(c)) : evened(c).shards[s] \notin old
         /\ balanced(c) => evened(c) = c
<1> DEFINE had == (\A s \in Shard : c.shards[s] \in old) /\ even(c, old)
           fine(i, b) ==
             /\ settled(c, b)
             /\ balanced(b) \/ Cardinality(moved(c, b)) >= i
             /\ had => \A s \in moved(c, b) : b.shards[s] \notin old
             /\ balanced(c) => b = c
           J == {p \in (0 .. NShards) \X Complete : fine(p[1], p[2])}
<1>0. NShards \in Nat /\ 0 \in 0 .. NShards /\ NShards \in 0 .. NShards
  BY CfgAssumption
<1>1. IsFiniteSet(Shard) /\ Cardinality(Shard) = NShards
  BY FS_Interval, CfgAssumption DEF Shard
<1>2. \A b : IsFiniteSet(moved(c, b)) /\ Cardinality(moved(c, b)) \in Nat
  <2> SUFFICES ASSUME NEW b
               PROVE  IsFiniteSet(moved(c, b)) /\ Cardinality(moved(c, b)) \in Nat
    OBVIOUS
  <2>1. moved(c, b) \in SUBSET Shard
    BY DEF moved
  <2> QED BY <1>1, <2>1, FS_Subset, FS_CardinalityType
<1>3. <<0, c>> \in J
  <2>1. moved(c, c) = {}
    BY DEF moved
  <2>2. Cardinality(moved(c, c)) >= 0
    BY <1>2
  <2>3. fine(0, c)
    BY <2>1, <2>2 DEF settled
  <2> HIDE DEF fine
  <2> QED BY <1>0, <2>3
<1>4. ASSUME NEW i \in 1 .. NShards, NEW b \in Complete, fine(i - 1, b)
      PROVE  fine(i, evenOut(b))
  <2>1. CASE balanced(b)
    BY <1>4, <2>1 DEF evenOut
  <2>2. CASE ~ balanced(b)
    <3> DEFINE r == moveOne(b)
    <3>1. PICK s \in Shard : /\ s \notin moved(c, b) /\ moved(c, r) = moved(c, b) \cup {s}
                             /\ r.shards[s] = least(b)
                             /\ \A j \in Shard : j # s => r.shards[j] = b.shards[j]
      BY <1>4, <2>2, MoveOneSettled
    <3>2. settled(c, r) /\ evenOut(b) = r
      BY <1>4, <2>2, MoveOneSettled DEF evenOut
    <3> HIDE DEF r
    <3>3. Cardinality(moved(c, b)) >= i - 1
      BY <1>4, <2>2
    <3>4. Cardinality(moved(c, r)) >= i
      <4>1. Cardinality(moved(c, r)) = Cardinality(moved(c, b)) + 1
        BY <1>2, <3>1, FS_AddElement
      <4> QED BY <1>0, <1>2, <3>3, <4>1
    <3>5. ASSUME had PROVE \A j \in moved(c, r) : r.shards[j] \notin old
      <4>1. least(b) \notin old
        BY <1>4, <2>2, <3>5, MoveOneJoins
      <4> QED BY <1>4, <3>1, <3>5, <4>1 DEF moved
    <3>6. ~ balanced(c)
      BY <1>4, <2>2
    <3> QED BY <3>2, <3>4, <3>5, <3>6
  <2> QED BY <2>1, <2>2
<1>5. \A i \in 1 .. NShards, b \in Complete : <<i - 1, b>> \in J => <<i, evenOut(b)>> \in J
  <2> SUFFICES ASSUME NEW i \in 1 .. NShards, NEW b \in Complete, fine(i - 1, b)
               PROVE  <<i, evenOut(b)>> \in J
    <3> HIDE DEF fine
    <3> QED OBVIOUS
  <2>1. fine(i, evenOut(b))
    BY <1>4
  <2> HIDE DEF fine
  <2> QED BY <1>0, <2>1, EvenOutType
<1> DEFINE e == evened(c)
<1>6. <<NShards, e>> \in J
  <2>1. J \in SUBSET ((0 .. NShards) \X Complete)
    OBVIOUS
  <2> HIDE DEF J
  <2> QED BY <1>3, <1>5, <2>1, EvenedRounds
<1> HIDE DEF e
<1>7. e \in Complete /\ fine(NShards, e)
  <2> HIDE DEF fine
  <2> QED BY <1>6
<1>8. balanced(e)
  <2> SUFFICES ASSUME ~ balanced(e) PROVE FALSE
    OBVIOUS
  <2>1. Cardinality(moved(c, e)) >= NShards
    BY <1>7
  <2>2. moved(c, e) = Shard
    <3>1. moved(c, e) \in SUBSET Shard
      BY DEF moved
    <3>2. Cardinality(moved(c, e)) <= Cardinality(Shard)
      BY <1>1, <3>1, FS_Subset
    <3>3. Cardinality(moved(c, e)) = Cardinality(Shard)
      BY <1>0, <1>1, <1>2, <2>1, <3>2
    <3> QED BY <1>1, <3>1, <3>3, FS_Subset
  <2>3. PICK s \in Shard : s \notin moved(c, e)
    BY <1>7, MoveOneSettled
  <2> QED BY <2>2, <2>3
<1> QED BY <1>7, <1>8 DEF e, settled

\* Rebalance gives every shard to a group if there is one, and groups end up even.  If they
\* were even before, shards of remaining groups stay or go to a group without shards.
LEMMA RebalanceFacts ==
  ASSUME NEW c \in ShardConfig, c.groups # {}
  PROVE  /\ Rebalance(c) \in Complete
         /\ Rebalance(c).num = c.num
         /\ Rebalance(c).groups = c.groups
         /\ even(Rebalance(c), c.groups)
         /\ even(c, c.groups) => \A s \in Shard :
              c.shards[s] \in c.groups => Rebalance(c).shards[s] = c.shards[s]
         /\ \A old : (\A s \in Shard : c.shards[s] \in old \cap c.groups) /\ even(c, old) =>
              \A s \in Shard : Rebalance(c).shards[s] # c.shards[s] =>
                Rebalance(c).shards[s] \notin old
<1> DEFINE a == assigned(c, NShards)
           e == evened(a)
<1>1. Rebalance(c) = e
  BY DEF Rebalance
<1>2. /\ a \in Complete /\ a.num = c.num /\ a.groups = c.groups
      /\ \A s \in Shard : c.shards[s] \in c.groups => a.shards[s] = c.shards[s]
      /\ even(c, c.groups) => even(a, c.groups)
  BY AssignedFacts
<1> HIDE DEF a
<1>3. /\ e \in Complete /\ e.num = c.num /\ e.groups = c.groups
      /\ balanced(e) /\ (balanced(a) => e = a)
      /\ \A old : (\A s \in Shard : a.shards[s] \in old) /\ even(a, old) =>
           \A s \in moved(a, e) : e.shards[s] \notin old
  BY <1>2, EvenedFacts
<1> HIDE DEF e
<1>4. \A f, g : count(f, g) \in Nat
  BY CountType
<1>5. even(e, c.groups)
  <2> SUFFICES ASSUME NEW g \in c.groups, NEW h \in c.groups
               PROVE  count(e, g) <= count(e, h) + 1
    BY DEF even
  <2>1. count(e, g) <= count(e, most(e)) /\ count(e, least(e)) <= count(e, h)
    BY <1>3, MostType, LeastType DEF Complete
  <2>2. count(e, most(e)) < count(e, least(e)) + 2
    BY <1>3 DEF balanced
  <2> QED BY <1>4, <2>1, <2>2
<1>6. ASSUME even(c, c.groups), NEW s \in Shard, c.shards[s] \in c.groups
      PROVE  e.shards[s] = c.shards[s]
  <2>1. most(a) \in c.groups /\ least(a) \in c.groups
    BY <1>2, MostType, LeastType DEF Complete
  <2>2. count(a, most(a)) <= count(a, least(a)) + 1
    BY <1>2, <1>6, <2>1 DEF even
  <2>3. balanced(a)
    BY <1>4, <2>2 DEF balanced
  <2> QED BY <1>2, <1>3, <1>6, <2>3
<1>7. ASSUME NEW old, \A s \in Shard : c.shards[s] \in old \cap c.groups, even(c, old)
      PROVE  \A s \in Shard : e.shards[s] # c.shards[s] => e.shards[s] \notin old
  <2>1. \A s \in Shard : a.shards[s] = c.shards[s]
    BY <1>2, <1>7
  <2>2. \A g : count(a, g) = count(c, g)
    <3> SUFFICES ASSUME NEW g
                 PROVE  {s \in Shard : a.shards[s] = g} = {s \in Shard : c.shards[s] = g}
      BY DEF count
    <3> QED BY <2>1
  <2>3. even(a, old)
    BY <1>7, <2>2 DEF even
  <2> QED BY <1>3, <1>7, <2>1, <2>3 DEF moved
<1> QED BY <1>1, <1>2, <1>3, <1>5, <1>6, <1>7

-----------------------------------------------------------------------------
\* Every configuration

\* A configuration is one, and the tests are content with it.  Without groups all shards
\* are unassigned; with groups they are all assigned and the groups are even.
ConfigInv == cfg \in ShardConfig /\ CheckConfig

\* A change keeps that, and moves only what it must.
LEMMA ChangeFacts ==
  ASSUME ConfigInv, NEW gids \in SUBSET Gid,
         \/ cfg' = JoinBalance(cfg, gids)
         \/ cfg' = LeaveBalance(cfg, gids)
  PROVE  /\ ConfigInv'
         /\ \A s \in Shard :
              cfg'.shards[s] # cfg.shards[s] /\ cfg.shards[s] \in cfg'.groups =>
                cfg'.shards[s] \notin cfg.groups
<1>1. cfg \in ShardConfig /\ cfg.num \in Nat /\ cfg.groups \in SUBSET Gid
  BY DEF ConfigInv, ShardConfig
<1>2. PICK c \in ShardConfig :
        /\ cfg' = Rebalance(c) /\ c.shards = cfg.shards
        /\ c.groups = cfg.groups \cup gids \/ c.groups = cfg.groups \ gids
  <2>1. Join(cfg, gids) \in ShardConfig /\ Leave(cfg, gids) \in ShardConfig
    BY <1>1 DEF Join, Leave, ShardConfig
  <2>2. /\ Join(cfg, gids).shards = cfg.shards /\ Leave(cfg, gids).shards = cfg.shards
        /\ Join(cfg, gids).groups = cfg.groups \cup gids
        /\ Leave(cfg, gids).groups = cfg.groups \ gids
    BY DEF Join, Leave
  <2> QED BY <2>1, <2>2 DEF JoinBalance, LeaveBalance
<1>3. \A g : count(c, g) = count(cfg, g)
  BY <1>2 DEF count
<1>4. CASE c.groups = {}
  <2>1. cfg' = [c EXCEPT !.shards = [s \in Shard |-> 0]]
    BY <1>2, <1>4 DEF Rebalance
  <2>2. cfg' \in ShardConfig /\ cfg'.groups = {} /\ \A s \in Shard : cfg'.shards[s] = 0
    BY <1>4, <2>1 DEF ShardConfig
  <2> QED BY <2>2 DEF ConfigInv, CheckConfig
<1>5. CASE c.groups # {}
  <2>1. /\ cfg' \in Complete /\ cfg'.groups = c.groups /\ even(cfg', c.groups)
        /\ even(c, c.groups) => \A s \in Shard :
             c.shards[s] \in c.groups => cfg'.shards[s] = c.shards[s]
        /\ \A old : (\A s \in Shard : c.shards[s] \in old \cap c.groups) /\ even(c, old) =>
             \A s \in Shard : cfg'.shards[s] # c.shards[s] => cfg'.shards[s] \notin old
    BY <1>2, <1>5, RebalanceFacts
  <2>2. ConfigInv'
    BY <1>5, <2>1 DEF ConfigInv, CheckConfig, Complete, even
  <2>3. CASE cfg.groups = {}
    <3>1. \A s \in Shard : cfg.shards[s] = 0 /\ 0 \notin Gid
      BY <2>3, CfgAssumption DEF ConfigInv, CheckConfig
    <3>2. cfg'.groups \in SUBSET Gid
      BY <2>1 DEF ShardConfig
    <3> QED BY <2>2, <3>1, <3>2
  <2>4. CASE cfg.groups # {}
    <3>1. even(c, cfg.groups) /\ \A s \in Shard : c.shards[s] \in cfg.groups
      BY <1>2, <1>3, <2>4 DEF ConfigInv, CheckConfig, even
    <3>2. CASE c.groups = cfg.groups \cup gids
      <4>1. \A s \in Shard : c.shards[s] \in cfg.groups \cap c.groups
        BY <3>1, <3>2
      <4> QED BY <1>2, <2>1, <2>2, <3>1, <4>1
    <3>3. CASE c.groups = cfg.groups \ gids
      <4>1. even(c, c.groups)
        BY <3>1, <3>3 DEF even
      <4> QED BY <1>2, <2>1, <2>2, <4>1
    <3> QED BY <1>2, <3>2, <3>3
  <2> QED BY <2>3, <2>4
<1> QED BY <1>4, <1>5

\* The invariant is inductive.
LEMMA ConfigInvariance == CfgSpec => []ConfigInv
<1>1. CfgInit => ConfigInv
  BY DEF CfgInit, MakeShardConfig, ConfigInv, CheckConfig, ShardConfig
<1>2. ConfigInv /\ [CfgNext]_cfgVars => ConfigInv'
  <2>1. ConfigInv /\ CfgNext => ConfigInv'
    BY ChangeFacts DEF CfgNext
  <2>2. ConfigInv /\ UNCHANGED cfgVars => ConfigInv'
    BY DEF cfgVars, ConfigInv, CheckConfig, count
  <2> QED BY <2>1, <2>2
<1> QED BY <1>1, <1>2, PTL DEF CfgSpec

\* Every shard is with a member, and no member has two shards more than another: the loop
\* of Rebalance (shardcfg.go:141-153) ends, and ends in balance.
THEOREM ConfigsPass == CfgSpec => []CheckConfig
<1>1. ConfigInv => CheckConfig
  BY DEF ConfigInv
<1> QED BY <1>1, ConfigInvariance, PTL

\* A shard leaves a group that stays only for one that has just joined, and when groups
\* leave only their own shards move (shardcfg.go:131-153).
THEOREM OnlyNecessaryMoves == CfgSpec => MovesOnlyWhatItMust
<1>1. ConfigInv /\ [CfgNext]_cfgVars =>
        [\A s \in Shard :
           cfg'.shards[s] # cfg.shards[s] /\ cfg.shards[s] \in cfg'.groups =>
             cfg'.shards[s] \notin cfg.groups]_cfgVars
  BY ChangeFacts DEF CfgNext
<1> QED BY <1>1, ConfigInvariance, PTL DEF CfgSpec, MovesOnlyWhatItMust

-----------------------------------------------------------------------------

=============================================================================
