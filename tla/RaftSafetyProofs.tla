-------------------------- MODULE RaftSafetyProofs --------------------------
(***************************************************************************)
(* Raft's log safety, for every number of peers, every set of commands and *)
(* every bound: logs match, leaders have all that is committed, and what   *)
(* is committed stays, through elections, truncated logs, snapshots and    *)
(* crashes.                                                                *)
(*                                                                         *)
(* What was committed is not in the state, so the invariant speaks of a    *)
(* past (RaftInvariants): there are leaders, logs of terms and             *)
(* acknowledgements that explain the state.  Each kind of step has a lemma *)
(* that extends the past and shows that it explains the next state.        *)
(***************************************************************************)
EXTENDS RaftTheorems

-----------------------------------------------------------------------------
\* Logs that agree, and logs that come from leaders' logs

\* Agreement on k entries is agreement on fewer, and an equivalence.
LEMMA AgreeLess ==
  ASSUME NEW f \in Seq(Entry), NEW g \in Seq(Entry), NEW k \in Int, NEW j \in Int,
         Agree(f, g, k), j <= k
  PROVE  Agree(f, g, j)
BY DEF Agree

\* and is symmetric,
LEMMA AgreeSym ==
  ASSUME NEW f \in Seq(Entry), NEW g \in Seq(Entry), NEW k \in Int, Agree(f, g, k)
  PROVE  Agree(g, f, k)
BY DEF Agree

\* transitive
LEMMA AgreeTrans ==
  ASSUME NEW f \in Seq(Entry), NEW g \in Seq(Entry), NEW h \in Seq(Entry), NEW k \in Int,
         Agree(f, g, k), Agree(g, h, k)
  PROVE  Agree(f, h, k)
BY DEF Agree

\* Two logs that both agree with a third agree with each other.
LEMMA AgreeBoth ==
  ASSUME NEW f \in Seq(Entry), NEW g \in Seq(Entry), NEW h \in Seq(Entry), NEW k \in Int,
         Agree(f, h, k), Agree(g, h, k)
  PROVE  Agree(f, g, k)
BY DEF Agree

\* and reflexive.
LEMMA AgreeSelf ==
  ASSUME NEW f \in Seq(Entry), NEW k \in Int, k <= Len(f)
  PROVE  Agree(f, f, k)
BY DEF Agree

\* What a log that agrees up to k holds up to there, the other holds too.
LEMMA HoldsAgree ==
  ASSUME NEW f \in Seq(Entry), NEW g \in Seq(Entry), NEW data \in Seq(Value), NEW j \in Int,
         NEW k \in Int, Agree(f, g, k), j <= k, Holds(data, g, j)
  PROVE  Holds(data, f, j)
BY DEF Agree, Holds

\* The types of the past, one application down
LEMMA PastTypes ==
  ASSUME NEW L, NEW W, NEW A, NEW F, HistoryTypes(L, W, A, F)
  PROVE  /\ \A t \in Nat : L[t] \in Seq(Entry) /\ Len(L[t]) \in Nat
         /\ \A t \in Nat : W[t] \in Server \cup {Nil}
         /\ \A v \in Server, t \in Nat : A[v][t] \in Nat
         /\ \A s \in Server : F[s] \in Seq(Entry) /\ Len(F[s]) \in Nat
<1>1. \A t \in Nat : L[t] \in Seq(Entry) /\ Len(L[t]) \in Nat
  BY DEF HistoryTypes
<1>2. \A t \in Nat : W[t] \in Server \cup {Nil}
  BY DEF HistoryTypes
<1>3. \A v \in Server, t \in Nat : A[v][t] \in Nat
  BY DEF HistoryTypes
<1>4. \A s \in Server : F[s] \in Seq(Entry) /\ Len(F[s]) \in Nat
  BY DEF HistoryTypes
<1> QED BY <1>1, <1>2, <1>3, <1>4

\* An entry of a log, and the leader that wrote it
LEMMA GrownEntry ==
  ASSUME NEW L, NEW W, NEW A, NEW F, HistoryTypes(L, W, A, F),
         NEW f \in Seq(Entry), NEW t \in Nat, Grown(L, W, f, t), NEW i \in 1 .. Len(f)
  PROVE  /\ f[i].term \in Nat /\ f[i].term \in 1 .. t /\ W[f[i].term] # Nil
         /\ L[f[i].term] \in Seq(Entry) /\ Agree(f, L[f[i].term], i)
<1>1. f[i].term \in 1 .. t /\ W[f[i].term] # Nil /\ Agree(f, L[f[i].term], i)
  BY DEF Grown
<1>2. f[i].term \in Nat
  BY <1>1
<1>3. L[f[i].term] \in Seq(Entry)
  BY <1>2 DEF HistoryTypes
<1> QED BY <1>1, <1>2, <1>3

\* Log matching: logs that have an entry of the same term at an index are the same up to it.
LEMMA GrownSame ==
  ASSUME NEW L, NEW W, NEW A, NEW F, HistoryTypes(L, W, A, F),
         NEW f \in Seq(Entry), NEW t \in Nat, Grown(L, W, f, t),
         NEW g \in Seq(Entry), NEW u \in Nat, Grown(L, W, g, u),
         NEW i \in Nat, i > 0, i <= Len(f), i <= Len(g), f[i].term = g[i].term
  PROVE  Agree(f, g, i)
<1>1. i \in 1 .. Len(f) /\ i \in 1 .. Len(g)
  OBVIOUS
<1>2. L[f[i].term] \in Seq(Entry) /\ Agree(f, L[f[i].term], i)
  BY <1>1, GrownEntry
<1>3. Agree(g, L[g[i].term], i)
  BY <1>1, GrownEntry
<1> QED BY <1>2, <1>3, AgreeBoth

\* Terms do not fall along a log.
LEMMA GrownTerms ==
  ASSUME NEW L, NEW W, NEW A, NEW F, HistoryTypes(L, W, A, F), TermLogs(L, W),
         NEW f \in Seq(Entry), NEW t \in Nat, Grown(L, W, f, t),
         NEW i \in 1 .. Len(f), NEW j \in 1 .. i
  PROVE  f[j].term <= f[i].term
<1> DEFINE u == f[i].term
<1>1. u \in Nat /\ L[u] \in Seq(Entry) /\ Agree(f, L[u], i)
  BY GrownEntry
<1> HIDE DEF u
<1>2. Grown(L, W, L[u], u)
  BY <1>1 DEF TermLogs
<1>3. j \in 1 .. Len(L[u]) /\ f[j] = L[u][j]
  BY <1>1 DEF Agree
<1>4. L[u][j].term \in 1 .. u
  BY <1>1, <1>2, <1>3, GrownEntry
<1> QED BY <1>1, <1>3, <1>4 DEF u

\* A log of a term is one of any later term.
LEMMA GrownLater ==
  ASSUME NEW L, NEW W, NEW f \in Seq(Entry), NEW t \in Nat, NEW u \in Nat, t <= u,
         Grown(L, W, f, t)
  PROVE  Grown(L, W, f, u)
BY DEF Grown

\* A part of the log of a term is grown too.
LEMMA GrownPart ==
  ASSUME NEW L, NEW W, NEW A, NEW F, HistoryTypes(L, W, A, F),
         NEW f \in Seq(Entry), NEW g \in Seq(Entry), NEW t \in Nat, Grown(L, W, g, t),
         Agree(f, g, Len(f))
  PROVE  Grown(L, W, f, t)
<1> SUFFICES ASSUME NEW i \in 1 .. Len(f)
             PROVE  f[i].term \in 1 .. t /\ W[f[i].term] # Nil /\ Agree(f, L[f[i].term], i)
  BY DEF Grown
<1>1. i \in 1 .. Len(g) /\ f[i] = g[i] /\ i \in Nat /\ i <= Len(f) /\ Len(f) \in Nat
  BY DEF Agree
<1>2. /\ g[i].term \in 1 .. t /\ W[g[i].term] # Nil /\ L[g[i].term] \in Seq(Entry)
      /\ Agree(g, L[g[i].term], i)
  BY <1>1, GrownEntry
<1>3. Agree(f, g, i)
  BY <1>1, AgreeLess
<1> QED BY <1>1, <1>2, <1>3, AgreeTrans

-----------------------------------------------------------------------------
\* Quorums

\* Those who elect and those who commit have a peer in common.
LEMMA QuorumsMeet ==
  ASSUME NEW P \in VoteQuorum, NEW Q \in CommitQuorum
  PROVE  \E v \in Server : v \in P /\ v \in Q
<1>1. P \subseteq Server /\ Q \subseteq Server
  BY DEF VoteQuorum, CommitQuorum
<1>2. IsFiniteSet(P) /\ IsFiniteSet(Q) /\ IsFiniteSet(Server)
  BY <1>1, ServerAssumption, FS_Subset
<1>3. Cardinality(P) \in Nat /\ Cardinality(Q) \in Nat /\ Cardinality(Server) \in Nat
  BY <1>2, FS_CardinalityType
<1>4. Cardinality(P) > Half /\ Cardinality(Q) >= Cardinality(Server) - Half
  BY DEF VoteQuorum, CommitQuorum
<1>5. Half \in Int
  BY <1>3 DEF Half
<1>6. Cardinality(P) + Cardinality(Q) > Cardinality(Server)
  BY <1>3, <1>4, <1>5
<1> QED BY <1>1, <1>2, <1>6, FS_MajoritiesIntersect

\* So do any two sets of peers that each elect a leader.
LEMMA VotesMeet ==
  ASSUME NEW P \in VoteQuorum, NEW Q \in VoteQuorum
  PROVE  \E v \in Server : v \in P /\ v \in Q
<1>1. P \subseteq Server /\ Q \subseteq Server
  BY DEF VoteQuorum
<1>2. IsFiniteSet(P) /\ IsFiniteSet(Q) /\ IsFiniteSet(Server)
  BY <1>1, ServerAssumption, FS_Subset
<1>3. Cardinality(P) \in Nat /\ Cardinality(Q) \in Nat /\ Cardinality(Server) \in Nat
  BY <1>2, FS_CardinalityType
<1>4. Cardinality(P) > Half /\ Cardinality(Q) > Half
  BY DEF VoteQuorum
<1>6. Cardinality(P) + Cardinality(Q) > Cardinality(Server)
  BY <1>3, <1>4 DEF Half
<1> QED BY <1>1, <1>2, <1>6, FS_MajoritiesIntersect

-----------------------------------------------------------------------------
\* What is committed

\* What is chosen is choosable.
LEMMA ChosenChoosable ==
  ASSUME NEW L, NEW A, NEW t, NEW i, Chosen(L, A, t, i)
  PROVE  Choosable(A, t, i)
BY DEF Chosen, Choosable

\* Fewer entries are committed as well, and in every later term.
LEMMA CommittedLess ==
  ASSUME NEW L, NEW W, NEW A, NEW F, HistoryTypes(L, W, A, F), NEW f \in Seq(Entry),
         NEW k \in Nat, NEW j \in Nat, NEW t \in Nat, NEW u \in Nat, j <= k, t <= u,
         Committed(L, A, f, k, t)
  PROVE  Committed(L, A, f, j, u)
<1>1. CASE j = 0
  BY <1>1 DEF Committed
<1>2. CASE j > 0
  <2>1. PICK w \in 0 .. t : \E i \in k .. Len(L[w]) : Chosen(L, A, w, i) /\ Agree(f, L[w], k)
    BY <1>2 DEF Committed
  <2>2. L[w] \in Seq(Entry) /\ w \in 0 .. u
    BY <2>1 DEF HistoryTypes
  <2>3. PICK i \in k .. Len(L[w]) : Chosen(L, A, w, i) /\ Agree(f, L[w], k)
    BY <2>1
  <2>4. Agree(f, L[w], j) /\ i \in j .. Len(L[w])
    BY <2>2, <2>3, AgreeLess
  <2> QED BY <2>2, <2>3, <2>4 DEF Committed
<1> QED BY <1>1, <1>2

\* The committed part of a log is inside it.
LEMMA CommittedLength ==
  ASSUME NEW L, NEW A, NEW f \in Seq(Entry), NEW k \in Nat, NEW t \in Nat, Committed(L, A, f, k, t)
  PROVE  k <= Len(f)
<1>1. Len(f) \in Nat
  OBVIOUS
<1> QED BY <1>1 DEF Committed, Agree

\* A log that agrees with one whose first k entries are committed has them committed.
LEMMA CommittedAgree ==
  ASSUME NEW L, NEW W, NEW A, NEW F, HistoryTypes(L, W, A, F), NEW f \in Seq(Entry),
         NEW g \in Seq(Entry), NEW k \in Nat, NEW t \in Nat, Agree(f, g, k),
         Committed(L, A, g, k, t)
  PROVE  Committed(L, A, f, k, t)
<1>1. CASE k = 0
  BY <1>1 DEF Committed
<1>2. CASE k > 0
  <2>1. PICK w \in 0 .. t : \E i \in k .. Len(L[w]) : Chosen(L, A, w, i) /\ Agree(g, L[w], k)
    BY <1>2 DEF Committed
  <2>2. L[w] \in Seq(Entry)
    BY <2>1 DEF HistoryTypes
  <2>3. PICK i \in k .. Len(L[w]) : Chosen(L, A, w, i) /\ Agree(g, L[w], k)
    BY <2>1
  <2>4. Agree(f, L[w], k)
    BY <2>2, <2>3, AgreeTrans
  <2> QED BY <2>3, <2>4 DEF Committed
<1> QED BY <1>1, <1>2

\* Leader completeness: the log of a later, or the same, term has what is committed.
LEMMA CommittedInLater ==
  ASSUME NEW L, NEW W, NEW A, NEW F, HistoryTypes(L, W, A, F), Safe(L, W, A),
         NEW f \in Seq(Entry), NEW k \in Nat, NEW t \in Nat, NEW u \in Nat, t <= u,
         W[u] # Nil, Committed(L, A, f, k, t)
  PROVE  Agree(f, L[u], k)
<1>0. L[u] \in Seq(Entry)
  BY DEF HistoryTypes
<1>1. CASE k = 0
  BY <1>0, <1>1 DEF Agree
<1>2. CASE k > 0
  <2>1. PICK w \in 0 .. t : \E i \in k .. Len(L[w]) : Chosen(L, A, w, i) /\ Agree(f, L[w], k)
    BY <1>2 DEF Committed
  <2>2. w \in Nat /\ w <= u /\ L[w] \in Seq(Entry)
    BY <2>1 DEF HistoryTypes
  <2>3. PICK i \in k .. Len(L[w]) : Chosen(L, A, w, i) /\ Agree(f, L[w], k)
    BY <2>1
  <2>4. CASE w = u
    BY <2>3, <2>4
  <2>5. CASE w < u
    <3>1. i \in 1 .. Len(L[w]) /\ L[w][i].term = w /\ Choosable(A, w, i)
      BY <2>3, ChosenChoosable DEF Chosen
    <3>2. Agree(L[u], L[w], i)
      BY <2>2, <2>5, <3>1 DEF Safe
    <3>3. Agree(L[u], L[w], k)
      BY <1>0, <2>2, <2>3, <3>2, AgreeLess
    <3> QED BY <1>0, <2>2, <2>3, <3>3, AgreeBoth
  <2> QED BY <2>2, <2>4, <2>5
<1> QED BY <1>1, <1>2

\* What is committed of two logs is the same.
LEMMA CommittedSame ==
  ASSUME NEW L, NEW W, NEW A, NEW F, HistoryTypes(L, W, A, F), Safe(L, W, A), TermLogs(L, W),
         NEW f \in Seq(Entry), NEW k \in Nat, NEW t \in Nat, Committed(L, A, f, k, t),
         NEW g \in Seq(Entry), NEW j \in Nat, NEW u \in Nat, Committed(L, A, g, j, u), j <= k
  PROVE  Agree(f, g, j)
<1>1. CASE j = 0
  BY <1>1 DEF Agree
<1>2. CASE j > 0
  <2>1. PICK w \in 0 .. t : \E i \in k .. Len(L[w]) : Chosen(L, A, w, i) /\ Agree(f, L[w], k)
    BY <1>2 DEF Committed
  <2>2. PICK x \in 0 .. u : \E i \in j .. Len(L[x]) : Chosen(L, A, x, i) /\ Agree(g, L[x], j)
    BY <1>2 DEF Committed
  <2>3. w \in Nat /\ x \in Nat /\ L[w] \in Seq(Entry) /\ L[x] \in Seq(Entry)
    BY <2>1, <2>2 DEF HistoryTypes
  <2>4. W[w] # Nil /\ W[x] # Nil
    BY <1>2, <2>1, <2>2, <2>3 DEF TermLogs
  <2>5. Committed(L, A, f, j, w)
    <3>1. Committed(L, A, f, k, w)
      BY <2>1, <2>3 DEF Committed
    <3> QED BY <2>3, <3>1, CommittedLess
  <2>6. Committed(L, A, g, j, x)
    BY <2>2, <2>3 DEF Committed
  <2>7. Agree(f, L[w], j) /\ Agree(g, L[x], j)
    BY <2>1, <2>2, <2>3, AgreeLess
  <2>8. CASE w <= x
    <3>1. Agree(f, L[x], j)
      BY <2>3, <2>4, <2>5, <2>8, CommittedInLater
    <3> QED BY <2>3, <2>7, <3>1, AgreeBoth
  <2>9. CASE x <= w
    <3>1. Agree(g, L[w], j)
      BY <2>3, <2>4, <2>6, <2>9, CommittedInLater
    <3> QED BY <2>3, <2>7, <3>1, AgreeBoth
  <2> QED BY <2>3, <2>8, <2>9
<1> QED BY <1>1, <1>2

-----------------------------------------------------------------------------
\* The past grows

\* How the past grows in a step: terms are won once, the logs of terms are only
\* extended, and a peer acknowledges only in the term it is in from now on.
Later(L, W, A, L2, W2, A2) ==
  /\ \A t \in Nat : W[t] # Nil => W2[t] = W[t]
  /\ \A t \in Nat : Agree(L[t], L2[t], Len(L[t]))
  /\ \A v \in Server, t \in Nat :
       /\ A2[v][t] >= A[v][t]
       /\ A2[v][t] = A[v][t] \/ (currentTerm[v] <= t /\ t = currentTerm'[v])

\* The past that stays as it was is a later one: nobody has to write or acknowledge.
LEMMA LaterSame ==
  ASSUME NEW L, NEW W, NEW A, NEW F, HistoryTypes(L, W, A, F)
  PROVE  Later(L, W, A, L, W, A)
<1>1. \A t \in Nat : L[t] \in Seq(Entry)
  BY DEF HistoryTypes
<1>2. \A t \in Nat : Agree(L[t], L[t], Len(L[t]))
  BY <1>1, AgreeSelf
<1>3. \A v \in Server, t \in Nat : A[v][t] \in Nat
  BY DEF HistoryTypes
<1> QED BY <1>2, <1>3 DEF Later

\* Agreement with the log of a term lasts.
LEMMA LaterAgree ==
  ASSUME NEW L, NEW W, NEW A, NEW F, HistoryTypes(L, W, A, F),
         NEW L2, NEW W2, NEW A2, NEW F2, HistoryTypes(L2, W2, A2, F2),
         Later(L, W, A, L2, W2, A2), NEW t \in Nat, NEW f \in Seq(Entry), NEW k \in Int,
         Agree(f, L[t], k)
  PROVE  Agree(f, L2[t], k)
<1>1. L[t] \in Seq(Entry) /\ L2[t] \in Seq(Entry) /\ Agree(L[t], L2[t], Len(L[t]))
  BY DEF HistoryTypes, Later
<1>2. k <= Len(L[t]) /\ Len(L[t]) \in Nat
  BY <1>1 DEF Agree
<1>3. Agree(L[t], L2[t], k)
  BY <1>1, <1>2, AgreeLess
<1> QED BY <1>1, <1>3, AgreeTrans

\* So do its entries.
LEMMA LaterEntry ==
  ASSUME NEW L, NEW W, NEW A, NEW F, HistoryTypes(L, W, A, F),
         NEW L2, NEW W2, NEW A2, NEW F2, HistoryTypes(L2, W2, A2, F2),
         Later(L, W, A, L2, W2, A2), NEW t \in Nat
  PROVE  /\ L[t] \in Seq(Entry) /\ L2[t] \in Seq(Entry) /\ Len(L[t]) \in Nat /\ Len(L2[t]) \in Nat
         /\ Len(L[t]) <= Len(L2[t]) /\ \A i \in 1 .. Len(L[t]) : L2[t][i] = L[t][i]
<1>1. L[t] \in Seq(Entry) /\ L2[t] \in Seq(Entry) /\ Agree(L[t], L2[t], Len(L[t]))
  BY DEF HistoryTypes, Later
<1> QED BY <1>1 DEF Agree

\* A log grown from the leaders' logs still is when those are extended.
LEMMA LaterGrown ==
  ASSUME NEW L, NEW W, NEW A, NEW F, HistoryTypes(L, W, A, F),
         NEW L2, NEW W2, NEW A2, NEW F2, HistoryTypes(L2, W2, A2, F2),
         Later(L, W, A, L2, W2, A2), NEW t \in Nat, NEW f \in Seq(Entry), Grown(L, W, f, t)
  PROVE  Grown(L2, W2, f, t)
<1> SUFFICES ASSUME NEW i \in 1 .. Len(f)
             PROVE  f[i].term \in 1 .. t /\ W2[f[i].term] # Nil /\ Agree(f, L2[f[i].term], i)
  BY DEF Grown
<1>1. f[i].term \in Nat /\ f[i].term \in 1 .. t /\ W[f[i].term] # Nil /\ Agree(f, L[f[i].term], i)
  BY GrownEntry
<1>2. W2[f[i].term] # Nil
  BY <1>1 DEF Later
<1> QED BY <1>1, <1>2, LaterAgree

\* What is chosen stays chosen
LEMMA LaterChosen ==
  ASSUME NEW L, NEW W, NEW A, NEW F, HistoryTypes(L, W, A, F),
         NEW L2, NEW W2, NEW A2, NEW F2, HistoryTypes(L2, W2, A2, F2),
         Later(L, W, A, L2, W2, A2), NEW t \in Nat, NEW i \in Int, Chosen(L, A, t, i)
  PROVE  Chosen(L2, A2, t, i)
<1>1. i \in 1 .. Len(L2[t]) /\ L2[t][i].term = t
  BY LaterEntry DEF Chosen
<1>2. PICK Q \in CommitQuorum : \A v \in Q : A[v][t] >= i
  BY DEF Chosen
<1>3. ASSUME NEW v \in Q PROVE A2[v][t] >= i
  <2>1. v \in Server
    BY <1>2 DEF CommitQuorum
  <2>2. A[v][t] \in Nat /\ A2[v][t] \in Nat
    BY <2>1, PastTypes
  <2>3. A2[v][t] >= A[v][t]
    BY <2>1 DEF Later
  <2>4. A[v][t] >= i
    BY <1>2, <1>3
  <2> QED BY <2>2, <2>3, <2>4
<1> QED BY <1>1, <1>2, <1>3 DEF Chosen

\* and what is committed stays committed.
LEMMA LaterCommitted ==
  ASSUME NEW L, NEW W, NEW A, NEW F, HistoryTypes(L, W, A, F),
         NEW L2, NEW W2, NEW A2, NEW F2, HistoryTypes(L2, W2, A2, F2),
         Later(L, W, A, L2, W2, A2), NEW t \in Nat, NEW f \in Seq(Entry), NEW k \in Nat,
         Committed(L, A, f, k, t)
  PROVE  Committed(L2, A2, f, k, t)
<1>1. CASE k = 0
  BY <1>1 DEF Committed
<1>2. CASE k > 0
  <2>1. PICK w \in 0 .. t : \E i \in k .. Len(L[w]) : Chosen(L, A, w, i) /\ Agree(f, L[w], k)
    BY <1>2 DEF Committed
  <2>2. w \in Nat
    BY <2>1
  <2>3. PICK i \in k .. Len(L[w]) : Chosen(L, A, w, i) /\ Agree(f, L[w], k)
    BY <2>1
  <2>4. Chosen(L2, A2, w, i) /\ Agree(f, L2[w], k)
    BY <2>2, <2>3, LaterChosen, LaterAgree
  <2>5. i \in k .. Len(L2[w])
    BY <2>2, <2>3, LaterEntry
  <2> QED BY <2>4, <2>5 DEF Committed
<1> QED BY <1>1, <1>2

\* An index that can be chosen after the step could be chosen before.
LEMMA LaterChoosable ==
  ASSUME Inv, Inv', Next,
         NEW L, NEW W, NEW A, NEW F, HistoryTypes(L, W, A, F),
         NEW L2, NEW W2, NEW A2, NEW F2, HistoryTypes(L2, W2, A2, F2),
         Later(L, W, A, L2, W2, A2), NEW t \in Nat, NEW i \in Nat, Choosable(A2, t, i)'
  PROVE  Choosable(A, t, i)
<1>1. PICK Q \in CommitQuorum : \A v \in Q : currentTerm'[v] <= t \/ A2[v][t] >= i
  BY DEF Choosable, CommitQuorum
<1>2. ASSUME NEW v \in Q PROVE currentTerm[v] <= t \/ A[v][t] >= i
  <2>1. v \in Server
    BY <1>1 DEF CommitQuorum
  <2>2. currentTerm[v] \in Nat /\ currentTerm'[v] \in Nat /\ currentTerm'[v] >= currentTerm[v]
    BY <2>1, TermGrows DEF Inv
  <2>3. A2[v][t] = A[v][t] \/ currentTerm[v] <= t
    BY <2>1 DEF Later
  <2> QED BY <1>1, <2>2, <2>3
<1> QED BY <1>1, <1>2 DEF Choosable

-----------------------------------------------------------------------------
\* Winners

\* A term that is won stays won.
LEMMA WonByStep ==
  ASSUME Inv, Inv', Next, NEW w \in Server, NEW t \in Nat, WonBy(w, t)
  PROVE  WonBy(w, t)'
<1>1. /\ currentTerm[w] \in Nat /\ currentTerm'[w] \in Nat /\ currentTerm'[w] >= currentTerm[w]
      /\ t <= currentTerm[w] /\ (currentTerm[w] = t => state[w] # "Candidate")
  BY TermGrows DEF Inv, WonBy
<1>2. currentTerm'[w] = t => state'[w] # "Candidate"
  <2>1. Advances(w)
    BY AdvancesStep DEF Inv
  <2> QED BY <1>1, <2>1 DEF Advances
<1>3. PICK Q \in VoteQuorum : \A v \in Q : Voted(v, w, t) /\ \A c \in Server : Backs(v, c, t) => c = w
  BY DEF WonBy
<1>4. ASSUME NEW v \in Q PROVE Voted(v, w, t)' /\ \A c \in Server : Backs(v, c, t)' => c = w
  <2>1. v \in Server /\ w # Nil
    BY <1>3, ServerAssumption DEF VoteQuorum
  <2>2. VoteAt(v)
    BY <2>1, VoteStepHolds DEF Inv, VoteStep, VoteAt
  <2>3. currentTerm[v] \in Nat /\ currentTerm'[v] \in Nat /\ Voted(v, w, t)
    BY <1>3, <2>1, TermGrows DEF Inv
  <2>4. Voted(v, w, t)'
    BY <2>1, <2>2, <2>3 DEF Voted, VoteAt
  <2>5. ASSUME NEW c \in Server, Backs(v, c, t)' PROVE c = w
    <3>1. CASE Backs(v, c, t)
      BY <1>3, <3>1
    <3>2. CASE Gives(v, c, t)
      BY <2>1, <2>2, <2>3, <3>2 DEF Gives, Voted, VoteAt
    <3> QED BY <2>1, <2>5, <3>1, <3>2, BacksStep DEF Inv
  <2> QED BY <2>4, <2>5
<1>5. \E R \in VoteQuorum : \A v \in R : Voted(v, w, t)' /\ \A c \in Server : Backs(v, c, t)' => c = w
  BY <1>3, <1>4
<1> QED BY <1>1, <1>2, <1>5 DEF WonBy, VoteQuorum

-----------------------------------------------------------------------------
\* Candidates

\* A peer that is a candidate after the step was one of the same term before, or it
\* has just started out.
LEMMA CandidateStep ==
  ASSUME Inv, Next, NEW c \in Server, state'[c] = "Candidate"
  PROVE  \/ state[c] = "Candidate" /\ currentTerm'[c] = currentTerm[c]
         \/ \E sent \in SUBSET Server : startElection(c, sent)
<1> USE DEF Inv
<1>1. ASSUME NEW s \in Server, NEW sent \in SUBSET (Server \ {s}), startElection(s, sent)
      PROVE  \/ state[c] = "Candidate" /\ currentTerm'[c] = currentTerm[c]
             \/ \E more \in SUBSET Server : startElection(c, more)
  <2>1. sent \in SUBSET Server
    OBVIOUS
  <2>2. CASE c = s
    BY <1>1, <2>1, <2>2
  <2>3. CASE c # s
    BY <1>1, <2>3 DEF startElection, TypeOK, ElectTypeOK
  <2> QED BY <2>2, <2>3
<1>2. ASSUME Settled(c) PROVE state[c] = "Candidate" /\ currentTerm'[c] = currentTerm[c]
  BY <1>2 DEF Settled
<1>3. ASSUME NEW m \in voteReq, RequestVote(m) PROVE Settled(c)
  BY <1>3, RequestVoteSettled
<1>4. ASSUME NEW m \in voteRep, handleVoteReply(m)
      PROVE  state[c] = "Candidate" /\ currentTerm'[c] = currentTerm[c]
  <2>1. CASE Quiet
    BY <1>2, <2>1 DEF Quiet
  <2>2. CASE /\ UNCHANGED currentTerm
             /\ state' = [state EXCEPT ![m.dst] = "Leader"] \/ UNCHANGED state
    BY <2>2 DEF TypeOK, ElectTypeOK
  <2> QED BY <1>4, <2>1, <2>2, HandleVoteReplyCases
<1> QED BY <1>1, <1>2, <1>3, <1>4, ElectionSteps DEF Quiet

\* The end of the whole log is the end of the physical one.
LEMMA WholeLast ==
  ASSUME TypeOK, SnapshotChain, NEW F, F \in [Server -> Seq(Entry)], NEW s \in Server, WholeAt(F, s)
  PROVE  F[s] \in Seq(Entry) /\ lastIndex(s) = Len(F[s]) /\ lastTerm(s) = TermOf(F[s])
<1>1. /\ F[s] \in Seq(Entry) /\ lastIndex(s) = Len(F[s]) /\ Len(F[s]) \in Nat
      /\ Len(log[s]) \in Nat /\ Len(log[s]) >= 1 /\ lastIncludeIndex[s] \in Nat
  BY DEF WholeAt, TypeOK, LogTypeOK
<1>n. /\ Len(F[s]) \in Nat /\ Len(log[s]) \in Nat /\ Len(log[s]) >= 1 /\ lastIncludeIndex[s] \in Nat
      /\ Len(F[s]) = Len(log[s]) + lastIncludeIndex[s] - 1
  BY <1>1 DEF WholeAt, lastIndex
<1>2. CASE Len(F[s]) > lastIncludeIndex[s]
  <2>1. entry(s, lastIndex(s)) = F[s][lastIndex(s)]
    BY <1>1, <1>2 DEF WholeAt
  <2>2. logIdx(s, lastIndex(s)) = Len(log[s])
    BY <1>n DEF WholeAt, logIdx
  <2> QED BY <1>1, <1>2, <2>1, <2>2 DEF lastTerm, TermOf, entry
<1>3. CASE Len(F[s]) <= lastIncludeIndex[s]
  <2>1. Len(log[s]) = 1 /\ Len(F[s]) = lastIncludeIndex[s]
    <3> DEFINE a == Len(F[s])
               b == Len(log[s])
               i == lastIncludeIndex[s]
    <3>1. a \in Nat /\ b \in Nat /\ i \in Nat /\ b >= 1 /\ a = b + i - 1 /\ a <= i
      BY <1>3, <1>n
    <3> HIDE DEF a, b, i
    <3>2. b = 1 /\ a = i
      BY <3>1
    <3> QED BY <3>2 DEF a, b, i
  <2>2. lastTerm(s) = lastIncludeTerm[s]
    BY <2>1 DEF lastTerm, SnapshotChain
  <2> QED BY <1>1, <2>1, <2>2 DEF WholeAt, TermOf
<1> QED BY <1>1, <1>2, <1>3

\* The requests of a candidate go on to describe its log.
LEMMA AskingStep ==
  ASSUME Inv, Next, NEW L, NEW W, NEW A, NEW F, HistoryTypes(L, W, A, F),
         \A s \in Server : WholeAt(F, s), Asking(F),
         NEW F2, \A c \in Server : state'[c] = "Candidate" => F2[c] = F[c]
  PROVE  Asking(F2)'
<1> USE DEF Inv
<1> SUFFICES ASSUME NEW m \in voteReq', state'[m.src] = "Candidate", currentTerm'[m.src] = m.term
             PROVE  m.lastLogIndex = Len(F2[m.src]) /\ m.lastLogTerm = TermOf(F2[m.src])
  BY DEF Asking
<1> DEFINE c == m.src
<1>1. CASE m \in voteReq
  <2>1. c \in Server /\ m.term <= currentTerm[c] /\ currentTerm[c] \in Nat
    BY <1>1 DEF AskedOnce, RequestOnce, TypeOK, NetTypeOK, RequestVoteArgs, ElectTypeOK
  <2>2. ~ \E sent \in SUBSET Server : startElection(c, sent)
    BY <2>1 DEF startElection, TypeOK, ElectTypeOK
  <2>3. state[c] = "Candidate" /\ currentTerm[c] = m.term
    BY <2>1, <2>2, CandidateStep
  <2>4. F2[c] = F[c]
    BY <2>1
  <2> QED BY <1>1, <2>3, <2>4 DEF Asking
<1>2. CASE m \notin voteReq
  <2>1. PICK s \in Server : \E sent \in SUBSET (Server \ {s}) : startElection(s, sent)
    <3>1. ASSUME NEW n \in voteReq, RequestVote(n) PROVE FALSE
      BY <1>2, <3>1 DEF RequestVote
    <3>2. ASSUME NEW n \in voteRep, handleVoteReply(n) PROVE FALSE
      BY <1>2, <3>2 DEF handleVoteReply
    <3>3. ~ Quiet
      BY <1>2 DEF Quiet
    <3> QED BY <3>1, <3>2, <3>3, ElectionSteps
  <2>2. m.src = s /\ m.lastLogIndex = lastIndex(s) /\ m.lastLogTerm = lastTerm(s)
    BY <1>2, <2>1 DEF startElection
  <2>3. lastIndex(s) = Len(F[s]) /\ lastTerm(s) = TermOf(F[s])
    BY WholeLast DEF HistoryTypes
  <2> QED BY <2>2, <2>3
<1> QED BY <1>1, <1>2

\* The candidate that a peer votes for has what that peer may have made a commit of:
\* its last entry is of a later term, or of the same term and not before the voter's.
LEMMA BackedByGrant ==
  ASSUME Inv, NEW L, NEW W, NEW A, NEW F, HistoryTypes(L, W, A, F),
         TermLogs(L, W), PeerLogs(L, W, F), Acks(L, W, A, F), Safe(L, W, A),
         NEW v \in Server, NEW c \in Server,
         \/ TermOf(F[c]) > TermOf(F[v])
         \/ TermOf(F[c]) = TermOf(F[v]) /\ Len(F[c]) >= Len(F[v]),
         NEW t \in Nat, NEW i \in 1 .. A[v][t], L[t][i].term = t, Choosable(A, t, i)
  PROVE  Agree(F[c], L[t], i)
<1>0. /\ F[v] \in Seq(Entry) /\ F[c] \in Seq(Entry) /\ L[t] \in Seq(Entry) /\ A[v][t] \in Nat
      /\ Len(F[v]) \in Nat /\ Len(F[c]) \in Nat /\ Len(L[t]) \in Nat
      /\ currentTerm[v] \in Nat /\ currentTerm[c] \in Nat /\ i \in Nat /\ i >= 1
  <2>1. /\ F[v] \in Seq(Entry) /\ F[c] \in Seq(Entry) /\ L[t] \in Seq(Entry) /\ A[v][t] \in Nat
        /\ Len(F[v]) \in Nat /\ Len(F[c]) \in Nat /\ Len(L[t]) \in Nat
    BY PastTypes
  <2>2. currentTerm[v] \in Nat /\ currentTerm[c] \in Nat
    BY DEF Inv, TypeOK, ElectTypeOK
  <2>3. i \in Nat /\ i >= 1
    BY <2>1
  <2> QED BY <2>1, <2>2, <2>3
<1>1. Agree(F[v], L[t], i) /\ A[v][t] <= Len(L[t])
  BY <1>0 DEF Acks, AckAt
<1>2. /\ Grown(L, W, F[v], currentTerm[v]) /\ Grown(L, W, F[c], currentTerm[c])
      /\ Grown(L, W, L[t], t)
  BY DEF PeerLogs, TermLogs
<1>3. i <= Len(F[v]) /\ F[v][i] = L[t][i] /\ i <= Len(L[t])
  BY <1>0, <1>1 DEF Agree
<1>4. TermOf(F[v]) = F[v][Len(F[v])].term /\ TermOf(F[v]) >= t /\ TermOf(F[v]) \in Nat
  <2>1. Len(F[v]) \in 1 .. Len(F[v]) /\ i \in 1 .. Len(F[v])
    BY <1>0, <1>3
  <2>2. F[v][i].term <= F[v][Len(F[v])].term
    BY <1>0, <1>2, <2>1, GrownTerms
  <2>3. F[v][Len(F[v])].term \in Nat
    BY <1>0, <1>2, <2>1, GrownEntry
  <2>4. TermOf(F[v]) = F[v][Len(F[v])].term
    BY <2>1 DEF TermOf
  <2> QED BY <1>3, <2>2, <2>3, <2>4
<1>5. CASE TermOf(F[c]) = TermOf(F[v]) /\ Len(F[c]) >= Len(F[v])
  <2> DEFINE n == Len(F[v])
             u == TermOf(F[v])
  <2>1. Len(F[c]) \in 1 .. Len(F[c]) /\ n \in 1 .. Len(F[v])
    BY <1>0, <1>3, <1>5
  <2>2. F[c][Len(F[c])].term = u /\ F[v][n].term = u
    BY <1>4, <1>5, <2>1 DEF TermOf
  <2>3. L[u] \in Seq(Entry) /\ Agree(F[v], L[u], n)
    BY <1>0, <1>2, <2>1, <2>2, GrownEntry
  <2>4. Agree(F[c], L[u], Len(F[c]))
    BY <1>0, <1>2, <2>1, <2>2, GrownEntry
  <2> HIDE DEF u
  <2>5. Agree(F[c], L[u], i) /\ Agree(F[v], L[u], i)
    BY <1>0, <1>3, <1>5, <2>3, <2>4, AgreeLess
  <2>6. Agree(F[c], F[v], i)
    BY <1>0, <2>3, <2>5, AgreeBoth
  <2> QED BY <1>0, <1>1, <2>6, AgreeTrans
<1>6. CASE TermOf(F[c]) > TermOf(F[v])
  <2> DEFINE n == Len(F[c])
             u == TermOf(F[c])
  <2>1. n \in 1 .. Len(F[c]) /\ F[c][n].term = u
    <3>1. n # 0
      BY <1>4, <1>6 DEF TermOf
    <3> QED BY <1>0, <3>1 DEF TermOf
  <2>2. u \in Nat /\ W[u] # Nil /\ L[u] \in Seq(Entry) /\ Agree(F[c], L[u], n)
    BY <1>0, <1>2, <2>1, GrownEntry
  <2> HIDE DEF u
  <2>3. t < u
    BY <1>4, <1>6, <2>2 DEF u
  <2>4. Agree(L[u], L[t], i)
    BY <1>0, <1>3, <2>2, <2>3 DEF Safe
  <2>5. i <= n
    <3> SUFFICES ASSUME n < i PROVE FALSE
      BY <1>0
    <3>1. F[c][n] = L[u][n]
      BY <2>1, <2>2 DEF Agree
    <3>4. L[u][n] = L[t][n]
      BY <1>0, <2>1, <2>4 DEF Agree
    <3>2. n \in 1 .. Len(L[t])
      BY <1>0, <1>3, <2>1
    <3>3. L[t][n].term \in 1 .. t
      BY <1>0, <1>2, <3>2, GrownEntry
    <3> QED BY <1>0, <2>1, <2>2, <2>3, <3>1, <3>3, <3>4
  <2>6. Agree(F[c], L[u], i)
    BY <1>0, <2>2, <2>5, AgreeLess
  <2> QED BY <1>0, <2>2, <2>4, <2>6, AgreeTrans
<1> QED BY <1>5, <1>6

\* A candidate goes on to have what its voters may have made a commit of.
LEMMA BackingStep ==
  ASSUME Inv, Inv', Next, NEW L, NEW W, NEW A, NEW F, HistoryTypes(L, W, A, F),
         \A s \in Server : WholeAt(F, s), TermLogs(L, W), PeerLogs(L, W, F),
         Acks(L, W, A, F), Safe(L, W, A), Asking(F), Backing(L, A, F),
         NEW L2, NEW W2, NEW A2, NEW F2, HistoryTypes(L2, W2, A2, F2),
         Later(L, W, A, L2, W2, A2), \A c \in Server : state'[c] = "Candidate" => F2[c] = F[c]
  PROVE  Backing(L2, A2, F2)'
<1> SUFFICES ASSUME NEW v \in Server, NEW c \in Server, state'[c] = "Candidate",
                    Backs(v, c, currentTerm[c])', NEW t \in Nat, t < currentTerm'[c],
                    NEW i \in 1 .. A2[v][t], L2[t][i].term = t, Choosable(A2, t, i)'
             PROVE  Agree(F2[c], L2[t], i)
  BY DEF Backing, BackedAt
<1>0. /\ TypeOK /\ PersistComplete /\ SnapshotChain /\ AskedOnce /\ VotesGiven
      /\ TypeOK' /\ VotesGiven'
  BY DEF Inv
<1>t. PICK T \in Nat : T = currentTerm'[c]
  BY <1>0, TermGrows
<1>1. /\ currentTerm[c] \in Nat /\ T >= currentTerm[c]
      /\ currentTerm[v] \in Nat /\ currentTerm'[v] \in Nat
  BY <1>0, <1>t, TermGrows
<1>2. A2[v][t] \in Nat /\ A[v][t] \in Nat /\ F[c] \in Seq(Entry) /\ i \in Nat /\ i >= 1
  <2>1. A2[v][t] \in Nat /\ A[v][t] \in Nat /\ F[c] \in Seq(Entry)
    BY PastTypes
  <2> QED BY <2>1
<1>3. Backs(v, c, T)'
  BY <1>t DEF Backs
<1>4. currentTerm'[v] >= T
  <2>1. Voted(v, c, T)'
    BY <1>0, <1>1, <1>3 DEF VotesGiven
  <2> QED BY <1>1, <2>1 DEF Voted
<1>5. i \in 1 .. A[v][t]
  <2>1. A2[v][t] = A[v][t]
    BY <1>t, <1>1, <1>4 DEF Later
  <2> QED BY <2>1
<1>6. A[v][t] <= Len(L[t]) /\ Choosable(A, t, i)
  BY <1>2, <1>5, LaterChoosable DEF Acks, AckAt
<1>7. L[t][i].term = t
  <2>1. i \in 1 .. Len(L[t])
    BY <1>2, <1>5, <1>6, PastTypes
  <2> QED BY <2>1, LaterEntry
<1>8. F2[c] = F[c]
  OBVIOUS
<1>9. Agree(F[c], L[t], i)
  <2>1. CASE \E sent \in SUBSET Server : startElection(c, sent)
    <3>1. PICK sent \in SUBSET Server : startElection(c, sent)
      BY <2>1
    <3>2. T = currentTerm[c] + 1
      BY <1>0, <1>t, <3>1 DEF startElection, TypeOK, ElectTypeOK
    <3>3. ~ Backs(v, c, T)
      BY <1>0, <1>1, <3>2 DEF Backs, AskedOnce, ReplyOnce, TypeOK, NetTypeOK, RequestVoteReply
    <3>4. v = c
      BY <1>0, <1>1, <1>3, <3>1, <3>3, BacksStart
    <3> QED BY <1>2, <1>5, <1>6, <1>7, <3>4 DEF Acks, AckAt
  <2>2. CASE state[c] = "Candidate" /\ T = currentTerm[c]
    <3>1. CASE Backs(v, c, T)
      BY <1>5, <1>6, <1>7, <2>2, <1>t, <3>1 DEF Backing, BackedAt
    <3>2. ASSUME NEW m \in voteReq, RequestVote(m), ~ Backs(v, c, T)
          PROVE  Agree(F[c], L[t], i)
      <4>1. v = m.dst /\ c = m.src /\ T = m.term /\ canGrant(m.dst, m)
        BY <1>0, <1>1, <1>3, <3>2, BacksGranted
      <4>2. upToDate(v, m)
        BY <4>1 DEF canGrant
      <4>3. m.lastLogIndex = Len(F[c]) /\ m.lastLogTerm = TermOf(F[c])
        BY <2>2, <4>1 DEF Asking
      <4>4. lastIndex(v) = Len(F[v]) /\ lastTerm(v) = TermOf(F[v])
        BY <1>0, WholeLast DEF HistoryTypes
      <4> QED BY <1>5, <1>6, <1>7, <4>2, <4>3, <4>4, BackedByGrant DEF upToDate
    <3>3. ASSUME NEW m \in voteRep, handleVoteReply(m) PROVE Backs(v, c, T)
      BY <1>0, <1>1, <1>3, <3>3, BacksCounted
    <3>4. ASSUME Quiet PROVE Backs(v, c, T)
      BY <1>1, <1>3, <3>4, BacksQuiet DEF Quiet
    <3>5. ASSUME NEW s \in Server, NEW sent, startElection(s, sent) PROVE Backs(v, c, T)
      <4>1. T # currentTerm[c] + 1
        BY <1>1, <2>2
      <4> QED BY <1>0, <1>1, <1>3, <3>5, <4>1, BacksStart
    <3> QED BY <1>0, <3>1, <3>2, <3>3, <3>4, <3>5, ElectionSteps
  <2> QED BY <1>t, <2>1, <2>2, CandidateStep
<1> QED BY <1>2, <1>8, <1>9, LaterAgree

-----------------------------------------------------------------------------
\* Requests

\* Sound requests stay sound.
LEMMA AppendSoundLater ==
  ASSUME NEW L, NEW W, NEW A, NEW F, HistoryTypes(L, W, A, F),
         NEW L2, NEW W2, NEW A2, NEW F2, HistoryTypes(L2, W2, A2, F2),
         Later(L, W, A, L2, W2, A2), NEW m \in AppendEntriesArgs, AppendSound(L, W, A, m)
  PROVE  AppendSound(L2, W2, A2, m)
<1>1. /\ m.src \in Server /\ m.term \in Nat /\ m.prevLogIndex \in Nat /\ m.leaderCommit \in Nat
      /\ m.entries \in Seq(Entry) /\ Len(m.entries) \in Nat
  BY DEF AppendEntriesArgs
<1>2. /\ L[m.term] \in Seq(Entry) /\ Len(L[m.term]) \in Nat /\ Len(L2[m.term]) \in Nat
      /\ L2[m.term] \in Seq(Entry)
      /\ Len(L[m.term]) <= Len(L2[m.term])
      /\ \A i \in 1 .. Len(L[m.term]) : L2[m.term][i] = L[m.term][i]
  BY <1>1, LaterEntry
<1>3. W2[m.term] = m.src
  <2>1. W[m.term] # Nil
    BY <1>1, ServerAssumption DEF AppendSound
  <2> QED BY <1>1, <2>1 DEF Later, AppendSound
<1>4. m.prevLogIndex + Len(m.entries) <= Len(L[m.term])
  BY DEF AppendSound
<1>5. ASSUME m.prevLogIndex # 0 PROVE L2[m.term][m.prevLogIndex] = L[m.term][m.prevLogIndex]
  <2>1. m.prevLogIndex \in 1 .. Len(L[m.term])
    BY <1>1, <1>2, <1>4, <1>5
  <2> QED BY <1>2, <2>1
<1>6. \A k \in 1 .. Len(m.entries) : m.entries[k] = L2[m.term][m.prevLogIndex + k]
  <2> TAKE k \in 1 .. Len(m.entries)
  <2>1. m.prevLogIndex + k \in 1 .. Len(L[m.term])
    BY <1>1, <1>2, <1>4
  <2> QED BY <1>2, <2>1 DEF AppendSound
<1>7. Committed(L2, A2, L2[m.term], m.leaderCommit, m.term)
  <2>1. Committed(L2, A2, L[m.term], m.leaderCommit, m.term)
    BY <1>1, <1>2, LaterCommitted DEF AppendSound
  <2>2. m.leaderCommit <= Len(L[m.term])
    BY <1>1, <1>2, <2>1, CommittedLength
  <2>3. Agree(L2[m.term], L[m.term], m.leaderCommit)
    BY <1>1, <1>2, <2>2 DEF Agree
  <2> QED BY <1>1, <1>2, <2>1, <2>3, CommittedAgree
<1>8. m.prevLogIndex + Len(m.entries) <= Len(L2[m.term])
  BY <1>1, <1>2, <1>4
<1>9. m.prevLogTerm = IF m.prevLogIndex = 0 THEN 0 ELSE L2[m.term][m.prevLogIndex].term
  BY <1>5 DEF AppendSound
<1> QED BY <1>3, <1>6, <1>7, <1>8, <1>9 DEF AppendSound

\* also those that carry a snapshot.
LEMMA InstallSoundLater ==
  ASSUME NEW L, NEW W, NEW A, NEW F, HistoryTypes(L, W, A, F),
         NEW L2, NEW W2, NEW A2, NEW F2, HistoryTypes(L2, W2, A2, F2),
         Later(L, W, A, L2, W2, A2), NEW m \in InstallSnapshotArgs, InstallSound(L, W, A, m)
  PROVE  InstallSound(L2, W2, A2, m)
<1> DEFINE n == m.lastIncludeIndex
<1>1. m.src \in Server /\ m.term \in Nat /\ n \in Nat /\ n > 0 /\ m.data \in Seq(Value)
  BY DEF InstallSnapshotArgs, InstallSound
<1>2. /\ L[m.term] \in Seq(Entry) /\ L2[m.term] \in Seq(Entry)
      /\ Len(L[m.term]) \in Nat /\ Len(L2[m.term]) \in Nat
      /\ Len(L[m.term]) <= Len(L2[m.term])
      /\ \A i \in 1 .. Len(L[m.term]) : L2[m.term][i] = L[m.term][i]
  BY <1>1, LaterEntry
<1>3. W2[m.term] = m.src
  <2>1. W[m.term] # Nil
    BY <1>1, ServerAssumption DEF InstallSound
  <2> QED BY <1>1, <2>1 DEF Later, InstallSound
<1>4. n <= Len(L[m.term]) /\ Agree(L2[m.term], L[m.term], n)
  <2>1. n <= Len(L[m.term])
    BY DEF InstallSound, Holds
  <2> QED BY <1>1, <1>2, <2>1 DEF Agree
<1>5. Holds(m.data, L2[m.term], n)
  BY <1>1, <1>2, <1>4, HoldsAgree DEF InstallSound
<1>6. Committed(L2, A2, L2[m.term], n, m.term)
  <2>1. Committed(L2, A2, L[m.term], n, m.term)
    BY <1>1, <1>2, LaterCommitted DEF InstallSound
  <2> QED BY <1>1, <1>2, <1>4, <2>1, CommittedAgree
<1>7. L2[m.term][n] = L[m.term][n]
  BY <1>1, <1>2, <1>4
<1> QED BY <1>1, <1>3, <1>5, <1>6, <1>7 DEF InstallSound

\* A retained entry, the sentinel included, has the term of the whole log's.
LEMMA WholeTerm ==
  ASSUME TypeOK, SnapshotChain, NEW F, NEW s \in Server, WholeAt(F, s),
         NEW i \in Nat, lastIncludeIndex[s] <= i, i <= lastIndex(s)
  PROVE  entry(s, i).term = IF i = 0 THEN 0 ELSE F[s][i].term
<1>1. lastIncludeIndex[s] \in Nat /\ lastIndex(s) \in Nat
  BY LastTypes DEF TypeOK, LogTypeOK
<1>2. CASE i > lastIncludeIndex[s]
  <2>1. i \in lastIncludeIndex[s] + 1 .. lastIndex(s) /\ i # 0
    BY <1>1, <1>2
  <2> QED BY <2>1 DEF WholeAt
<1>3. CASE i = lastIncludeIndex[s]
  <2>1. logIdx(s, i) = 1
    BY <1>1, <1>3 DEF logIdx
  <2>2. entry(s, i).term = lastIncludeTerm[s]
    BY <2>1 DEF entry, SnapshotChain
  <2> QED BY <1>3, <2>2 DEF WholeAt
<1> QED BY <1>1, <1>2, <1>3

\* What a leader sends is a part of the log of its term.
LEMMA AppendSent ==
  ASSUME Inv, NEW L, NEW W, NEW A, NEW F, HistoryTypes(L, W, A, F), NEW s \in Server,
         WholeAt(F, s), LeaderAt(L, W, A, F, s), Commits(L, A, F),
         NEW p \in Server, sendAppendEntries(s, p), NEW m \in appReq', m \notin appReq
  PROVE  AppendSound(L, W, A, m)
<1> USE DEF Inv
<1> DEFINE next == nextIndex[s][p]
           hi == MinOf(lastIndex(s) + 1, next + maxBatchSize)
           es == entries(s, next, hi)
           t == currentTerm[s]
<1>1. /\ next \in Nat /\ next <= lastIndex(s) + 1 /\ lastIndex(s) \in Nat /\ next >= 1
      /\ lastIncludeIndex[s] \in Nat /\ next > lastIncludeIndex[s]
  BY LastTypes DEF NextIndexInRange, sendAppendEntries, TypeOK, LeadTypeOK, LogTypeOK
<1>2. hi \in Nat /\ hi <= lastIndex(s) + 1 /\ next <= hi
  BY <1>1, BoundsAssumption DEF MinOf
<1>3. Len(es) = hi - next
  BY <1>1, <1>2, EntriesType DEF TypeOK
<1>4. /\ m.src = s /\ m.term = t /\ m.prevLogIndex = next - 1 /\ m.entries = es
      /\ m.prevLogTerm = entry(s, next - 1).term /\ m.leaderCommit = commitIndex[s]
  BY DEF sendAppendEntries
<1>5. /\ t \in Nat /\ W[t] = s /\ F[s] = L[t] /\ Len(F[s]) = lastIndex(s)
  BY DEF sendAppendEntries, LeaderAt, WholeAt, TypeOK, ElectTypeOK
<1>6. entry(s, next - 1).term = IF next - 1 = 0 THEN 0 ELSE F[s][next - 1].term
  <2>1. next - 1 \in Nat /\ lastIncludeIndex[s] <= next - 1 /\ next - 1 <= lastIndex(s)
    BY <1>1
  <2> HIDE DEF next
  <2> QED BY <2>1, WholeTerm
<1>7. ASSUME NEW k \in 1 .. Len(es) PROVE es[k] = F[s][next - 1 + k]
  <2>1. log[s] \in Seq(Entry) /\ Len(log[s]) \in Nat
    BY DEF TypeOK, LogTypeOK
  <2> DEFINE a == logIdx(s, next)
             b == logIdx(s, hi) - 1
  <2>2. a \in Int /\ b \in Int /\ a >= 1 /\ b - a + 1 = hi - next
    BY <1>1, <1>2 DEF logIdx
  <2>3. b <= Len(log[s])
    BY <1>1, <1>2, <2>1 DEF logIdx, lastIndex
  <2>4. es = SubSeq(log[s], a, b)
    BY DEF entries
  <2>5. k \in 1 .. b - a + 1
    BY <1>3, <2>2, <1>7
  <2>6. es[k] = log[s][a + k - 1]
    <3> HIDE DEF es, a, b
    <3> QED BY <2>1, <2>2, <2>3, <2>4, <2>5, PartType
  <2>7. a + k - 1 = logIdx(s, next - 1 + k)
    BY <1>1 DEF logIdx
  <2>8. next - 1 + k \in lastIncludeIndex[s] + 1 .. lastIndex(s)
    BY <1>1, <1>2, <1>3
  <2>9. entry(s, next - 1 + k) = F[s][next - 1 + k]
    <3> HIDE DEF next
    <3> QED BY <2>8 DEF WholeAt
  <2> HIDE DEF next, a, es
  <2> QED BY <2>6, <2>7, <2>9 DEF entry
<1>8. Committed(L, A, L[t], commitIndex[s], t)
  BY <1>5 DEF Commits
<1>9. next - 1 + Len(es) <= Len(L[t])
  <2> HIDE DEF next, hi, es, t
  <2> QED BY <1>1, <1>2, <1>3, <1>5
<1> HIDE DEF next, hi, es, t
<1> QED BY <1>4, <1>5, <1>6, <1>7, <1>8, <1>9 DEF AppendSound

\* So is a snapshot.
LEMMA InstallSent ==
  ASSUME Inv, NEW L, NEW W, NEW A, NEW F, HistoryTypes(L, W, A, F), NEW s \in Server,
         WholeAt(F, s), LeaderAt(L, W, A, F, s), Commits(L, A, F),
         NEW p \in Server, sendInstallSnapshot(s, p), NEW m \in snapReq', m \notin snapReq
  PROVE  InstallSound(L, W, A, m)
<1> USE DEF Inv
<1> DEFINE t == currentTerm[s]
           n == lastIncludeIndex[s]
<1>1. /\ m.src = s /\ m.term = t /\ m.lastIncludeIndex = n
      /\ m.lastIncludeTerm = lastIncludeTerm[s] /\ m.data = snapshot[s]
  BY DEF sendInstallSnapshot
<1>2. /\ t \in Nat /\ W[t] = s /\ F[s] = L[t]
  BY DEF sendInstallSnapshot, LeaderAt, TypeOK, ElectTypeOK
<1>3. n \in Nat /\ n > 0
  BY DEF sendInstallSnapshot, NextIndexInRange, TypeOK, LeadTypeOK, LogTypeOK
<1>4. Holds(snapshot[s], F[s], n) /\ lastIncludeTerm[s] = F[s][n].term
  BY <1>3 DEF WholeAt
<1>5. Committed(L, A, L[t], n, t)
  <2>1. commitIndex[s] \in Nat /\ n <= commitIndex[s]
    BY <1>3 DEF SnapshotChain, TypeOK, ApplyTypeOK
  <2>2. Committed(L, A, L[t], commitIndex[s], t)
    BY <1>2 DEF Commits
  <2>3. L[t] \in Seq(Entry)
    BY <1>2, PastTypes
  <2> QED BY <1>2, <1>3, <2>1, <2>2, <2>3, CommittedLess
<1> QED BY <1>1, <1>2, <1>3, <1>4, <1>5 DEF InstallSound

\* Every request stays, or is, a part of the log of its term.
LEMMA RequestsStep ==
  ASSUME Inv, Inv', Next, NEW L, NEW W, NEW A, NEW F, Explains(L, W, A, F),
         NEW L2, NEW W2, NEW A2, NEW F2, HistoryTypes(L2, W2, A2, F2),
         Later(L, W, A, L2, W2, A2)
  PROVE  Requests(L2, W2, A2)'
<1>0. /\ HistoryTypes(L, W, A, F) /\ Requests(L, W, A) /\ Commits(L, A, F)
      /\ \A s \in Server : WholeAt(F, s) /\ LeaderAt(L, W, A, F, s)
  BY DEF Explains
<1>1. ASSUME NEW m \in appReq' PROVE AppendSound(L2, W2, A2, m)
  <2>1. m \in AppendEntriesArgs
    BY DEF Inv, TypeOK, NetTypeOK
  <2>2. AppendSound(L, W, A, m)
    <3>1. CASE m \in appReq
      BY <1>0, <3>1 DEF Requests
    <3>2. CASE m \notin appReq
      <4>1. PICK s \in Server, p \in Server : sendAppendEntries(s, p)
        BY <3>2, Senders
      <4> QED BY <1>0, <3>2, <4>1, AppendSent
    <3> QED BY <3>1, <3>2
  <2> QED BY <1>0, <2>1, <2>2, AppendSoundLater
<1>2. ASSUME NEW m \in snapReq' PROVE InstallSound(L2, W2, A2, m)
  <2>1. m \in InstallSnapshotArgs
    BY DEF Inv, TypeOK, NetTypeOK
  <2>2. InstallSound(L, W, A, m)
    <3>1. CASE m \in snapReq
      BY <1>0, <3>1 DEF Requests
    <3>2. CASE m \notin snapReq
      <4>1. PICK s \in Server, p \in Server : sendInstallSnapshot(s, p)
        BY <3>2, Senders
      <4> QED BY <1>0, <3>2, <4>1, InstallSent
    <3> QED BY <3>1, <3>2
  <2> QED BY <1>0, <2>1, <2>2, InstallSoundLater
<1>3. ASSUME NEW m \in appReq' PROVE AppendSound(L2, W2, A2, m)'
  BY <1>1, <1>3 DEF AppendSound, Committed, Chosen, CommitQuorum, Half, Agree
<1>4. ASSUME NEW m \in snapReq' PROVE InstallSound(L2, W2, A2, m)'
  BY <1>2, <1>4 DEF InstallSound, Committed, Chosen, CommitQuorum, Half, Agree, Holds
<1> QED BY <1>3, <1>4 DEF Requests

-----------------------------------------------------------------------------
\* The kinds of steps

\* A step that leaves logs and services alone and only ends leaderships: elections
\* that are not won, requests that are sent or rejected.
Plain ==
  /\ UNCHANGED <<logVars, indexVars, svcVars>>
  /\ \A l \in Server : state'[l] = "Leader" =>
       /\ state[l] = "Leader" /\ currentTerm'[l] = currentTerm[l]
       /\ matchIndex'[l] = matchIndex[l]
  /\ \A r \in appRep' \cup snapRep' : r \in appRep \cup snapRep \/ ~ r.success

\* The vote m makes its candidate leader.
Wins(m) ==
  /\ handleVoteReply(m) /\ countable(m.dst, m) /\ voteCount[m.dst] + 1 > Half
  /\ becomeLeader(m.dst)
  /\ UNCHANGED <<currentTerm, votedFor, logVars, indexVars, svcVars, appNet, snapNet>>

\* The leader takes the reply m into account.
Acked(m) ==
  /\ m \in appRep \cup snapRep /\ current(m.dst, m) /\ m.success
  /\ acknowledge(m.dst, m.src, m.matched)
  /\ UNCHANGED <<electVars, logVars, applyIndex, pendingSnapshot, svcVars>>
  /\ appRep' \subseteq appRep /\ snapRep' \subseteq snapRep

\* A step that only settles elections is plain.
LEMMA PlainSettled ==
  ASSUME UNCHANGED <<logVars, indexVars, svcVars, leadVars>>, \A c \in Server : Settled(c),
         \A r \in appRep' \cup snapRep' : r \in appRep \cup snapRep \/ ~ r.success
  PROVE  Plain
<1>1. ASSUME NEW l \in Server, state'[l] = "Leader"
      PROVE  /\ state[l] = "Leader" /\ currentTerm'[l] = currentTerm[l]
             /\ matchIndex'[l] = matchIndex[l]
  BY <1>1 DEF Settled, leadVars
<1> QED BY <1>1 DEF Plain

\* Rejections carry success = FALSE.
LEMMA RejectAppend ==
  ASSUME TypeOK, NEW m \in appReq, AppendEntries(m), rejectStale(m) \/ rejectShort(m) \/ rejectMismatch(m)
  PROVE  Plain
<1>1. m.dst \in Server
  BY DEF TypeOK, NetTypeOK, AppendEntriesArgs
<1>2. UNCHANGED <<candVars, applyIndex, pendingSnapshot, leadVars, svcVars, snapRep>>
  BY DEF AppendEntries, snapNet
<1>3. UNCHANGED <<logVars, commitIndex>>
  BY DEF rejectStale, rejectShort, rejectMismatch
<1>4. ASSUME NEW c \in Server PROVE Settled(c)
  <2>1. CASE rejectStale(m)
    BY <1>2, <2>1, SettledSame DEF rejectStale
  <2>2. CASE rejectShort(m) \/ rejectMismatch(m)
    BY <1>1, <1>2, <2>2, SettledFollow DEF rejectShort, rejectMismatch
  <2> QED BY <2>1, <2>2
<1>5. ASSUME NEW r \in appRep', r \notin appRep PROVE ~ r.success
  <2>1. PICK t, xt, xi : r = appendReply(m, t, FALSE, xt, xi)
    BY <1>5 DEF rejectStale, rejectShort, rejectMismatch, SendReply
  <2> QED BY <2>1 DEF appendReply
<1>6. UNCHANGED indexVars
  BY <1>2, <1>3 DEF indexVars
<1> QED BY <1>2, <1>3, <1>4, <1>5, <1>6, PlainSettled

\* So does a peer that rejects an InstallSnapshot.
LEMMA RejectInstall ==
  ASSUME TypeOK, NEW m \in snapReq, InstallSnapshot(m), rejectInstall(m)
  PROVE  Plain
<1>1. UNCHANGED <<candVars, leadVars, svcVars, appRep>>
  BY DEF InstallSnapshot, appNet
<1>2. UNCHANGED <<electVars, logVars, indexVars>>
  BY DEF rejectInstall
<1>3. ASSUME NEW c \in Server PROVE Settled(c)
  BY <1>1, <1>2, SettledSame
<1>4. ASSUME NEW r \in snapRep', r \notin snapRep PROVE ~ r.success
  <2>1. PICK t : r = installReply(m, t, FALSE)
    BY <1>4 DEF rejectInstall, SendReply
  <2> QED BY <2>1 DEF installReply
<1> QED BY <1>1, <1>2, <1>3, <1>4, PlainSettled

\* A vote is counted: it wins the election, or it does not.
LEMMA VoteReplyKinds ==
  ASSUME TypeOK, NEW m \in voteRep, handleVoteReply(m)
  PROVE  Plain \/ Wins(m)
<1>1. m.dst \in Server /\ UNCHANGED <<appNet, snapNet>>
  BY DEF TypeOK, NetTypeOK, RequestVoteReply, handleVoteReply
<1>2. CASE stepDown(m.dst, m.term)
  <2>1. UNCHANGED <<logVars, indexVars, leadVars, svcVars>>
    BY <1>2 DEF stepDown
  <2> QED BY <1>1, <1>2, <2>1, SettledStepDown, PlainSettled DEF appNet, snapNet
<1>3. CASE UNCHANGED <<electVars, candVars, logVars, indexVars, leadVars, svcVars>>
  BY <1>1, <1>3, SettledSame, PlainSettled DEF appNet, snapNet
<1>4. CASE UNCHANGED <<currentTerm, state, logVars, indexVars, leadVars, svcVars>>
  BY <1>1, <1>4 DEF Plain, leadVars, appNet, snapNet
<1>5. CASE /\ countable(m.dst, m) /\ voteCount[m.dst] + 1 > Half /\ becomeLeader(m.dst)
           /\ UNCHANGED <<currentTerm, votedFor, logVars, indexVars, svcVars>>
  BY <1>1, <1>5 DEF Wins
<1> QED BY <1>2, <1>3, <1>4, <1>5 DEF handleVoteReply

\* A reply to the leader is taken into account, or leaves matchIndex alone.
LEMMA AppendReplyKinds ==
  ASSUME TypeOK, NEW m \in appRep, handleAppendReply(m)
  PROVE  Plain \/ Acked(m)
<1>1. m.dst \in Server /\ appRep' \subseteq appRep /\ UNCHANGED snapRep
  BY DEF TypeOK, NetTypeOK, AppendEntriesReply, handleAppendReply, Receive, snapNet
<1>2. CASE stepDown(m.dst, m.term)
  <2>1. UNCHANGED <<logVars, indexVars, leadVars, svcVars>>
    BY <1>2 DEF stepDown
  <2> QED BY <1>1, <1>2, <2>1, SettledStepDown, PlainSettled
<1>3. CASE UNCHANGED <<electVars, candVars, logVars, indexVars, leadVars, svcVars>>
  BY <1>1, <1>3, SettledSame, PlainSettled
<1>4. CASE UNCHANGED <<electVars, logVars, applyIndex, pendingSnapshot, svcVars, matchIndex, commitIndex>>
  BY <1>1, <1>4 DEF Plain, electVars, indexVars
<1>5. CASE /\ current(m.dst, m) /\ m.success /\ acknowledge(m.dst, m.src, m.matched)
           /\ UNCHANGED <<electVars, logVars, applyIndex, pendingSnapshot, svcVars>>
  BY <1>1, <1>5 DEF Acked
<1> QED BY <1>2, <1>3, <1>4, <1>5 DEF handleAppendReply

\* and for a reply to InstallSnapshot.
LEMMA InstallReplyKinds ==
  ASSUME TypeOK, NEW m \in snapRep, handleInstallReply(m)
  PROVE  Plain \/ Acked(m)
<1>1. m.dst \in Server /\ snapRep' \subseteq snapRep /\ UNCHANGED appRep
  BY DEF TypeOK, NetTypeOK, InstallSnapshotReply, handleInstallReply, Receive, appNet
<1>2. CASE stepDown(m.dst, m.term)
  <2>1. UNCHANGED <<logVars, indexVars, leadVars, svcVars>>
    BY <1>2 DEF stepDown
  <2> QED BY <1>1, <1>2, <2>1, SettledStepDown, PlainSettled
<1>3. CASE UNCHANGED <<electVars, candVars, logVars, indexVars, leadVars, svcVars>>
  BY <1>1, <1>3, SettledSame, PlainSettled
<1>4. CASE /\ current(m.dst, m) /\ m.success /\ acknowledge(m.dst, m.src, m.matched)
           /\ UNCHANGED <<electVars, logVars, applyIndex, pendingSnapshot, svcVars>>
  BY <1>1, <1>4 DEF Acked
<1> QED BY <1>2, <1>3, <1>4 DEF handleInstallReply

\* Every step is of one of these kinds.
LEMMA StepKinds ==
  ASSUME TypeOK, Next
  PROVE  \/ Plain
         \/ \E m \in voteRep : Wins(m)
         \/ \E m \in appRep \cup snapRep : Acked(m)
         \/ \E s \in Server, c \in Command : Start(s, c)
         \/ \E m \in appReq : AppendEntries(m) /\ accept(m)
         \/ \E m \in snapReq : InstallSnapshot(m) /\ (skipInstall(m) \/ install(m))
         \/ \E s \in Server : applier(s)
         \/ \E s \in Server : deliver(s)
         \/ \E s \in Server : Snapshot(s)
         \/ \E s \in Server : Restart(s)
         \/ \E m \in voteReq \cup appReq \cup snapReq : crashInHandler(m)
<1>1. ASSUME NEW s \in Server, NEW sent, startElection(s, sent) PROVE Plain
  <2>1. UNCHANGED <<logVars, indexVars, leadVars, svcVars, appNet, snapNet>>
    BY <1>1 DEF startElection
  <2>2. ASSUME NEW l \in Server, state'[l] = "Leader"
        PROVE  state[l] = "Leader" /\ currentTerm'[l] = currentTerm[l]
    BY <1>1, <2>2 DEF startElection, TypeOK, ElectTypeOK
  <2> QED BY <2>1, <2>2 DEF Plain, leadVars, appNet, snapNet
<1>2. ASSUME NEW m \in voteReq, RequestVote(m) PROVE Plain
  <2>1. UNCHANGED <<logVars, indexVars, leadVars, svcVars, appNet, snapNet>>
    BY <1>2 DEF RequestVote
  <2> QED BY <1>2, <2>1, RequestVoteSettled, PlainSettled DEF appNet, snapNet
<1>3. ASSUME NEW s \in Server, NEW p \in Server, sendInstallSnapshot(s, p) PROVE Plain
  BY <1>3, SettledSame, PlainSettled DEF sendInstallSnapshot, appNet
<1>4. ASSUME NEW s \in Server, NEW p \in Server, sendAppendEntries(s, p) PROVE Plain
  BY <1>4, SettledSame, PlainSettled DEF sendAppendEntries, snapNet
<1>5. ASSUME NEW m \in appReq, AppendEntries(m) PROVE Plain \/ accept(m)
  BY <1>5, RejectAppend DEF AppendEntries
<1>6. ASSUME NEW m \in snapReq, InstallSnapshot(m) PROVE Plain \/ skipInstall(m) \/ install(m)
  BY <1>6, RejectInstall DEF InstallSnapshot
<1> QED BY <1>1, <1>2, <1>3, <1>4, <1>5, <1>6, VoteReplyKinds, AppendReplyKinds,
           InstallReplyKinds DEF Next

-----------------------------------------------------------------------------
\* Steps that leave logs alone

\* What is acknowledged stays so while the past and the logs stay the same.
LEMMA AckSame ==
  ASSUME Inv, Inv', Next, NEW L, NEW W, NEW A, NEW F, HistoryTypes(L, W, A, F),
         Acks(L, W, A, F)
  PROVE  Acks(L, W, A, F)'
<1> SUFFICES ASSUME NEW v \in Server, NEW t \in Nat, A[v][t] > 0
             PROVE  /\ W[t] # Nil /\ t <= currentTerm'[v] /\ A[v][t] <= Len(L[t])
                    /\ t = currentTerm'[v] => Agree(F[v], L[t], A[v][t])
                    /\ \A i \in 1 .. A[v][t] :
                         L[t][i].term = t /\ Choosable(A, t, i)' => Agree(F[v], L[t], i)
  BY DEF Acks, AckAt
<1>1. /\ W[t] # Nil /\ t <= currentTerm[v] /\ A[v][t] <= Len(L[t])
      /\ t = currentTerm[v] => Agree(F[v], L[t], A[v][t])
      /\ \A i \in 1 .. A[v][t] :
           L[t][i].term = t /\ Choosable(A, t, i) => Agree(F[v], L[t], i)
  BY DEF Acks, AckAt
<1>2. currentTerm[v] \in Nat /\ currentTerm'[v] \in Nat /\ currentTerm'[v] >= currentTerm[v]
  BY TermGrows DEF Inv
<1>3. ASSUME NEW i \in 1 .. A[v][t], Choosable(A, t, i)' PROVE Choosable(A, t, i)
  <2>1. i \in Nat
    BY PastTypes
  <2> QED BY <1>3, <2>1, LaterSame, LaterChoosable
<1> QED BY <1>1, <1>2, <1>3

\* So is what later leaders have.
LEMMA SafeSame ==
  ASSUME Inv, Inv', Next, NEW L, NEW W, NEW A, NEW F, HistoryTypes(L, W, A, F), Safe(L, W, A),
         NEW A2, NEW F2, HistoryTypes(L, W, A2, F2), Later(L, W, A, L, W, A2)
  PROVE  Safe(L, W, A2)'
<1> SUFFICES ASSUME NEW t \in Nat, NEW u \in Nat, t < u, W[u] # Nil, NEW i \in 1 .. Len(L[t]),
                    L[t][i].term = t, Choosable(A2, t, i)'
             PROVE  Agree(L[u], L[t], i)
  BY DEF Safe
<1>1. i \in Nat
  OBVIOUS
<1>2. Choosable(A, t, i)
  BY <1>1, LaterChoosable
<1> QED BY <1>2 DEF Safe

\* The past still explains the state when what depends on logs, services and
\* leaderships does.
LEMMA ExplainsStep ==
  ASSUME Inv, Inv', Next, NEW L, NEW W, NEW A, NEW F, Explains(L, W, A, F),
         NEW L2, NEW W2, NEW A2, NEW F2, HistoryTypes(L2, W2, A2, F2),
         Later(L, W, A, L2, W2, A2), \A c \in Server : state'[c] = "Candidate" => F2[c] = F[c],
         \A s \in Server : WholeAt(F2, s)', TermLogs(L2, W2), PeerLogs(L2, W2, F2)',
         \A t \in Nat : W2[t] = W[t] \/ WonBy(W2[t], t)',
         \A s \in Server : LeaderAt(L2, W2, A2, F2, s)',
         Acks(L2, W2, A2, F2)', Safe(L2, W2, A2)', Replies(A2)', Commits(L2, A2, F2)',
         \A s \in Server : ServiceAt(F2, s)'
  PROVE  Explains(L2, W2, A2, F2)'
<1>0. /\ HistoryTypes(L, W, A, F) /\ TermLogs(L, W) /\ PeerLogs(L, W, F)
      /\ \A s \in Server : WholeAt(F, s)
      /\ Winners(W) /\ Acks(L, W, A, F) /\ Safe(L, W, A) /\ Asking(F) /\ Backing(L, A, F)
  BY DEF Explains
<1>1. Winners(W2)'
  <2> SUFFICES ASSUME NEW t \in Nat, W2[t] # Nil PROVE WonBy(W2[t], t)'
    BY DEF Winners
  <2>1. CASE W2[t] = W[t]
    <3>1. W[t] \in Server /\ WonBy(W[t], t)
      BY <1>0, <2>1, PastTypes DEF Winners
    <3>2. WonBy(W[t], t)'
      BY <3>1, WonByStep
    <3> QED BY <2>1, <3>2
  <2> QED BY <2>1
<1>2. Asking(F2)'
  BY <1>0, AskingStep
<1>3. Backing(L2, A2, F2)'
  BY <1>0, BackingStep
<1>4. Requests(L2, W2, A2)'
  BY RequestsStep
<1>5. TermLogs(L2, W2)' /\ HistoryTypes(L2, W2, A2, F2)'
  BY DEF TermLogs, HistoryTypes, Grown, Agree
<1> QED BY <1>1, <1>2, <1>3, <1>4, <1>5 DEF Explains

-----------------------------------------------------------------------------
\* Peers that a step leaves alone

\* A log and a snapshot that nobody touched are still the parts of the whole log.
LEMMA WholeSame ==
  ASSUME NEW F, NEW s \in Server, WholeAt(F, s), log'[s] = log[s],
         lastIncludeIndex'[s] = lastIncludeIndex[s], lastIncludeTerm'[s] = lastIncludeTerm[s],
         snapshot'[s] = snapshot[s], NEW F2, F2[s] = F[s]
  PROVE  WholeAt(F2, s)'
<1>1. lastIndex(s)' = lastIndex(s) /\ \A i : entry(s, i)' = entry(s, i)
  BY DEF lastIndex, entry, logIdx
<1> QED BY <1>1 DEF WholeAt, Holds

\* A service that got nothing new still has a prefix of the log.
LEMMA ServiceSame ==
  ASSUME NEW F, NEW s \in Server, ServiceAt(F, s), app'[s] = app[s], applyMsgs'[s] = applyMsgs[s],
         pendingSnapshot'[s] = pendingSnapshot[s], NEW F2, F2[s] = F[s]
  PROVE  ServiceAt(F2, s)'
BY DEF ServiceAt, Holds

\* What is committed stays so in a later term.
LEMMA CommitSame ==
  ASSUME Inv, Inv', Next, NEW L, NEW W, NEW A, NEW F, HistoryTypes(L, W, A, F),
         Commits(L, A, F), NEW L2, NEW W2, NEW A2, NEW F2, HistoryTypes(L2, W2, A2, F2),
         Later(L, W, A, L2, W2, A2), NEW s \in Server, commitIndex'[s] <= commitIndex[s],
         Agree(F2[s], F[s], commitIndex[s])
  PROVE  Committed(L2, A2, F2[s], commitIndex'[s], currentTerm'[s])
<1>1. /\ commitIndex[s] \in Nat /\ commitIndex'[s] \in Nat /\ F[s] \in Seq(Entry)
      /\ F2[s] \in Seq(Entry)
  BY PastTypes DEF Inv, TypeOK, ApplyTypeOK
<1>2. currentTerm[s] \in Nat /\ currentTerm'[s] \in Nat /\ currentTerm'[s] >= currentTerm[s]
  BY TermGrows DEF Inv
<1>3. Committed(L, A, F[s], commitIndex[s], currentTerm[s])
  BY DEF Commits
<1>4. Committed(L2, A2, F[s], commitIndex[s], currentTerm[s])
  BY <1>1, <1>2, <1>3, LaterCommitted
<1>5. Committed(L2, A2, F2[s], commitIndex[s], currentTerm[s])
  BY <1>1, <1>2, <1>4, CommittedAgree
<1> QED BY <1>1, <1>2, <1>5, CommittedLess

\* Prime passes through what speaks of the past only.
LEMMA CommitsNext ==
  ASSUME NEW L, NEW A, NEW F,
         \A s \in Server : Committed(L, A, F[s], commitIndex'[s], currentTerm'[s])
  PROVE  Commits(L, A, F)'
BY DEF Commits, Committed, Chosen, CommitQuorum, Half, Agree

\* The logs still come from leaders of the peers' terms or before.
LEMMA PeerLogsSame ==
  ASSUME Inv, Inv', Next, NEW L, NEW W, NEW A, NEW F, HistoryTypes(L, W, A, F), PeerLogs(L, W, F)
  PROVE  PeerLogs(L, W, F)'
<1> SUFFICES ASSUME NEW s \in Server PROVE Grown(L, W, F[s], currentTerm'[s])
  BY DEF PeerLogs, Grown, Agree
<1>1. currentTerm[s] \in Nat /\ currentTerm'[s] \in Nat /\ currentTerm'[s] >= currentTerm[s]
  BY TermGrows DEF Inv
<1>2. F[s] \in Seq(Entry) /\ Grown(L, W, F[s], currentTerm[s])
  BY PastTypes DEF PeerLogs
<1> QED BY <1>1, <1>2, GrownLater

\* A step that leaves the past as it is
LEMMA PastSame ==
  ASSUME Inv, Inv', Next, NEW L, NEW W, NEW A, NEW F, Explains(L, W, A, F),
         \A s \in Server : WholeAt(F, s)', \A s \in Server : LeaderAt(L, W, A, F, s)',
         Replies(A)', \A s \in Server : Committed(L, A, F[s], commitIndex'[s], currentTerm'[s]),
         \A s \in Server : ServiceAt(F, s)'
  PROVE  Explains(L, W, A, F)'
<1>0. /\ HistoryTypes(L, W, A, F) /\ TermLogs(L, W) /\ PeerLogs(L, W, F)
      /\ Acks(L, W, A, F) /\ Safe(L, W, A)
  BY DEF Explains
<1>1. Later(L, W, A, L, W, A)
  BY <1>0, LaterSame
<1>2. Acks(L, W, A, F)'
  BY <1>0, AckSame
<1>3. Safe(L, W, A)'
  BY <1>0, <1>1, SafeSame
<1>4. PeerLogs(L, W, F)'
  BY <1>0, PeerLogsSame
<1>5. Commits(L, A, F)'
  BY CommitsNext
<1> QED BY <1>0, <1>1, <1>2, <1>3, <1>4, <1>5, ExplainsStep

\* Leaders that lead on with the same matchIndex
LEMMA LeaderSame ==
  ASSUME NEW L, NEW W, NEW A, NEW F, NEW s \in Server, LeaderAt(L, W, A, F, s),
         state'[s] = "Leader" =>
           /\ state[s] = "Leader" /\ currentTerm'[s] = currentTerm[s]
           /\ matchIndex'[s] = matchIndex[s]
  PROVE  LeaderAt(L, W, A, F, s)'
BY DEF LeaderAt

\* A step that acknowledges nothing keeps what the replies say.
LEMMA RepliesSame ==
  ASSUME NEW A, Replies(A),
         \A r \in appRep' \cup snapRep' : r \in appRep \cup snapRep \/ ~ r.success
  PROVE  Replies(A)'
BY DEF Replies

\* A plain step has the same past.
LEMMA PlainExplained ==
  ASSUME Inv, Inv', Next, NEW L, NEW W, NEW A, NEW F, Explains(L, W, A, F), Plain
  PROVE  Explains(L, W, A, F)'
<1>0. /\ HistoryTypes(L, W, A, F) /\ Commits(L, A, F) /\ Replies(A)
      /\ \A s \in Server : WholeAt(F, s) /\ LeaderAt(L, W, A, F, s) /\ ServiceAt(F, s)
  BY DEF Explains
<1>1. ASSUME NEW s \in Server PROVE WholeAt(F, s)'
  BY <1>0, WholeSame DEF Plain, logVars
<1>2. ASSUME NEW s \in Server PROVE LeaderAt(L, W, A, F, s)'
  BY <1>0, LeaderSame DEF Plain
<1>3. Replies(A)'
  BY <1>0, RepliesSame DEF Plain
<1>4. ASSUME NEW s \in Server PROVE Committed(L, A, F[s], commitIndex'[s], currentTerm'[s])
  <2>1. commitIndex'[s] = commitIndex[s] /\ commitIndex[s] \in Nat
    BY DEF Plain, indexVars, Inv, TypeOK, ApplyTypeOK
  <2>2. Agree(F[s], F[s], commitIndex[s])
    BY <1>0, <2>1, PastTypes, CommittedLength, AgreeSelf DEF Commits, Inv, TypeOK, ElectTypeOK
  <2> QED BY <1>0, <2>1, <2>2, LaterSame, CommitSame
<1>5. ASSUME NEW s \in Server PROVE ServiceAt(F, s)'
  BY <1>0, ServiceSame DEF Plain, svcVars, indexVars
<1> QED BY <1>1, <1>2, <1>3, <1>4, <1>5, PastSame

-----------------------------------------------------------------------------
\* The leader's commitIndex

\* The committed part of a peer's log is inside it
LEMMA CommitInWhole ==
  ASSUME Inv, NEW L, NEW W, NEW A, NEW F, HistoryTypes(L, W, A, F), Commits(L, A, F),
         NEW s \in Server
  PROVE  /\ commitIndex[s] \in Nat /\ currentTerm[s] \in Nat /\ F[s] \in Seq(Entry)
         /\ Len(F[s]) \in Nat /\ commitIndex[s] <= Len(F[s])
         /\ Committed(L, A, F[s], commitIndex[s], currentTerm[s])
         /\ Agree(F[s], F[s], commitIndex[s])
<1>1. commitIndex[s] \in Nat /\ currentTerm[s] \in Nat /\ F[s] \in Seq(Entry) /\ Len(F[s]) \in Nat
  BY PastTypes DEF Inv, TypeOK, ApplyTypeOK, ElectTypeOK
<1>2. Committed(L, A, F[s], commitIndex[s], currentTerm[s])
  BY DEF Commits
<1>3. commitIndex[s] <= Len(F[s])
  BY <1>1, <1>2, CommittedLength
<1> QED BY <1>1, <1>2, <1>3, AgreeSelf

\* and stays committed.
LEMMA CommitStays ==
  ASSUME Inv, Inv', Next, NEW L, NEW W, NEW A, NEW F, HistoryTypes(L, W, A, F), Commits(L, A, F),
         NEW s \in Server, commitIndex'[s] <= commitIndex[s]
  PROVE  Committed(L, A, F[s], commitIndex'[s], currentTerm'[s])
BY CommitInWhole, LaterSame, CommitSame

\* The leader commits what a quorum has acknowledged, if it is of its own term.
LEMMA LeaderCommits ==
  ASSUME Inv, NEW L, NEW W, NEW A, NEW F, Explains(L, W, A, F), NEW s \in Server,
         state[s] = "Leader", NEW match \in [Server -> Nat],
         \A p \in Server : p # s => match[p] <= A[p][currentTerm[s]],
         NEW n \in committable(s, match)
  PROVE  n \in Nat /\ Committed(L, A, F[s], n, currentTerm[s])
<1> DEFINE t == currentTerm[s]
           m == [match EXCEPT ![s] = lastIndex(s)]
           Q == {q \in Server : m[q] >= n}
<1>0. /\ HistoryTypes(L, W, A, F) /\ WholeAt(F, s) /\ LeaderAt(L, W, A, F, s) /\ Acks(L, W, A, F)
      /\ TypeOK /\ SnapshotChain
  BY DEF Explains, Inv
<1>1. /\ t \in Nat /\ F[s] = L[t] /\ A[s][t] = Len(F[s]) /\ Len(F[s]) = lastIndex(s)
      /\ F[s] \in Seq(Entry) /\ Len(F[s]) \in Nat
  BY <1>0, PastTypes DEF LeaderAt, WholeAt, TypeOK, ElectTypeOK
<1>2. n \in orderStatistic(m) /\ n > commitIndex[s] /\ entry(s, n).term = t
  BY DEF committable
<1>3. \A q \in Server : m[q] \in Nat /\ m[q] <= A[q][t] /\ A[q][t] \in Nat
  <2> SUFFICES ASSUME NEW q \in Server PROVE m[q] \in Nat /\ m[q] <= A[q][t] /\ A[q][t] \in Nat
    OBVIOUS
  <2>1. A[q][t] \in Nat
    BY <1>0, <1>1, PastTypes
  <2>2. CASE q = s
    BY <1>1, <2>1, <2>2
  <2>3. CASE q # s
    BY <2>1, <2>3
  <2> QED BY <2>2, <2>3
<1>4. PICK q \in Server : n = m[q]
  BY <1>2 DEF orderStatistic
<1>5. n \in Nat /\ n > 0 /\ n > lastIncludeIndex[s] /\ lastIncludeIndex[s] \in Nat
  <2>1. /\ commitIndex[s] \in Nat /\ lastIncludeIndex[s] \in Nat /\ lastIncludeIndex[s] <= commitIndex[s]
    <3>1. commitIndex[s] \in Nat /\ applyIndex[s] \in Nat
      BY <1>0 DEF TypeOK, ApplyTypeOK
    <3>2. lastIncludeIndex[s] \in Nat
      BY <1>0 DEF TypeOK, LogTypeOK
    <3>3. lastIncludeIndex[s] <= applyIndex[s] /\ applyIndex[s] <= commitIndex[s]
      BY <1>0 DEF SnapshotChain
    <3> QED BY <3>1, <3>2, <3>3
  <2>2. n \in Nat
    BY <1>3, <1>4
  <2> HIDE DEF m
  <2> QED BY <1>2, <2>1, <2>2
<1>6. n <= Len(L[t])
  <2>1. A[q][t] <= Len(L[t])
    <3> HIDE DEF m
    <3>1. A[q][t] > 0
      BY <1>3, <1>4, <1>5
    <3> QED BY <1>0, <1>1, <3>1 DEF Acks, AckAt
  <2> HIDE DEF m
  <2> QED BY <1>1, <1>3, <1>4, <2>1
<1>7. Q \in CommitQuorum
  <2>1. Cardinality(Q) >= Cardinality(Server) - Half
    BY <1>2 DEF orderStatistic
  <2> QED BY <2>1 DEF CommitQuorum
<1> HIDE DEF t
<1>8. \A v \in Q : A[v][t] >= n
  <2> HIDE DEF m
  <2> QED BY <1>3, <1>5
<1>9. L[t][n].term = t
  <2>1. entry(s, n) = F[s][n]
    BY <1>0, <1>1, <1>5, <1>6 DEF WholeAt
  <2> QED BY <1>1, <1>2, <2>1
<1> HIDE DEF m, Q
<1>10. Chosen(L, A, t, n)
  BY <1>1, <1>5, <1>6, <1>7, <1>8, <1>9 DEF Chosen
<1>11. Agree(F[s], L[t], n)
  BY <1>1, <1>5, <1>6, AgreeSelf
<1>12. Committed(L, A, F[s], n, t)
  BY <1>1, <1>5, <1>6, <1>10, <1>11 DEF Committed
<1> QED BY <1>5, <1>12 DEF t

\* A reply that is taken into account
LEMMA AckedExplained ==
  ASSUME Inv, Inv', Next, NEW L, NEW W, NEW A, NEW F, Explains(L, W, A, F),
         NEW m \in appRep \cup snapRep, Acked(m)
  PROVE  Explains(L, W, A, F)'
<1> DEFINE s == m.dst
           p == m.src
           match == [matchIndex[s] EXCEPT ![p] = MaxOf(@, m.matched)]
<1>0. /\ HistoryTypes(L, W, A, F) /\ Commits(L, A, F) /\ Replies(A)
      /\ \A l \in Server : WholeAt(F, l) /\ LeaderAt(L, W, A, F, l) /\ ServiceAt(F, l)
      /\ TypeOK
  BY DEF Explains, Inv
<1>1. s \in Server /\ p \in Server /\ m.matched \in Nat
  BY <1>0 DEF TypeOK, NetTypeOK, AppendEntriesReply, InstallSnapshotReply
<1>2. /\ state[s] = "Leader" /\ currentTerm[s] = m.argTerm /\ m.success
      /\ UNCHANGED <<currentTerm, state, logVars, pendingSnapshot, svcVars>>
      /\ appRep' \subseteq appRep /\ snapRep' \subseteq snapRep
  BY DEF Acked, current, electVars
<1>3. match \in [Server -> Nat] /\ matchIndex' = [matchIndex EXCEPT ![s] = match]
  BY <1>0, <1>1 DEF Acked, acknowledge, MaxOf, TypeOK, LeadTypeOK
<1>4. ASSUME NEW q \in Server, q # s PROVE match[q] <= A[q][currentTerm[s]]
  <2>1. matchIndex[s][q] <= A[q][currentTerm[s]]
    BY <1>0, <1>1, <1>2, <1>4 DEF LeaderAt
  <2>2. CASE q = p
    <3>1. m.matched <= A[p][currentTerm[s]]
      BY <1>0, <1>2 DEF Replies
    <3> QED BY <1>0, <1>1, <2>1, <2>2, <3>1 DEF MaxOf, TypeOK, LeadTypeOK
  <2>3. CASE q # p
    BY <1>0, <1>1, <2>1, <2>3 DEF TypeOK, LeadTypeOK
  <2> QED BY <2>2, <2>3
<1>5. ASSUME NEW l \in Server PROVE WholeAt(F, l)' /\ ServiceAt(F, l)'
  BY <1>0, <1>2, WholeSame, ServiceSame DEF logVars, svcVars
<1>6. ASSUME NEW l \in Server PROVE LeaderAt(L, W, A, F, l)'
  <2>1. CASE l # s
    <3>1. matchIndex'[l] = matchIndex[l]
      BY <1>0, <1>3, <2>1 DEF TypeOK, LeadTypeOK
    <3> QED BY <1>0, <1>2, <3>1, LeaderSame
  <2>2. CASE l = s
    <3>1. matchIndex'[s] = match
      BY <1>0, <1>1, <1>3 DEF TypeOK, LeadTypeOK
    <3> HIDE DEF match, s, p
    <3> QED BY <1>0, <1>2, <1>4, <2>2, <3>1 DEF LeaderAt
  <2> QED BY <2>1, <2>2
<1>7. Replies(A)'
  BY <1>0, <1>2, RepliesSame
<1>8. ASSUME NEW l \in Server PROVE Committed(L, A, F[l], commitIndex'[l], currentTerm'[l])
  <2>1. advanceCommitIndex(s, match)
    BY DEF Acked, acknowledge
  <2>2. commitIndex \in [Server -> Nat] /\ currentTerm'[l] = currentTerm[l]
    BY <1>0, <1>2 DEF TypeOK, ApplyTypeOK
  <2> HIDE DEF match
  <2>3. CASE commitIndex'[l] = commitIndex[l]
    BY <1>0, <2>2, <2>3, CommitStays
  <2>4. CASE \E n \in committable(s, match) : commitIndex' = [commitIndex EXCEPT ![s] = n]
    <3>1. PICK n \in committable(s, match) : commitIndex' = [commitIndex EXCEPT ![s] = n]
      BY <2>4
    <3>2. Committed(L, A, F[s], n, currentTerm[s])
      BY <1>1, <1>2, <1>3, <1>4, <3>1, LeaderCommits
    <3>3. CASE l = s
      BY <1>1, <2>2, <3>1, <3>2, <3>3
    <3>4. CASE l # s
      BY <2>2, <2>3, <3>1, <3>4
    <3> QED BY <3>3, <3>4
  <2> QED BY <2>1, <2>3, <2>4 DEF advanceCommitIndex
<1> QED BY <1>5, <1>6, <1>7, <1>8, PastSame

-----------------------------------------------------------------------------
\* The service

\* A step that changes only what the service gets
LEMMA OnlyService ==
  ASSUME Inv, Inv', Next, NEW L, NEW W, NEW A, NEW F, Explains(L, W, A, F),
         UNCHANGED <<electVars, logVars, commitIndex, leadVars, appNet, snapNet>>,
         \A l \in Server : ServiceAt(F, l)'
  PROVE  Explains(L, W, A, F)'
<1>0. /\ HistoryTypes(L, W, A, F) /\ Commits(L, A, F) /\ Replies(A)
      /\ \A s \in Server : WholeAt(F, s) /\ LeaderAt(L, W, A, F, s)
  BY DEF Explains
<1>1. ASSUME NEW s \in Server PROVE WholeAt(F, s)'
  BY <1>0, WholeSame DEF logVars
<1>2. ASSUME NEW s \in Server PROVE LeaderAt(L, W, A, F, s)'
  BY <1>0, LeaderSame DEF electVars, leadVars
<1>3. Replies(A)'
  BY <1>0, RepliesSame DEF appNet, snapNet
<1>4. ASSUME NEW s \in Server PROVE Committed(L, A, F[s], commitIndex'[s], currentTerm'[s])
  BY <1>0, CommitInWhole, CommitStays
<1> QED BY <1>1, <1>2, <1>3, <1>4, PastSame

\* The applier takes the pending snapshot, or commands out of the log.
LEMMA ApplierService ==
  ASSUME Inv, NEW L, NEW W, NEW A, NEW F, Explains(L, W, A, F), NEW s \in Server, applier(s),
         NEW l \in Server
  PROVE  ServiceAt(F, l)'
<1>0. /\ HistoryTypes(L, W, A, F) /\ Commits(L, A, F) /\ WholeAt(F, s)
      /\ ServiceAt(F, s) /\ ServiceAt(F, l) /\ TypeOK /\ SnapshotChain /\ ApplyPosition
  BY DEF Explains, Inv
<1>1. app'[l] = app[l] /\ applyMsgs[s] = <<>>
  BY DEF applier
<1>2. CASE l # s
  <2>1. applyMsgs'[l] = applyMsgs[l]
    BY <1>0, <1>2 DEF applier, takeSnapshot, takeCommands, TypeOK, ApplyTypeOK
  <2>2. pendingSnapshot'[l] = pendingSnapshot[l]
    BY <1>0, <1>2 DEF applier, takeSnapshot, takeCommands, TypeOK, ApplyTypeOK
  <2> QED BY <1>0, <1>1, <2>1, <2>2, ServiceSame
<1>3. CASE l = s /\ takeSnapshot(s)
  <2> DEFINE p == pendingSnapshot[s]
  <2>1. applyMsgs'[s] = <<p>> /\ pendingSnapshot'[s] = Nil /\ p # Nil
    BY <1>0, <1>3 DEF takeSnapshot, TypeOK, ApplyTypeOK
  <2>2. p.snap /\ Holds(p.data, F[s], p.index)
    BY <1>0, <2>1 DEF ApplyPosition, ServiceAt
  <2> HIDE DEF p
  <2>3. Len(applyMsgs'[s]) = 1 /\ applyMsgs'[s][1] = p
    BY <2>1
  <2>4. Holds(app[s], F[s], Len(app[s]))
    BY <1>0 DEF ServiceAt
  <2> QED BY <1>1, <1>3, <2>1, <2>2, <2>3, <2>4 DEF ServiceAt, Holds
<1>4. CASE l = s /\ takeCommands(s)
  <2> DEFINE n == commitIndex[s] - applyIndex[s]
             batch == [k \in 1 .. n |->
                [snap |-> FALSE, index |-> applyIndex[s] + k,
                 data |-> <<commandAt(s, applyIndex[s] + k)>>]]
  <2>1. applyMsgs'[s] = batch /\ pendingSnapshot'[s] = pendingSnapshot[s]
    BY <1>0, <1>4 DEF takeCommands, TypeOK, ApplyTypeOK
  <2>2. /\ applyIndex[s] \in Nat /\ commitIndex[s] \in Nat /\ n \in Nat
        /\ lastIncludeIndex[s] \in Nat /\ lastIncludeIndex[s] <= applyIndex[s]
    BY <1>0, <1>4 DEF takeCommands, SnapshotChain, TypeOK, ApplyTypeOK, LogTypeOK
  <2>3. F[s] \in Seq(Entry) /\ commitIndex[s] <= Len(F[s]) /\ Len(F[s]) = lastIndex(s)
    BY <1>0, CommitInWhole DEF Inv, WholeAt
  <2>4. ASSUME NEW k \in 1 .. n
        PROVE  /\ ~ batch[k].snap /\ batch[k].index \in 1 .. Len(F[s])
               /\ batch[k].data = <<F[s][batch[k].index].cmd>>
    <3> DEFINE i == applyIndex[s] + k
    <3>1. i \in lastIncludeIndex[s] + 1 .. lastIndex(s) /\ i \in 1 .. Len(F[s])
      BY <2>2, <2>3
    <3>2. commandAt(s, i) = F[s][i].cmd
      BY <1>0, <2>2, <2>3, <3>1 DEF commandAt, WholeAt
    <3>3. batch[k] = [snap |-> FALSE, index |-> i, data |-> <<commandAt(s, i)>>]
      OBVIOUS
    <3> HIDE DEF i, batch
    <3> QED BY <3>1, <3>2, <3>3
  <2>5. Len(batch) = n
    <3> HIDE DEF n
    <3> QED BY <2>2
  <2>6. /\ Holds(app[s], F[s], Len(app[s]))
        /\ pendingSnapshot[s] # Nil => Holds(pendingSnapshot[s].data, F[s], pendingSnapshot[s].index)
    BY <1>0 DEF ServiceAt
  <2> HIDE DEF batch, n
  <2>7. ASSUME NEW k \in 1 .. Len(applyMsgs'[s])
        PROVE  /\ ~ applyMsgs'[s][k].snap /\ applyMsgs'[s][k].index \in 1 .. Len(F[s])
               /\ applyMsgs'[s][k].data = <<F[s][applyMsgs'[s][k].index].cmd>>
    BY <2>1, <2>4, <2>5
  <2> QED BY <1>1, <1>4, <2>1, <2>6, <2>7 DEF ServiceAt, Holds
<1> QED BY <1>2, <1>3, <1>4 DEF applier

\* The service takes the snapshot, or the command that comes next.
LEMMA DeliverService ==
  ASSUME Inv, NEW L, NEW W, NEW A, NEW F, Explains(L, W, A, F), NEW s \in Server, deliver(s),
         NEW l \in Server
  PROVE  ServiceAt(F, l)'
<1>0. /\ HistoryTypes(L, W, A, F) /\ ServiceAt(F, s) /\ ServiceAt(F, l)
      /\ TypeOK /\ ApplyPosition /\ pendingSnapshot' = pendingSnapshot
  BY DEF Explains, Inv, deliver, indexVars
<1>1. CASE l # s
  <2>1. app'[l] = app[l] /\ applyMsgs'[l] = applyMsgs[l]
    BY <1>0, <1>1 DEF deliver, TypeOK, ApplyTypeOK
  <2> QED BY <1>0, <2>1, ServiceSame
<1>2. CASE l = s
  <2> DEFINE q == applyMsgs[s]
             a == app[s]
             h == Head(q)
  <2>0. /\ q \in Seq(ApplyMsg) /\ q # <<>> /\ a \in Seq(Value)
        /\ Len(a) \in Nat /\ Len(q) \in Nat
    BY <1>0 DEF deliver, TypeOK, ApplyTypeOK
  <2>1. /\ app'[s] = IF h.snap THEN h.data ELSE a \o h.data
        /\ applyMsgs'[s] = Tail(q)
    BY <1>0 DEF deliver, TypeOK, ApplyTypeOK
  <2>2. /\ h = q[1] /\ h \in ApplyMsg /\ Len(q) >= 1 /\ Tail(q) \in Seq(ApplyMsg)
        /\ Len(Tail(q)) = Len(q) - 1 /\ \A k \in 1 .. Len(q) - 1 : Tail(q)[k] = q[k + 1]
    <3> HIDE DEF q
    <3>1. Len(q) >= 1 /\ h = q[1]
      BY <2>0, EmptySeq
    <3> QED BY <2>0, <3>1, HeadTailProperties
  <2>3. h.data \in Seq(Value) /\ h.index \in Nat
    BY <2>2 DEF ApplyMsg
  <2>4. F[s] \in Seq(Entry) /\ Len(F[s]) \in Nat
    BY <1>0, PastTypes
  <2>5. \A k \in 1 .. Len(q) :
          IF q[k].snap THEN Holds(q[k].data, F[s], q[k].index)
          ELSE q[k].index \in 1 .. Len(F[s]) /\ q[k].data = <<F[s][q[k].index].cmd>>
    BY <1>0 DEF ServiceAt
  <2>6. Holds(a, F[s], Len(a))
    BY <1>0 DEF ServiceAt
  <2>7. Holds(app'[s], F[s], Len(app'[s]))
    <3>1. CASE h.snap
      <4>1. app'[s] = h.data
        BY <2>1, <3>1
      <4>2. Holds(h.data, F[s], h.index)
        BY <2>0, <2>2, <2>5, <3>1
      <4> QED BY <4>1, <4>2 DEF Holds
    <3>2. CASE ~ h.snap
      <4>1. app'[s] = a \o h.data
        BY <2>1, <3>2
      <4>2. h.index \in 1 .. Len(F[s]) /\ h.data = <<F[s][h.index].cmd>>
        BY <2>0, <2>2, <2>5, <3>2
      <4>3. h.index = Len(a) + 1
        <5>1. ~ SnapshotBatch(s)
          BY <2>2, <3>2 DEF SnapshotBatch
        <5>2. CommandBatch(s)
          BY <1>0, <5>1 DEF ApplyPosition
        <5> QED BY <2>0, <2>2, <5>2 DEF CommandBatch
      <4> DEFINE x == F[s][h.index].cmd
      <4>4. h.data = <<x>>
        BY <4>2
      <4> HIDE DEF a, h, x
      <4>5. Len(h.data) = 1 /\ h.data[1] = x
        BY <4>4
      <4>6. /\ Len(app'[s]) = Len(a) + 1
            /\ \A j \in 1 .. Len(a) : app'[s][j] = a[j]
            /\ app'[s][Len(a) + 1] = x
        <5> DEFINE d == h.data
        <5>1. d \in Seq(Value) /\ Len(d) = 1 /\ d[1] = x /\ app'[s] = a \o d
          BY <2>3, <4>1, <4>5
        <5> HIDE DEF d
        <5>2. Len(a \o d) = Len(a) + Len(d)
          BY <2>0, <5>1, ConcatProperties
        <5>3. \A j \in 1 .. Len(a) + Len(d) : (a \o d)[j] = IF j <= Len(a) THEN a[j] ELSE d[j - Len(a)]
          BY <2>0, <5>1, ConcatProperties
        <5>4. \A j \in 1 .. Len(a) : (a \o d)[j] = a[j]
          BY <2>0, <5>1, <5>3
        <5>5. Len(a) + 1 \in 1 .. Len(a) + Len(d) /\ Len(a) + 1 - Len(a) = 1 /\ ~ (Len(a) + 1 <= Len(a))
          BY <2>0, <5>1
        <5>6. (a \o d)[Len(a) + 1] = d[1]
          BY <5>3, <5>5
        <5> QED BY <5>1, <5>2, <5>4, <5>6
      <4>7. ASSUME NEW j \in 1 .. Len(app'[s]) PROVE app'[s][j] = F[s][j].cmd
        <5>1. CASE j \in 1 .. Len(a)
          BY <2>6, <4>6, <5>1 DEF Holds
        <5>2. CASE j = Len(a) + 1
          BY <4>3, <4>6, <5>2 DEF x
        <5> QED BY <2>0, <4>6, <5>1, <5>2
      <4>8. Len(app'[s]) <= Len(F[s])
        BY <2>0, <2>4, <4>2, <4>3, <4>6
      <4> QED BY <4>7, <4>8 DEF Holds
    <3> QED BY <3>1, <3>2
  <2>8. ASSUME NEW k \in 1 .. Len(applyMsgs'[s])
        PROVE  IF applyMsgs'[s][k].snap THEN Holds(applyMsgs'[s][k].data, F[s], applyMsgs'[s][k].index)
               ELSE /\ applyMsgs'[s][k].index \in 1 .. Len(F[s])
                    /\ applyMsgs'[s][k].data = <<F[s][applyMsgs'[s][k].index].cmd>>
    <3> HIDE DEF q
    <3>1. k + 1 \in 1 .. Len(q) /\ applyMsgs'[s][k] = q[k + 1]
      BY <2>0, <2>1, <2>2
    <3> QED BY <2>5, <3>1
  <2>9. pendingSnapshot[s] # Nil => Holds(pendingSnapshot[s].data, F[s], pendingSnapshot[s].index)
    BY <1>0 DEF ServiceAt
  <2> QED BY <1>0, <1>2, <2>7, <2>8, <2>9 DEF ServiceAt, Holds
<1> QED BY <1>1, <1>2

-----------------------------------------------------------------------------
\* Snapshots, crashes, the applier

\* What truncateFront leaves
LEMMA TruncateEntry ==
  ASSUME TypeOK, NEW s \in Server, NEW n \in Nat, lastIncludeIndex[s] <= n, n <= lastIndex(s)
  PROVE  /\ Len(truncateFront(s, n)) = lastIndex(s) - n + 1
         /\ \A i \in n .. lastIndex(s) : truncateFront(s, n)[i - n + 1] = entry(s, i)
<1>1. /\ log[s] \in Seq(Entry) /\ Len(log[s]) \in Nat /\ lastIncludeIndex[s] \in Nat
      /\ lastIndex(s) \in Nat /\ lastIndex(s) = Len(log[s]) + lastIncludeIndex[s] - 1
  BY LastTypes DEF TypeOK, LogTypeOK, lastIndex
<1> DEFINE a == logIdx(s, n)
           b == Len(log[s])
<1>2. a \in Int /\ b \in Int /\ a >= 1 /\ a <= b /\ b - a + 1 = lastIndex(s) - n + 1
  BY <1>1 DEF logIdx
<1>3. truncateFront(s, n) = SubSeq(log[s], a, b)
  BY DEF truncateFront
<1>4. ASSUME NEW i \in n .. lastIndex(s) PROVE truncateFront(s, n)[i - n + 1] = entry(s, i)
  <2> DEFINE x == lastIncludeIndex[s]
             e == lastIndex(s)
  <2>0. /\ x \in Nat /\ e \in Nat /\ i \in n .. e /\ a = n - x + 1 /\ logIdx(s, i) = i - x + 1
        /\ b - a + 1 = e - n + 1 /\ b \in Int
    BY <1>1, <1>2, <1>4 DEF logIdx
  <2>1. i - n + 1 \in 1 .. b - a + 1 /\ a + (i - n + 1) - 1 = logIdx(s, i)
    <3> HIDE DEF a, b, x, e
    <3> QED BY <2>0
  <2> HIDE DEF a, b
  <2>2. SubSeq(log[s], a, b)[i - n + 1] = log[s][a + (i - n + 1) - 1]
    BY <1>1, <1>2, <2>1, PartType DEF b
  <2> QED BY <1>3, <2>1, <2>2 DEF entry
<1>5. Len(truncateFront(s, n)) = lastIndex(s) - n + 1
  <2> HIDE DEF a
  <2> QED BY <1>1, <1>2, <1>3, PartType
<1> QED BY <1>4, <1>5

\* A log cut at the front is still the end of the whole log.
LEMMA WholeTruncated ==
  ASSUME TypeOK, SnapshotChain, NEW F, F \in [Server -> Seq(Entry)], NEW s \in Server, WholeAt(F, s),
         NEW n \in Nat, n > lastIncludeIndex[s], n <= lastIndex(s),
         log'[s] = truncateFront(s, n), lastIncludeIndex'[s] = n,
         lastIncludeTerm'[s] = entry(s, n).term, Holds(snapshot'[s], F[s], n)
  PROVE  WholeAt(F, s)'
<1>1. /\ lastIncludeIndex[s] \in Nat /\ lastIndex(s) \in Nat
      /\ Len(log'[s]) = lastIndex(s) - n + 1
      /\ \A i \in n .. lastIndex(s) : truncateFront(s, n)[i - n + 1] = entry(s, i)
  <2>1. lastIncludeIndex[s] \in Nat /\ lastIndex(s) \in Nat
    BY LastTypes DEF TypeOK, LogTypeOK
  <2>2. lastIncludeIndex[s] <= n
    BY <2>1
  <2>3. /\ Len(truncateFront(s, n)) = lastIndex(s) - n + 1
        /\ \A i \in n .. lastIndex(s) : truncateFront(s, n)[i - n + 1] = entry(s, i)
    BY <2>2, TruncateEntry
  <2> QED BY <2>1, <2>3
<1>2. lastIndex(s)' = lastIndex(s)
  <2>1. PICK h \in Nat : h = lastIndex(s)
    BY <1>1
  <2>2. lastIndex(s)' = Len(log'[s]) + lastIncludeIndex'[s] - 1
    BY DEF lastIndex
  <2>3. Len(log'[s]) = h - n + 1 /\ lastIncludeIndex'[s] = n
    BY <1>1, <2>1
  <2>4. lastIndex(s)' = (h - n + 1) + n - 1
    BY <2>2, <2>3
  <2> QED BY <2>1, <2>4
<1>3. ASSUME NEW i \in n + 1 .. lastIndex(s) PROVE entry(s, i)' = F[s][i]
  <2>1. entry(s, i)' = truncateFront(s, n)[i - n + 1]
    BY DEF entry, logIdx
  <2>2. i \in n .. lastIndex(s) /\ i \in lastIncludeIndex[s] + 1 .. lastIndex(s)
    BY <1>1
  <2>3. entry(s, i) = F[s][i]
    BY <2>2 DEF WholeAt
  <2> QED BY <1>1, <2>1, <2>2, <2>3
<1>4. lastIncludeTerm'[s] = F[s][n].term
  <2>1. n # 0 /\ lastIncludeIndex[s] <= n
    BY <1>1
  <2> QED BY <2>1, WholeTerm
<1>5. n # 0 /\ Len(F[s]) = lastIndex(s)
  BY <1>1 DEF WholeAt
<1> QED BY <1>2, <1>3, <1>4, <1>5 DEF WholeAt, Holds

\* Compaction
LEMMA SnapshotExplained ==
  ASSUME Inv, Inv', Next, NEW L, NEW W, NEW A, NEW F, Explains(L, W, A, F),
         NEW s \in Server, Snapshot(s)
  PROVE  Explains(L, W, A, F)'
<1>0. /\ HistoryTypes(L, W, A, F) /\ Commits(L, A, F) /\ Replies(A) /\ TypeOK /\ SnapshotChain
      /\ \A l \in Server : WholeAt(F, l) /\ LeaderAt(L, W, A, F, l) /\ ServiceAt(F, l)
  BY DEF Explains, Inv
<1>1. UNCHANGED <<electVars, indexVars, leadVars, svcVars, appNet, snapNet>>
  BY DEF Snapshot
<1>2. ASSUME NEW l \in Server PROVE WholeAt(F, l)'
  <2>1. CASE l # s
    <3>1. log'[l] = log[l] /\ lastIncludeIndex'[l] = lastIncludeIndex[l]
      BY <1>0, <2>1 DEF Snapshot, TypeOK, LogTypeOK
    <3>2. lastIncludeTerm'[l] = lastIncludeTerm[l] /\ snapshot'[l] = snapshot[l]
      BY <1>0, <2>1 DEF Snapshot, TypeOK, LogTypeOK
    <3> QED BY <1>0, <3>1, <3>2, WholeSame
  <2>2. CASE l = s
    <3> DEFINE n == Len(app[s])
    <3>1. n \in Nat /\ n > lastIncludeIndex[s] /\ n <= lastIndex(s)
      BY <1>0 DEF Snapshot, TypeOK, ApplyTypeOK
    <3>2. log'[s] = truncateFront(s, n) /\ lastIncludeIndex'[s] = n
      BY <1>0 DEF Snapshot, TypeOK, LogTypeOK
    <3>3. lastIncludeTerm'[s] = entry(s, n).term /\ snapshot'[s] = app[s]
      BY <1>0 DEF Snapshot, TypeOK, LogTypeOK
    <3>4. Holds(app[s], F[s], n)
      BY <1>0 DEF ServiceAt
    <3>5. F \in [Server -> Seq(Entry)]
      BY <1>0 DEF HistoryTypes
    <3> HIDE DEF n
    <3> QED BY <1>0, <2>2, <3>1, <3>2, <3>3, <3>4, <3>5, WholeTruncated
  <2> QED BY <2>1, <2>2
<1>3. ASSUME NEW l \in Server PROVE LeaderAt(L, W, A, F, l)'
  BY <1>0, <1>1, LeaderSame DEF electVars, leadVars
<1>4. Replies(A)'
  BY <1>0, <1>1, RepliesSame DEF appNet, snapNet
<1>5. ASSUME NEW l \in Server PROVE Committed(L, A, F[l], commitIndex'[l], currentTerm'[l])
  BY <1>0, <1>1, CommitInWhole, CommitStays DEF indexVars
<1>6. ASSUME NEW l \in Server PROVE ServiceAt(F, l)'
  BY <1>0, <1>1, ServiceSame DEF indexVars, svcVars
<1> QED BY <1>2, <1>3, <1>4, <1>5, <1>6, PastSame

\* A restart, also out of a handler
LEMMA RestartExplained ==
  ASSUME Inv, Inv', Next, NEW L, NEW W, NEW A, NEW F, Explains(L, W, A, F),
         NEW s \in Server, NEW d \in Persisted, d.log = log[s], d.snapshot = snapshot[s],
         d.lastIncludeIndex = lastIncludeIndex[s], d.lastIncludeTerm = lastIncludeTerm[s],
         restartFrom(s, d)
  PROVE  Explains(L, W, A, F)'
<1>0. /\ HistoryTypes(L, W, A, F) /\ Commits(L, A, F) /\ Replies(A) /\ TypeOK /\ SnapshotChain
      /\ \A l \in Server : WholeAt(F, l) /\ LeaderAt(L, W, A, F, l) /\ ServiceAt(F, l)
  BY DEF Explains, Inv
<1>1. ASSUME NEW l \in Server PROVE WholeAt(F, l)'
  <2>1. log'[l] = log[l] /\ lastIncludeIndex'[l] = lastIncludeIndex[l]
    BY <1>0 DEF restartFrom, TypeOK, LogTypeOK
  <2>2. lastIncludeTerm'[l] = lastIncludeTerm[l] /\ snapshot'[l] = snapshot[l]
    BY <1>0 DEF restartFrom, TypeOK, LogTypeOK
  <2> QED BY <1>0, <2>1, <2>2, WholeSame
<1>2. ASSUME NEW l \in Server PROVE LeaderAt(L, W, A, F, l)'
  <2>1. CASE l = s
    <3>1. state'[l] # "Leader"
      BY <1>0, <2>1 DEF restartFrom, TypeOK, ElectTypeOK
    <3> QED BY <3>1 DEF LeaderAt
  <2>2. CASE l # s
    <3>1. state'[l] = state[l] /\ currentTerm'[l] = currentTerm[l] /\ matchIndex'[l] = matchIndex[l]
      BY <1>0, <2>2 DEF restartFrom, TypeOK, ElectTypeOK, LeadTypeOK
    <3> QED BY <1>0, <3>1, LeaderSame
  <2> QED BY <2>1, <2>2
<1>3. Replies(A)'
  BY <1>0, RepliesSame DEF restartFrom
<1>4. ASSUME NEW l \in Server PROVE Committed(L, A, F[l], commitIndex'[l], currentTerm'[l])
  <2>1. commitIndex'[l] <= commitIndex[l]
    <3>1. CASE l = s
      <4>1. commitIndex'[s] = lastIncludeIndex[s]
        BY <1>0 DEF restartFrom, TypeOK, ApplyTypeOK
      <4>2. lastIncludeIndex[s] <= commitIndex[s]
        BY <1>0 DEF SnapshotChain, TypeOK, ApplyTypeOK, LogTypeOK
      <4> QED BY <3>1, <4>1, <4>2
    <3>2. CASE l # s
      BY <1>0, <3>2 DEF restartFrom, TypeOK, ApplyTypeOK
    <3> QED BY <3>1, <3>2
  <2> QED BY <1>0, <2>1, CommitStays
<1>5. ASSUME NEW l \in Server PROVE ServiceAt(F, l)'
  <2>1. CASE l # s
    <3>1. app'[l] = app[l] /\ applyMsgs'[l] = applyMsgs[l]
      BY <1>0, <2>1 DEF restartFrom, TypeOK, ApplyTypeOK
    <3>2. pendingSnapshot'[l] = pendingSnapshot[l]
      BY <1>0, <2>1 DEF restartFrom, TypeOK, ApplyTypeOK
    <3> QED BY <1>0, <3>1, <3>2, ServiceSame
  <2>2. CASE l = s
    <3>1. app'[s] = snapshot[s] /\ applyMsgs'[s] = <<>> /\ pendingSnapshot'[s] = Nil
      BY <1>0 DEF restartFrom, TypeOK, ApplyTypeOK
    <3>2. Len(applyMsgs'[s]) = 0
      BY <3>1
    <3>3. Holds(snapshot[s], F[s], Len(snapshot[s]))
      <4>1. Len(snapshot[s]) = lastIncludeIndex[s] /\ Holds(snapshot[s], F[s], lastIncludeIndex[s])
        BY <1>0 DEF SnapshotChain, WholeAt
      <4> QED BY <4>1
    <3> QED BY <2>2, <3>1, <3>2, <3>3 DEF ServiceAt, Holds
  <2> QED BY <2>1, <2>2
<1> QED BY <1>1, <1>2, <1>3, <1>4, <1>5, PastSame

\* A crash and the restart after it leave the past as it was.
LEMMA CrashExplained ==
  ASSUME Inv, Inv', Next, NEW L, NEW W, NEW A, NEW F, Explains(L, W, A, F),
         (\E s \in Server : Restart(s)) \/ (\E m \in voteReq \cup appReq \cup snapReq : crashInHandler(m))
  PROVE  Explains(L, W, A, F)'
<1>0. TypeOK /\ PersistComplete
  BY DEF Inv
<1>1. CASE \E s \in Server : Restart(s)
  <2>1. PICK s \in Server : Restart(s)
    BY <1>1
  <2>2. PICK d \in Persisted : d = disk[s]
    BY <1>0, DiskHolds
  <2>3. /\ d.log = log[s] /\ d.snapshot = snapshot[s]
        /\ d.lastIncludeIndex = lastIncludeIndex[s] /\ d.lastIncludeTerm = lastIncludeTerm[s]
    BY <1>0, <2>2, DiskHolds
  <2>4. restartFrom(s, d)
    BY <2>1, <2>2 DEF Restart
  <2> QED BY <2>3, <2>4, RestartExplained
<1>2. CASE \E m \in voteReq \cup appReq \cup snapReq : crashInHandler(m)
  <2>1. PICK m \in voteReq \cup appReq \cup snapReq : crashInHandler(m)
    BY <1>2
  <2>2. m.dst \in Server /\ m.term \in Nat
    BY <1>0 DEF TypeOK, NetTypeOK, RequestVoteArgs, AppendEntriesArgs, InstallSnapshotArgs
  <2>3. PICK s \in Server : s = m.dst
    BY <2>2
  <2>4. [disk[s] EXCEPT !.currentTerm = m.term, !.votedFor = Nil] \in Persisted
    BY <1>0, <2>2, DiskHolds DEF Persisted
  <2>5. PICK d \in Persisted : d = [disk[s] EXCEPT !.currentTerm = m.term, !.votedFor = Nil]
    BY <2>4
  <2>6. /\ d.log = log[s] /\ d.snapshot = snapshot[s]
        /\ d.lastIncludeIndex = lastIncludeIndex[s] /\ d.lastIncludeTerm = lastIncludeTerm[s]
    BY <1>0, <2>5, DiskHolds DEF Persisted
  <2>7. restartFrom(s, d)
    BY <2>1, <2>3, <2>5 DEF crashInHandler
  <2> QED BY <2>6, <2>7, RestartExplained
<1> QED BY <1>1, <1>2

\* Neither the applier nor the service touches the log.
LEMMA ApplyExplained ==
  ASSUME Inv, Inv', Next, NEW L, NEW W, NEW A, NEW F, Explains(L, W, A, F),
         NEW s \in Server, applier(s) \/ deliver(s)
  PROVE  Explains(L, W, A, F)'
<1>1. UNCHANGED <<electVars, logVars, commitIndex, leadVars, appNet, snapNet>>
  BY DEF applier, deliver, indexVars
<1>2. ASSUME NEW l \in Server PROVE ServiceAt(F, l)'
  BY ApplierService, DeliverService
<1> QED BY <1>1, <1>2, OnlyService

-----------------------------------------------------------------------------
\* A new leader

\* A candidate has no entry of its own term yet, and nobody has won it.
LEMMA TermOpen ==
  ASSUME Inv, Inv', Next, NEW L, NEW W, NEW A, NEW F, Explains(L, W, A, F), NEW m \in voteRep, Wins(m)
  PROVE  /\ m.dst \in Server /\ currentTerm[m.dst] \in Nat /\ state[m.dst] = "Candidate"
         /\ state' = [state EXCEPT ![m.dst] = "Leader"] /\ currentTerm' = currentTerm
         /\ W[currentTerm[m.dst]] = Nil
         /\ WonBy(m.dst, currentTerm[m.dst])'
         /\ \E Q \in VoteQuorum : \A v \in Q : Backs(v, m.dst, currentTerm[m.dst])
<1>0. /\ TypeOK /\ TypeOK' /\ VotesGiven /\ VotesGiven' /\ VotesUnique /\ VotesUnique' /\ VotesCounted'
      /\ HistoryTypes(L, W, A, F) /\ Winners(W) /\ VotesGiven
  BY DEF Inv, Explains
<1>1. m.dst \in Server /\ m.src \in Server
  BY <1>0 DEF TypeOK, NetTypeOK, RequestVoteReply
<1>2. PICK s \in Server : s = m.dst
  BY <1>1
<1>3. PICK t \in Nat : t = currentTerm[s]
  BY <1>0 DEF TypeOK, ElectTypeOK
<1>4. /\ state[s] = "Candidate" /\ currentTerm' = currentTerm
      /\ state' = [state EXCEPT ![s] = "Leader"]
  BY <1>2 DEF Wins, countable, becomeLeader
<1>5. state'[s] = "Leader" /\ currentTerm'[s] = t
  BY <1>0, <1>3, <1>4 DEF TypeOK, ElectTypeOK
<1> DEFINE Q == voters'[s]
<1>6. Q \in VoteQuorum
  <2>1. Q \subseteq Server
    BY <1>0 DEF TypeOK, ElectTypeOK
  <2>2. Cardinality(Q) > Half
    BY <1>0, <1>5 DEF VotesCounted
  <2> QED BY <2>1, <2>2 DEF VoteQuorum
<1>7. ASSUME NEW v \in Q PROVE v \in Server /\ Backs(v, s, t)'
  <2>1. v \in Server
    BY <1>6 DEF VoteQuorum
  <2> QED BY <1>5, <2>1 DEF Backs
<1>8. ASSUME NEW v \in Q PROVE Backs(v, s, t)
  <2>1. v \in Server /\ Backs(v, s, t)'
    BY <1>7
  <2> QED BY <1>0, <2>1, BacksCounted DEF Wins
<1>9. WonBy(s, t)'
  <2>1. t <= currentTerm'[s] /\ (currentTerm'[s] = t => state'[s] # "Candidate")
    BY <1>5
  <2>2. ASSUME NEW v \in Q PROVE Voted(v, s, t)' /\ \A c \in Server : Backs(v, c, t)' => c = s
    BY <1>0, <1>7 DEF VotesGiven, VotesUnique
  <2> QED BY <1>6, <2>1, <2>2 DEF WonBy
<1>10. W[t] = Nil
  <2> SUFFICES ASSUME W[t] # Nil PROVE FALSE
    OBVIOUS
  <2>1. W[t] \in Server
    BY <1>0, PastTypes
  <2>2. WonBy(W[t], t)
    BY <1>0 DEF Winners
  <2>3. PICK P \in VoteQuorum : \A v \in P : \A c \in Server : Backs(v, c, t) => c = W[t]
    BY <2>2 DEF WonBy
  <2>4. PICK v \in Server : v \in P /\ v \in Q
    BY <1>6, VotesMeet
  <2>5. s = W[t]
    BY <1>8, <2>3, <2>4
  <2> QED BY <1>3, <1>4, <2>2, <2>5 DEF WonBy
<1> HIDE DEF Q
<1> QED BY <1>2, <1>3, <1>4, <1>6, <1>8, <1>9, <1>10

\* Acknowledgements that only grow cover the replies on their way.
LEMMA RepliesGrow ==
  ASSUME TypeOK', NEW A, NEW A2, Replies(A),
         \A v \in Server, t \in Nat : A[v][t] \in Nat /\ A2[v][t] \in Nat /\ A2[v][t] >= A[v][t],
         \A r \in appRep' \cup snapRep' :
           r \in appRep \cup snapRep \/ ~ r.success \/ r.matched <= A2[r.src][r.argTerm]
  PROVE  Replies(A2)'
<1>1. ASSUME NEW r \in appRep' \cup snapRep', r.success PROVE r.matched <= A2[r.src][r.argTerm]
  <2>1. r.src \in Server /\ r.argTerm \in Nat /\ r.matched \in Nat
    BY DEF TypeOK, NetTypeOK, AppendEntriesReply, InstallSnapshotReply
  <2>2. CASE r \in appRep \cup snapRep
    <3>1. r.matched <= A[r.src][r.argTerm]
      BY <1>1, <2>2 DEF Replies
    <3>2. A[r.src][r.argTerm] \in Nat /\ A2[r.src][r.argTerm] \in Nat /\ A2[r.src][r.argTerm] >= A[r.src][r.argTerm]
      BY <2>1
    <3> HIDE DEF Replies
    <3> QED BY <2>1, <3>1, <3>2
  <2> QED BY <1>1, <2>2
<1> QED BY <1>1 DEF Replies

\* The candidate of term t takes its log to be the log of the term.
LEMMA WinsExplained ==
  ASSUME Inv, Inv', Next, NEW L, NEW W, NEW A, NEW F, Explains(L, W, A, F), NEW m \in voteRep, Wins(m)
  PROVE  \E L2, W2, A2 : Explains(L2, W2, A2, F)'
<1>0. /\ HistoryTypes(L, W, A, F) /\ Commits(L, A, F) /\ Replies(A) /\ TypeOK /\ TypeOK' /\ VotesGiven
      /\ TermLogs(L, W) /\ PeerLogs(L, W, F) /\ Acks(L, W, A, F) /\ Safe(L, W, A) /\ Backing(L, A, F)
      /\ \A l \in Server : WholeAt(F, l) /\ LeaderAt(L, W, A, F, l) /\ ServiceAt(F, l)
  BY DEF Explains, Inv
<1>1. PICK s \in Server : s = m.dst
  BY TermOpen
<1>2. PICK t \in Nat : t = currentTerm[s]
  BY <1>0 DEF TypeOK, ElectTypeOK
<1>3. /\ state[s] = "Candidate" /\ state' = [state EXCEPT ![s] = "Leader"] /\ currentTerm' = currentTerm
      /\ W[t] = Nil /\ WonBy(s, t)'
  BY <1>1, <1>2, TermOpen
<1>4. PICK P \in VoteQuorum : \A v \in P : Backs(v, s, t)
  BY <1>1, <1>2, TermOpen
<1>5. /\ matchIndex' = [matchIndex EXCEPT ![s] = [p \in Server |-> IF p = s THEN lastIndex(s) ELSE 0]]
      /\ UNCHANGED <<logVars, indexVars, svcVars, appNet, snapNet>>
  BY <1>1 DEF Wins, becomeLeader
<1>6. F[s] \in Seq(Entry) /\ Len(F[s]) \in Nat
  BY <1>0, PastTypes
<1>7. PICK L2 : L2 = [L EXCEPT ![t] = F[s]]
  OBVIOUS
<1>8. PICK W2 : W2 = [W EXCEPT ![t] = s]
  OBVIOUS
<1>9. PICK A2 : A2 = [A EXCEPT ![s][t] = Len(F[s])]
  OBVIOUS
<1>10. HistoryTypes(L2, W2, A2, F)
  BY <1>0, <1>6, <1>7, <1>8, <1>9 DEF HistoryTypes
<1>11. L2[t] = F[s] /\ W2[t] = s /\ A2[s][t] = Len(F[s]) /\ s # Nil
  BY <1>0, <1>7, <1>8, <1>9, ServerAssumption DEF HistoryTypes
<1>12. /\ \A u \in Nat : u # t => L2[u] = L[u] /\ W2[u] = W[u]
       /\ \A v \in Server, u \in Nat : v # s \/ u # t => A2[v][u] = A[v][u]
  BY <1>0, <1>7, <1>8, <1>9 DEF HistoryTypes
<1>13. L[t] \in Seq(Entry) /\ Len(L[t]) = 0 /\ \A v \in Server : A[v][t] = 0
  <2>1. ASSUME NEW v \in Server PROVE A[v][t] = 0
    <3>1. A[v][t] \in Nat /\ AckAt(L, W, A, F, v, t)
      BY <1>0, PastTypes DEF Acks
    <3> QED BY <1>3, <3>1 DEF AckAt
  <2> QED BY <1>0, <1>3, <2>1, PastTypes DEF TermLogs
<1>14. Grown(L, W, F[s], t)
  BY <1>0, <1>2 DEF PeerLogs
<1>15. ASSUME NEW i \in 1 .. Len(F[s]) PROVE F[s][i].term # t
  BY <1>0, <1>3, <1>6, <1>14, GrownEntry
<1>16. Later(L, W, A, L2, W2, A2)
  <2>1. ASSUME NEW u \in Nat PROVE W[u] # Nil => W2[u] = W[u]
    BY <1>3, <1>12
  <2>2. ASSUME NEW u \in Nat PROVE Agree(L[u], L2[u], Len(L[u]))
    <3>1. L[u] \in Seq(Entry) /\ Len(L[u]) \in Nat
      BY <1>0, PastTypes
    <3>2. CASE u # t
      BY <1>12, <3>1, <3>2, AgreeSelf
    <3>3. CASE u = t
      BY <1>6, <1>11, <1>13, <3>3 DEF Agree
    <3> QED BY <3>2, <3>3
  <2>3. ASSUME NEW v \in Server, NEW u \in Nat
        PROVE  /\ A2[v][u] >= A[v][u]
               /\ A2[v][u] = A[v][u] \/ (currentTerm[v] <= u /\ u = currentTerm'[v])
    <3>1. A[v][u] \in Nat /\ A2[v][u] \in Nat /\ currentTerm[s] <= t /\ t = currentTerm'[s]
      BY <1>0, <1>2, <1>3, <1>10, PastTypes DEF TypeOK, ElectTypeOK
    <3>2. CASE v # s \/ u # t
      BY <1>12, <3>1, <3>2
    <3>3. CASE v = s /\ u = t
      BY <1>13, <3>1, <3>3
    <3> QED BY <3>2, <3>3
  <2> QED BY <2>1, <2>2, <2>3 DEF Later
<1> USE <1>0, <1>10, <1>16
<1>20. ASSUME NEW l \in Server PROVE WholeAt(F, l)'
  BY <1>5, WholeSame DEF logVars
<1>21. TermLogs(L2, W2)
  <2>1. ASSUME NEW u \in Nat PROVE (W2[u] = Nil => Len(L2[u]) = 0) /\ Grown(L2, W2, L2[u], u)
    <3>1. CASE u = t
      <4>1. Grown(L2, W2, F[s], t)
        BY <1>6, <1>14, LaterGrown
      <4> QED BY <1>11, <3>1, <4>1
    <3>2. CASE u # t
      <4>1. L[u] \in Seq(Entry)
        BY PastTypes
      <4>2. (W[u] = Nil => Len(L[u]) = 0) /\ Grown(L, W, L[u], u)
        BY DEF TermLogs
      <4>3. Grown(L2, W2, L[u], u)
        BY <4>1, <4>2, LaterGrown
      <4> QED BY <1>12, <3>2, <4>2, <4>3
    <3> QED BY <3>1, <3>2
  <2> QED BY <2>1 DEF TermLogs
<1>22. PeerLogs(L2, W2, F)'
  <2>1. ASSUME NEW l \in Server PROVE Grown(L2, W2, F[l], currentTerm'[l])
    <3>1. PICK u \in Nat : u = currentTerm[l]
      BY DEF TypeOK, ElectTypeOK
    <3>2. F[l] \in Seq(Entry)
      BY PastTypes
    <3>3. Grown(L, W, F[l], u)
      BY <3>1 DEF PeerLogs
    <3>4. Grown(L2, W2, F[l], u)
      BY <3>2, <3>3, LaterGrown
    <3> QED BY <1>3, <3>1, <3>4
  <2> QED BY <2>1 DEF PeerLogs
<1>23. ASSUME NEW u \in Nat PROVE W2[u] = W[u] \/ WonBy(W2[u], u)'
  BY <1>3, <1>11, <1>12
<1>24. ASSUME NEW l \in Server PROVE LeaderAt(L2, W2, A2, F, l)'
  <2> SUFFICES ASSUME state'[l] = "Leader"
               PROVE  /\ W2[currentTerm[l]] = l /\ F[l] = L2[currentTerm[l]]
                      /\ A2[l][currentTerm[l]] = Len(F[l])
                      /\ \A p \in Server : p # l => matchIndex'[l][p] <= A2[p][currentTerm[l]]
    BY <1>3 DEF LeaderAt
  <2>1. CASE l = s
    <3>1. ASSUME NEW p \in Server, p # s PROVE matchIndex'[s][p] <= A2[p][t]
      <4>1. matchIndex'[s][p] = 0
        BY <1>5, <3>1 DEF TypeOK, LeadTypeOK
      <4>2. A2[p][t] \in Nat
        BY PastTypes
      <4> QED BY <4>1, <4>2
    <3> QED BY <1>2, <1>11, <2>1, <3>1
  <2>2. CASE l # s
    <3>1. state[l] = "Leader" /\ matchIndex'[l] = matchIndex[l]
      BY <1>3, <1>5, <2>2 DEF TypeOK, ElectTypeOK, LeadTypeOK
    <3>2. PICK u \in Nat : u = currentTerm[l]
      BY DEF TypeOK, ElectTypeOK
    <3>3. /\ W[u] = l /\ F[l] = L[u] /\ A[l][u] = Len(F[l])
          /\ \A p \in Server : p # l => matchIndex[l][p] <= A[p][u]
      BY <3>1, <3>2 DEF LeaderAt
    <3>4. u # t
      BY <1>3, <3>3, ServerAssumption
    <3> QED BY <1>12, <3>1, <3>2, <3>3, <3>4
  <2> QED BY <2>1, <2>2
<1>25. ASSUME NEW a \in Nat, NEW i \in Nat, Choosable(A2, a, i)' PROVE Choosable(A, a, i)
  BY <1>25, LaterChoosable
<1>26. Acks(L2, W2, A2, F)'
  <2>1. ASSUME NEW v \in Server, NEW u \in Nat, A2[v][u] > 0
        PROVE  /\ W2[u] # Nil /\ u <= currentTerm[v] /\ A2[v][u] <= Len(L2[u])
               /\ u = currentTerm[v] => Agree(F[v], L2[u], A2[v][u])
               /\ \A i \in 1 .. A2[v][u] :
                    L2[u][i].term = u /\ Choosable(A2, u, i)' => Agree(F[v], L2[u], i)
    <3>1. CASE u = t
      <4>1. v = s
        BY <1>12, <1>13, <2>1, <3>1
      <4>2. ASSUME NEW i \in 1 .. Len(F[s]) PROVE Agree(F[s], F[s], i)
        BY <1>6, AgreeSelf
      <4>3. Agree(F[s], F[s], Len(F[s]))
        BY <1>6, AgreeSelf
      <4>4. t <= currentTerm[s] /\ Len(F[s]) <= Len(F[s])
        BY <1>2, <1>6
      <4> QED BY <1>11, <3>1, <4>1, <4>2, <4>3, <4>4
    <3>2. CASE u # t
      <4>1. L2[u] = L[u] /\ W2[u] = W[u] /\ A2[v][u] = A[v][u] /\ A[v][u] \in Nat
        BY <1>12, <3>2, PastTypes
      <4>2. AckAt(L, W, A, F, v, u) /\ A[v][u] > 0
        BY <2>1, <4>1 DEF Acks
      <4>3. /\ W[u] # Nil /\ u <= currentTerm[v] /\ A[v][u] <= Len(L[u])
            /\ u = currentTerm[v] => Agree(F[v], L[u], A[v][u])
            /\ \A i \in 1 .. A[v][u] : L[u][i].term = u /\ Choosable(A, u, i) => Agree(F[v], L[u], i)
        BY <4>2 DEF AckAt
      <4>4. ASSUME NEW i \in 1 .. A[v][u], L[u][i].term = u, Choosable(A2, u, i)'
            PROVE  Agree(F[v], L[u], i)
        <5>1. i \in Nat
          BY <4>1
        <5>2. Choosable(A, u, i)
          BY <1>25, <4>4, <5>1
        <5> QED BY <4>3, <4>4, <5>2
      <4> QED BY <4>1, <4>3, <4>4
    <3> QED BY <3>1, <3>2
  <2> QED BY <1>3, <2>1 DEF Acks, AckAt
<1>27. Safe(L2, W2, A2)'
  <2>1. ASSUME NEW a \in Nat, NEW b \in Nat, a < b, W2[b] # Nil, NEW i \in 1 .. Len(L2[a]),
               L2[a][i].term = a, Choosable(A2, a, i)'
        PROVE  Agree(L2[b], L2[a], i)
    <3>1. a # t
      BY <1>11, <1>15, <2>1
    <3>2. L2[a] = L[a] /\ Len(L[a]) \in Nat
      BY <1>12, <3>1, PastTypes
    <3>3. i \in Nat /\ i > 0
      BY <3>2
    <3>4. Choosable(A, a, i)
      BY <1>25, <2>1, <3>3
    <3>5. CASE b # t
      <4>1. L2[b] = L[b] /\ W[b] # Nil
        BY <1>12, <2>1, <3>5
      <4> QED BY <2>1, <3>2, <3>4, <4>1 DEF Safe
    <3>6. CASE b = t
      <4>1. PICK Q \in CommitQuorum : \A v \in Q : currentTerm[v] <= a \/ A[v][a] >= i
        BY <3>4 DEF Choosable
      <4>2. PICK v \in Server : v \in P /\ v \in Q
        BY QuorumsMeet
      <4>3. Backs(v, s, t) /\ Voted(v, s, t)
        BY <1>4, <4>2 DEF VotesGiven
      <4>4. currentTerm[v] \in Nat /\ currentTerm[v] >= t
        BY <4>3 DEF Voted, TypeOK, ElectTypeOK
      <4>5. A[v][a] \in Nat /\ A[v][a] >= i
        BY <2>1, <3>6, <4>1, <4>2, <4>4, PastTypes
      <4>6. i \in 1 .. A[v][a]
        BY <3>3, <4>5
      <4>7. BackedAt(L, A, F, v, s)
        BY <1>2, <1>3, <4>3 DEF Backing
      <4> QED BY <1>2, <1>11, <2>1, <3>2, <3>4, <3>6, <4>6, <4>7 DEF BackedAt
    <3> QED BY <3>5, <3>6
  <2> QED BY <2>1 DEF Safe
<1>28. Replies(A2)'
  <2>1. ASSUME NEW v \in Server, NEW u \in Nat
        PROVE  A[v][u] \in Nat /\ A2[v][u] \in Nat /\ A2[v][u] >= A[v][u]
    BY PastTypes DEF Later
  <2>2. appRep' = appRep /\ snapRep' = snapRep
    BY <1>5 DEF appNet, snapNet
  <2> QED BY <2>1, <2>2, RepliesGrow
<1>29. Commits(L2, A2, F)'
  <2>1. ASSUME NEW l \in Server PROVE Committed(L2, A2, F[l], commitIndex'[l], currentTerm'[l])
    <3>1. commitIndex'[l] <= commitIndex[l] /\ Agree(F[l], F[l], commitIndex[l])
      BY <1>5, CommitInWhole DEF indexVars
    <3> QED BY <3>1, CommitSame
  <2> QED BY <2>1, CommitsNext
<1>30. ASSUME NEW l \in Server PROVE ServiceAt(F, l)'
  BY <1>5, ServiceSame DEF indexVars, svcVars
<1>31. Explains(L2, W2, A2, F)'
  BY <1>20, <1>21, <1>22, <1>23, <1>24, <1>26, <1>27, <1>28, <1>29, <1>30, ExplainsStep
<1> QED BY <1>31

-----------------------------------------------------------------------------
\* Start: the leader appends

\* A peer still has what it acknowledged, if it keeps of its log what it shares with
\* the leader it acknowledged it to.
LEMMA AckKept ==
  ASSUME Inv, Inv', Next, NEW L, NEW W, NEW A, NEW F, HistoryTypes(L, W, A, F),
         NEW L2, NEW W2, NEW A2, NEW F2, HistoryTypes(L2, W2, A2, F2), Later(L, W, A, L2, W2, A2),
         NEW v \in Server, NEW u \in Nat, AckAt(L, W, A, F, v, u), A2[v][u] = A[v][u],
         \A k \in Nat :
           /\ k > 0 /\ Agree(F[v], L[u], k)
           /\ u = currentTerm'[v] \/ (L[u][k].term = u /\ Choosable(A, u, k))
           => Agree(F2[v], L[u], k)
  PROVE  AckAt(L2, W2, A2, F2, v, u)'
<1>0. /\ A[v][u] \in Nat /\ L[u] \in Seq(Entry) /\ Len(L[u]) \in Nat /\ L2[u] \in Seq(Entry)
      /\ Len(L2[u]) \in Nat /\ F[v] \in Seq(Entry) /\ F2[v] \in Seq(Entry)
  BY PastTypes
<1>1. currentTerm[v] \in Nat /\ currentTerm'[v] \in Nat /\ currentTerm'[v] >= currentTerm[v]
  BY TermGrows DEF Inv
<1> SUFFICES ASSUME A[v][u] > 0
             PROVE  /\ W2[u] # Nil /\ u <= currentTerm'[v] /\ A[v][u] <= Len(L2[u])
                    /\ u = currentTerm'[v] => Agree(F2[v], L2[u], A[v][u])
                    /\ \A i \in 1 .. A[v][u] :
                         L2[u][i].term = u /\ Choosable(A2, u, i)' => Agree(F2[v], L2[u], i)
  BY DEF AckAt
<1>2. /\ W[u] # Nil /\ u <= currentTerm[v] /\ A[v][u] <= Len(L[u])
      /\ u = currentTerm[v] => Agree(F[v], L[u], A[v][u])
      /\ \A i \in 1 .. A[v][u] : L[u][i].term = u /\ Choosable(A, u, i) => Agree(F[v], L[u], i)
  BY DEF AckAt
<1>3. Len(L[u]) <= Len(L2[u]) /\ \A i \in 1 .. Len(L[u]) : L2[u][i] = L[u][i]
  BY LaterEntry
<1>4. W2[u] # Nil
  BY <1>2 DEF Later
<1>5. ASSUME u = currentTerm'[v] PROVE Agree(F2[v], L2[u], A[v][u])
  <2>1. u = currentTerm[v]
    BY <1>1, <1>2, <1>5
  <2>2. Agree(F2[v], L[u], A[v][u])
    BY <1>0, <1>2, <1>5, <2>1
  <2> QED BY <1>0, <2>2, LaterAgree
<1>6. ASSUME NEW i \in 1 .. A[v][u], L2[u][i].term = u, Choosable(A2, u, i)'
      PROVE  Agree(F2[v], L2[u], i)
  <2>1. i \in Nat /\ i > 0 /\ i \in 1 .. Len(L[u])
    BY <1>0, <1>2
  <2>2. L[u][i].term = u
    BY <1>3, <1>6, <2>1
  <2>3. Choosable(A, u, i)
    BY <1>6, <2>1, LaterChoosable
  <2>4. Agree(F[v], L[u], i)
    BY <1>2, <2>2, <2>3
  <2>5. Agree(F2[v], L[u], i)
    BY <2>1, <2>2, <2>3, <2>4
  <2> QED BY <1>0, <2>1, <2>5, LaterAgree
<1>7. u <= currentTerm'[v] /\ A[v][u] <= Len(L2[u])
  BY <1>0, <1>1, <1>2, <1>3
<1> QED BY <1>4, <1>5, <1>6, <1>7

\* A leader goes on as long as nobody touches its log or takes an acknowledgement back.
LEMMA LeaderKept ==
  ASSUME Inv, NEW L, NEW W, NEW A, NEW F, HistoryTypes(L, W, A, F),
         NEW L2, NEW W2, NEW A2, NEW F2, HistoryTypes(L2, W2, A2, F2), Later(L, W, A, L2, W2, A2),
         NEW l \in Server, LeaderAt(L, W, A, F, l),
         state'[l] = "Leader" =>
           /\ state[l] = "Leader" /\ currentTerm'[l] = currentTerm[l] /\ matchIndex'[l] = matchIndex[l]
           /\ F2[l] = F[l] /\ L2[currentTerm[l]] = L[currentTerm[l]]
           /\ A2[l][currentTerm[l]] = A[l][currentTerm[l]]
  PROVE  LeaderAt(L2, W2, A2, F2, l)'
<1> SUFFICES ASSUME state'[l] = "Leader"
             PROVE  /\ W2[currentTerm[l]] = l /\ F2[l] = L2[currentTerm[l]]
                    /\ A2[l][currentTerm[l]] = Len(F2[l])
                    /\ \A p \in Server : p # l => matchIndex[l][p] <= A2[p][currentTerm[l]]
  BY DEF LeaderAt
<1>1. PICK u \in Nat : u = currentTerm[l]
  BY DEF Inv, TypeOK, ElectTypeOK
<1>2. /\ W[u] = l /\ F[l] = L[u] /\ A[l][u] = Len(F[l])
      /\ \A p \in Server : p # l => matchIndex[l][p] <= A[p][u]
  BY <1>1 DEF LeaderAt
<1>3. W2[u] = l
  BY <1>2, ServerAssumption DEF Later
<1>4. ASSUME NEW p \in Server, p # l PROVE matchIndex[l][p] <= A2[p][u]
  <2>1. matchIndex[l][p] \in Nat /\ A[p][u] \in Nat /\ A2[p][u] \in Nat /\ A2[p][u] >= A[p][u]
    BY PastTypes DEF Later, Inv, TypeOK, LeadTypeOK
  <2> QED BY <1>2, <1>4, <2>1
<1> QED BY <1>1, <1>2, <1>3, <1>4

\* The log with one entry more
LEMMA StartWhole ==
  ASSUME TypeOK, SnapshotChain, NEW F, F \in [Server -> Seq(Entry)], NEW s \in Server, WholeAt(F, s),
         NEW c \in Command, Start(s, c), NEW e \in Entry, e = [term |-> currentTerm[s], cmd |-> c],
         NEW F2, F2[s] = Append(F[s], e)
  PROVE  WholeAt(F2, s)'
<1>1. /\ log[s] \in Seq(Entry) /\ Len(log[s]) \in Nat /\ Len(log[s]) >= 1 /\ lastIncludeIndex[s] \in Nat
      /\ lastIndex(s) \in Nat /\ lastIndex(s) = Len(log[s]) + lastIncludeIndex[s] - 1
      /\ lastIndex(s) >= lastIncludeIndex[s]
  BY LastTypes DEF TypeOK, LogTypeOK, lastIndex
<1>2. /\ log'[s] = Append(log[s], e) /\ lastIncludeIndex'[s] = lastIncludeIndex[s]
      /\ lastIncludeTerm'[s] = lastIncludeTerm[s] /\ snapshot'[s] = snapshot[s]
  BY DEF Start, TypeOK, LogTypeOK
<1>3. lastIndex(s)' = lastIndex(s) + 1
  BY StartLastIndex
<1>4. F[s] \in Seq(Entry) /\ Len(F[s]) = lastIndex(s)
  BY DEF WholeAt
<1>5. Len(F2[s]) = lastIndex(s)' /\ \A i \in 1 .. Len(F[s]) : F2[s][i] = F[s][i]
  BY <1>3, <1>4
<1>6. ASSUME NEW i \in lastIncludeIndex[s] + 1 .. lastIndex(s) + 1 PROVE entry(s, i)' = F2[s][i]
  <2> DEFINE x == lastIncludeIndex[s]
             n == Len(log[s])
             h == lastIndex(s)
  <2>0. /\ x \in Nat /\ n \in Nat /\ h \in Nat /\ h = n + x - 1 /\ h >= x /\ i \in x + 1 .. h + 1
        /\ Len(F[s]) = h
    BY <1>1, <1>4, <1>6
  <2>1. entry(s, i)' = Append(log[s], e)[i - lastIncludeIndex[s] + 1]
    BY <1>2 DEF entry, logIdx
  <2>2. CASE i = lastIndex(s) + 1
    <3>1. i - lastIncludeIndex[s] + 1 = Len(log[s]) + 1 /\ i = Len(F[s]) + 1
      <4> SUFFICES i - x + 1 = n + 1 /\ i = h + 1
        BY <2>0
      <4> HIDE DEF x, n, h
      <4>1. i = h + 1
        BY <2>2 DEF h
      <4>2. x \in Nat /\ n \in Nat /\ h \in Nat /\ h = n + x - 1
        BY <2>0
      <4>3. (h + 1) - x + 1 = n + 1
        BY <4>2
      <4>4. i - x + 1 = (h + 1) - x + 1
        BY <4>1
      <4> QED BY <4>1, <4>3, <4>4
    <3> QED BY <1>1, <1>4, <2>1, <3>1
  <2>3. CASE i # lastIndex(s) + 1
    <3>1. /\ i \in lastIncludeIndex[s] + 1 .. lastIndex(s) /\ i \in 1 .. Len(F[s])
          /\ i - lastIncludeIndex[s] + 1 \in 1 .. Len(log[s])
      <4> SUFFICES i \in x + 1 .. h /\ i \in 1 .. h /\ i - x + 1 \in 1 .. n
        BY <2>0
      <4> HIDE DEF x, n, h
      <4>1. i # h + 1
        BY <2>3 DEF h
      <4> QED BY <2>0, <4>1
    <3>2. Append(log[s], e)[i - lastIncludeIndex[s] + 1] = entry(s, i)
      BY <1>1, <3>1 DEF entry, logIdx
    <3>3. entry(s, i) = F[s][i]
      BY <3>1 DEF WholeAt
    <3> QED BY <1>5, <2>1, <3>1, <3>2, <3>3
  <2> QED BY <2>2, <2>3
<1>7. lastIncludeTerm[s] = IF lastIncludeIndex[s] = 0 THEN 0 ELSE F2[s][lastIncludeIndex[s]].term
  <2>1. CASE lastIncludeIndex[s] = 0
    BY <2>1 DEF WholeAt
  <2>2. CASE lastIncludeIndex[s] # 0
    <3>1. lastIncludeIndex[s] \in 1 .. Len(F[s])
      BY <1>1, <1>4, <2>2
    <3> QED BY <1>5, <2>2, <3>1 DEF WholeAt
  <2> QED BY <2>1, <2>2
<1>8. Holds(snapshot[s], F2[s], lastIncludeIndex[s])
  <2>1. Agree(F2[s], F[s], Len(F[s]))
    BY <1>1, <1>3, <1>4, <1>5 DEF Agree
  <2>2. Holds(snapshot[s], F[s], lastIncludeIndex[s]) /\ snapshot[s] \in Seq(Value) /\ F2[s] \in Seq(Entry)
    BY <1>4 DEF WholeAt, TypeOK, LogTypeOK
  <2>3. lastIncludeIndex[s] <= Len(F[s]) /\ Len(F[s]) \in Int /\ lastIncludeIndex[s] \in Int
    BY <1>1, <1>4
  <2> QED BY <1>4, <2>1, <2>2, <2>3, HoldsAgree
<1> QED BY <1>2, <1>3, <1>5, <1>6, <1>7, <1>8 DEF WholeAt

\* One entry more
LEMMA AppendAgree ==
  ASSUME NEW f \in Seq(Entry), NEW e \in Entry
  PROVE  /\ Append(f, e) \in Seq(Entry) /\ Len(Append(f, e)) = Len(f) + 1
         /\ Append(f, e)[Len(f) + 1] = e /\ Agree(Append(f, e), f, Len(f)) /\ Agree(f, Append(f, e), Len(f))
  BY DEF Agree

\* What the service has and will get is committed: it does not depend on the rest of the log.
LEMMA ServiceKept ==
  ASSUME Inv, NEW F, NEW F2, NEW s \in Server, F[s] \in Seq(Entry), F2[s] \in Seq(Entry), ServiceAt(F, s),
         Agree(F2[s], F[s], commitIndex[s]),
         app'[s] = app[s], applyMsgs'[s] = applyMsgs[s],
         \/ pendingSnapshot'[s] = pendingSnapshot[s]
         \/ Holds(pendingSnapshot'[s].data, F2[s], pendingSnapshot'[s].index)
  PROVE  ServiceAt(F2, s)'
<1>0. TypeOK /\ SnapshotChain /\ ApplyPosition
  BY DEF Inv
<1>1. /\ applyIndex[s] \in Nat /\ commitIndex[s] \in Nat /\ applyIndex[s] <= commitIndex[s]
      /\ Len(app[s]) \in Nat /\ Len(applyMsgs[s]) \in Nat /\ BatchEnd(s) \in Nat
      /\ \A k \in 1 .. Len(applyMsgs[s]) : applyMsgs[s][k] \in ApplyMsg
  BY <1>0, PendingTypes DEF SnapshotChain
<1>2. BatchEnd(s) <= applyIndex[s]
  <2>1. CASE pendingSnapshot[s] = Nil
    BY <1>0, <1>1, <2>1 DEF ApplyPosition
  <2>2. CASE pendingSnapshot[s] # Nil
    <3>1. applyIndex[s] > BatchEnd(s)
      BY <1>0, <2>2 DEF ApplyPosition
    <3> QED BY <1>1, <3>1
  <2> QED BY <2>1, <2>2
<1>3. Len(app[s]) <= commitIndex[s]
  <2>1. Len(app[s]) <= applyIndex[s]
    BY <1>0, ApplyInOrderHolds DEF ApplyInOrder
  <2> QED BY <1>1, <2>1
<1>4. ASSUME NEW k \in 1 .. Len(applyMsgs[s])
      PROVE  applyMsgs[s][k].index \in Nat /\ applyMsgs[s][k].index <= commitIndex[s]
  <2>1. CASE SnapshotBatch(s)
    <3>1. BatchEnd(s) = applyMsgs[s][1].index /\ k = 1
      BY <1>1, <2>1 DEF BatchEnd, SnapshotBatch
    <3> QED BY <1>1, <1>2, <3>1
  <2>2. CASE ~ SnapshotBatch(s)
    <3>1. BatchEnd(s) = Len(app[s]) + Len(applyMsgs[s]) /\ CommandBatch(s)
      BY <1>0, <2>2 DEF BatchEnd, ApplyPosition
    <3>2. applyMsgs[s][k].index = Len(app[s]) + k
      BY <3>1 DEF CommandBatch
    <3> DEFINE a == Len(app[s])
               n == Len(applyMsgs[s])
               x == applyMsgs[s][k].index
    <3>3. a \in Nat /\ n \in Nat /\ k \in 1 .. n /\ x = a + k /\ a + n <= applyIndex[s]
      BY <1>1, <1>2, <1>4, <3>1, <3>2
    <3> HIDE DEF a, n, x
    <3>4. x \in Nat /\ x <= commitIndex[s]
      BY <1>1, <3>3
    <3> QED BY <3>4 DEF x
  <2> QED BY <2>1, <2>2
<1>5. Holds(app[s], F2[s], Len(app[s]))
  <2>1. Holds(app[s], F[s], Len(app[s])) /\ app[s] \in Seq(Value)
    BY <1>0 DEF ServiceAt, TypeOK, ApplyTypeOK
  <2> QED BY <1>1, <1>3, <2>1, HoldsAgree
<1>6. ASSUME NEW k \in 1 .. Len(applyMsgs[s]), applyMsgs[s][k].snap
      PROVE  Holds(applyMsgs[s][k].data, F2[s], applyMsgs[s][k].index)
  <2>1. /\ Holds(applyMsgs[s][k].data, F[s], applyMsgs[s][k].index)
        /\ applyMsgs[s][k].data \in Seq(Value)
    BY <1>1, <1>6 DEF ServiceAt, ApplyMsg
  <2> QED BY <1>1, <1>4, <2>1, HoldsAgree
<1>7. ASSUME NEW k \in 1 .. Len(applyMsgs[s]), ~ applyMsgs[s][k].snap
      PROVE  /\ applyMsgs[s][k].index \in 1 .. Len(F2[s])
             /\ applyMsgs[s][k].data = <<F2[s][applyMsgs[s][k].index].cmd>>
  <2>1. /\ applyMsgs[s][k].index \in 1 .. Len(F[s])
        /\ applyMsgs[s][k].data = <<F[s][applyMsgs[s][k].index].cmd>>
    BY <1>7 DEF ServiceAt
  <2>2. applyMsgs[s][k].index \in 1 .. commitIndex[s] /\ commitIndex[s] <= Len(F2[s])
    BY <1>1, <1>4, <2>1 DEF Agree
  <2>3. F2[s][applyMsgs[s][k].index] = F[s][applyMsgs[s][k].index]
    BY <2>2 DEF Agree
  <2>4. Len(F2[s]) \in Nat
    OBVIOUS
  <2> QED BY <1>1, <2>1, <2>2, <2>3, <2>4
<1>8. ASSUME pendingSnapshot[s] # Nil
      PROVE  Holds(pendingSnapshot[s].data, F2[s], pendingSnapshot[s].index)
  <2>1. /\ pendingSnapshot[s].index = applyIndex[s] /\ pendingSnapshot[s].data \in Seq(Value)
        /\ Holds(pendingSnapshot[s].data, F[s], pendingSnapshot[s].index)
    BY <1>0, <1>8 DEF ServiceAt, ApplyPosition, TypeOK, ApplyTypeOK, ApplyMsg
  <2> QED BY <1>1, <2>1, HoldsAgree
<1> QED BY <1>5, <1>6, <1>7, <1>8 DEF ServiceAt

\* The leader's own log grows: nobody else has the entry, so nothing is committed by it
\* and no later leader can have missed it.
LEMMA StartExplained ==
  ASSUME Inv, Inv', Next, NEW L, NEW W, NEW A, NEW F, Explains(L, W, A, F),
         NEW s \in Server, NEW c \in Command, Start(s, c)
  PROVE  \E L2, A2, F2 : /\ Explains(L2, W, A2, F2)'
                         /\ \A l \in Server : Agree(F2[l], F[l], commitIndex[l])
<1>0. /\ HistoryTypes(L, W, A, F) /\ Commits(L, A, F) /\ Replies(A) /\ TypeOK /\ TypeOK' /\ SnapshotChain
      /\ TermLogs(L, W) /\ PeerLogs(L, W, F) /\ Acks(L, W, A, F) /\ Safe(L, W, A) /\ Winners(W)
      /\ \A l \in Server : WholeAt(F, l) /\ LeaderAt(L, W, A, F, l) /\ ServiceAt(F, l)
  BY DEF Explains, Inv
<1>1. PICK t \in Nat : t = currentTerm[s]
  BY <1>0 DEF TypeOK, ElectTypeOK
<1>2. /\ state[s] = "Leader" /\ currentTerm' = currentTerm /\ state' = state /\ matchIndex' = matchIndex
      /\ UNCHANGED <<indexVars, svcVars, appNet, snapNet>>
  BY DEF Start, electVars, leadVars
<1>3. t > 0
  BY <1>1, <1>2 DEF Inv, VotesCounted
<1>4. /\ W[t] = s /\ F[s] = L[t] /\ A[s][t] = Len(F[s]) /\ s # Nil
      /\ \A p \in Server : p # s => matchIndex[s][p] <= A[p][t]
  BY <1>0, <1>1, <1>2, ServerAssumption DEF LeaderAt
<1>5. PICK e \in Entry : e = [term |-> currentTerm[s], cmd |-> c]
  BY <1>0 DEF TypeOK, ElectTypeOK, Entry
<1>6. e.term = t
  BY <1>1, <1>5
<1>7. F[s] \in Seq(Entry) /\ Len(F[s]) \in Nat
  BY <1>0, PastTypes
<1>8. PICK g \in Seq(Entry) : g = Append(F[s], e)
  BY <1>7, AppendAgree
<1>9. /\ Len(g) = Len(F[s]) + 1 /\ g[Len(F[s]) + 1] = e
      /\ Agree(g, F[s], Len(F[s])) /\ Agree(F[s], g, Len(F[s]))
  BY <1>7, <1>8, AppendAgree
<1>10. Len(g) \in Nat /\ \A i \in 1 .. Len(F[s]) : g[i] = F[s][i]
  BY <1>7, <1>9 DEF Agree
<1>11. PICK L2 : L2 = [L EXCEPT ![t] = g]
  OBVIOUS
<1>12. PICK A2 : A2 = [A EXCEPT ![s][t] = Len(g)]
  OBVIOUS
<1>13. PICK F2 : F2 = [F EXCEPT ![s] = g]
  OBVIOUS
<1>14. HistoryTypes(L2, W, A2, F2)
  BY <1>0, <1>10, <1>11, <1>12, <1>13 DEF HistoryTypes
<1>15. L2[t] = g /\ A2[s][t] = Len(g) /\ F2[s] = g
  BY <1>0, <1>11, <1>12, <1>13 DEF HistoryTypes
<1>16. /\ \A u \in Nat : u # t => L2[u] = L[u]
       /\ \A v \in Server, u \in Nat : v # s \/ u # t => A2[v][u] = A[v][u]
       /\ \A v \in Server : v # s => F2[v] = F[v]
  BY <1>0, <1>11, <1>12, <1>13 DEF HistoryTypes
<1>17. Later(L, W, A, L2, W, A2)
  <2>1. ASSUME NEW u \in Nat PROVE Agree(L[u], L2[u], Len(L[u]))
    <3>1. L[u] \in Seq(Entry) /\ Len(L[u]) \in Nat
      BY <1>0, PastTypes
    <3>2. CASE u # t
      BY <1>16, <3>1, <3>2, AgreeSelf
    <3>3. CASE u = t
      BY <1>4, <1>9, <1>15, <3>3
    <3> QED BY <3>2, <3>3
  <2>2. ASSUME NEW v \in Server, NEW u \in Nat
        PROVE  /\ A2[v][u] >= A[v][u]
               /\ A2[v][u] = A[v][u] \/ (currentTerm[v] <= u /\ u = currentTerm'[v])
    <3>1. A[v][u] \in Nat /\ A2[v][u] \in Nat /\ currentTerm[s] <= t /\ t = currentTerm'[s]
      BY <1>0, <1>1, <1>2, <1>14, PastTypes DEF TypeOK, ElectTypeOK
    <3>2. CASE v # s \/ u # t
      BY <1>16, <3>1, <3>2
    <3>3. CASE v = s /\ u = t
      BY <1>4, <1>7, <1>9, <1>15, <3>1, <3>3
    <3> QED BY <3>2, <3>3
  <2> QED BY <2>1, <2>2 DEF Later
<1>18. ASSUME NEW l \in Server, NEW f \in Seq(Entry), NEW k \in Int, Agree(F[l], f, k)
       PROVE  Agree(F2[l], f, k)
  <2>1. CASE l # s
    BY <1>16, <1>18, <2>1
  <2>2. CASE l = s
    <3>1. k <= Len(F[s])
      BY <1>18, <2>2 DEF Agree
    <3>2. Agree(g, F[s], k)
      BY <1>7, <1>9, <3>1, AgreeLess
    <3> QED BY <1>7, <1>15, <1>18, <2>2, <3>2, AgreeTrans
  <2> QED BY <2>1, <2>2
<1>19. ASSUME NEW l \in Server PROVE Agree(F2[l], F[l], commitIndex[l])
  BY <1>0, <1>18, CommitInWhole
<1> USE <1>0, <1>14, <1>17
<1>20. ASSUME NEW l \in Server PROVE WholeAt(F2, l)'
  <2>1. CASE l # s
    <3>1. log'[l] = log[l] /\ lastIncludeIndex'[l] = lastIncludeIndex[l]
      BY <2>1 DEF Start, TypeOK, LogTypeOK
    <3>2. lastIncludeTerm'[l] = lastIncludeTerm[l] /\ snapshot'[l] = snapshot[l]
      BY DEF Start
    <3> QED BY <1>16, <2>1, <3>1, <3>2, WholeSame
  <2>2. CASE l = s
    <3>1. F \in [Server -> Seq(Entry)]
      BY DEF HistoryTypes
    <3> QED BY <1>5, <1>8, <1>15, <2>2, <3>1, StartWhole
  <2> QED BY <2>1, <2>2
<1>21. Grown(L2, W, g, t)
  <2>1. Grown(L2, W, F[s], t)
    <3>1. Grown(L, W, F[s], t)
      BY <1>1 DEF PeerLogs
    <3> QED BY <1>7, <3>1, LaterGrown
  <2>2. ASSUME NEW i \in 1 .. Len(g)
        PROVE  g[i].term \in 1 .. t /\ W[g[i].term] # Nil /\ Agree(g, L2[g[i].term], i)
    <3>1. CASE i = Len(F[s]) + 1
      <4>1. g[i].term = t /\ i = Len(g)
        BY <1>6, <1>9, <3>1
      <4>2. Agree(g, g, Len(g))
        BY <1>10, AgreeSelf
      <4> QED BY <1>3, <1>4, <1>15, <4>1, <4>2
    <3>2. CASE i # Len(F[s]) + 1
      <4>1. i \in 1 .. Len(F[s]) /\ i \in Int
        BY <1>7, <1>9, <3>2
      <4>2. /\ F[s][i].term \in 1 .. t /\ W[F[s][i].term] # Nil
            /\ L2[F[s][i].term] \in Seq(Entry) /\ Agree(F[s], L2[F[s][i].term], i)
        BY <1>7, <2>1, <4>1, GrownEntry
      <4>3. g[i] = F[s][i]
        BY <1>10, <4>1
      <4>4. Agree(F2[s], L2[F[s][i].term], i)
        BY <1>18, <4>1, <4>2
      <4> QED BY <1>15, <4>2, <4>3, <4>4
    <3> QED BY <3>1, <3>2
  <2> QED BY <2>2 DEF Grown
<1>22. TermLogs(L2, W)
  <2>1. ASSUME NEW u \in Nat PROVE (W[u] = Nil => Len(L2[u]) = 0) /\ Grown(L2, W, L2[u], u)
    <3>1. CASE u = t
      BY <1>4, <1>15, <1>21, <3>1
    <3>2. CASE u # t
      <4>1. L[u] \in Seq(Entry)
        BY PastTypes
      <4>2. (W[u] = Nil => Len(L[u]) = 0) /\ Grown(L, W, L[u], u)
        BY DEF TermLogs
      <4>3. Grown(L2, W, L[u], u)
        BY <4>1, <4>2, LaterGrown
      <4> QED BY <1>16, <3>2, <4>2, <4>3
    <3> QED BY <3>1, <3>2
  <2> QED BY <2>1 DEF TermLogs
<1>23. PeerLogs(L2, W, F2)'
  <2>1. ASSUME NEW l \in Server PROVE Grown(L2, W, F2[l], currentTerm'[l])
    <3>1. PICK u \in Nat : u = currentTerm[l]
      BY DEF TypeOK, ElectTypeOK
    <3>2. CASE l = s
      BY <1>1, <1>2, <1>15, <1>21, <3>2
    <3>3. CASE l # s
      <4>1. F[l] \in Seq(Entry)
        BY PastTypes
      <4>2. Grown(L, W, F[l], u)
        BY <3>1 DEF PeerLogs
      <4>3. Grown(L2, W, F[l], u)
        BY <4>1, <4>2, LaterGrown
      <4> QED BY <1>2, <1>16, <3>1, <3>3, <4>3
    <3> QED BY <3>2, <3>3
  <2> QED BY <2>1 DEF PeerLogs
<1>24. ASSUME NEW l \in Server PROVE LeaderAt(L2, W, A2, F2, l)'
  <2>1. CASE l = s
    <3>1. ASSUME NEW p \in Server, p # s PROVE matchIndex'[s][p] <= A2[p][t]
      BY <1>2, <1>4, <1>16, <3>1
    <3> QED BY <1>1, <1>2, <1>4, <1>15, <2>1, <3>1 DEF LeaderAt
  <2>2. CASE l # s
    <3>1. state[l] = "Leader" => currentTerm[l] # t
      BY <1>4, <2>2 DEF LeaderAt
    <3>2. currentTerm[l] \in Nat
      BY DEF TypeOK, ElectTypeOK
    <3> QED BY <1>2, <1>16, <2>2, <3>1, <3>2, LeaderKept
  <2> QED BY <2>1, <2>2
<1>25. ASSUME NEW v \in Server, NEW u \in Nat PROVE AckAt(L2, W, A2, F2, v, u)'
  <2>1. CASE v = s /\ u = t
    <3>1. ASSUME NEW i \in 1 .. Len(g) PROVE Agree(g, g, i)
      BY <1>10, AgreeSelf
    <3>2. Agree(g, g, Len(g)) /\ Len(g) <= Len(g) /\ t <= currentTerm'[s]
      BY <1>1, <1>2, <1>10, AgreeSelf
    <3> QED BY <1>4, <1>15, <2>1, <3>1, <3>2 DEF AckAt
  <2>2. CASE ~ (v = s /\ u = t)
    <3>1. A2[v][u] = A[v][u] /\ AckAt(L, W, A, F, v, u)
      BY <1>16, <2>2 DEF Acks
    <3>2. L[u] \in Seq(Entry)
      BY PastTypes
    <3>3. ASSUME NEW k \in Nat, Agree(F[v], L[u], k) PROVE Agree(F2[v], L[u], k)
      BY <1>18, <3>2, <3>3
    <3> QED BY <3>1, <3>3, AckKept
  <2> QED BY <2>1, <2>2
<1>26. Acks(L2, W, A2, F2)'
  BY <1>25 DEF Acks
<1>27. Safe(L2, W, A2)'
  <2>1. ASSUME NEW a \in Nat, NEW b \in Nat, a < b, W[b] # Nil, NEW i \in 1 .. Len(L2[a]),
               L2[a][i].term = a, Choosable(A2, a, i)'
        PROVE  Agree(L2[b], L2[a], i)
    <3>1. /\ L[a] \in Seq(Entry) /\ L2[a] \in Seq(Entry) /\ Len(L[a]) \in Nat /\ Len(L2[a]) \in Nat
          /\ L[b] \in Seq(Entry) /\ L2[b] \in Seq(Entry)
      BY PastTypes
    <3>2. i \in Nat /\ i > 0 /\ i <= Len(L2[a])
      BY <3>1
    <3>3. Choosable(A, a, i)
      BY <2>1, <3>2, LaterChoosable
    <3>4. CASE i <= Len(L[a])
      <4>1. i \in 1 .. Len(L[a])
        BY <3>1, <3>2, <3>4
      <4>2. L[a][i].term = a
        BY <2>1, <4>1, LaterEntry
      <4>3. Agree(L[b], L[a], i)
        BY <2>1, <3>3, <4>1, <4>2 DEF Safe
      <4>4. Agree(L[b], L2[a], i)
        BY <3>1, <3>2, <4>3, LaterAgree
      <4>5. Agree(L2[a], L[b], i)
        BY <3>1, <3>2, <4>4, AgreeSym
      <4>6. Agree(L2[a], L2[b], i)
        BY <3>1, <3>2, <4>5, LaterAgree
      <4> QED BY <3>1, <3>2, <4>6, AgreeSym
    <3>5. CASE i > Len(L[a])
      <4>1. a = t
        <5>1. L2[a] = L[a] => FALSE
          BY <3>1, <3>2, <3>5
        <5> QED BY <1>16, <5>1
      <4>2. W[b] \in Server /\ WonBy(W[b], b)
        BY <2>1, PastTypes DEF Winners
      <4>3. PICK P \in VoteQuorum : \A v \in P : Voted(v, W[b], b)
        BY <4>2 DEF WonBy
      <4>4. PICK Q \in CommitQuorum : \A v \in Q : currentTerm[v] <= a \/ A2[v][a] >= i
        BY <1>2, <2>1 DEF Choosable
      <4>5. PICK v \in Server : v \in P /\ v \in Q
        BY QuorumsMeet
      <4>6. currentTerm[v] \in Nat /\ currentTerm[v] >= b
        <5>1. currentTerm[v] \in Nat
          BY DEF TypeOK, ElectTypeOK
        <5>2. Voted(v, W[b], b)
          BY <4>3, <4>5
        <5> QED BY <5>1, <5>2 DEF Voted
      <4>7. v # s /\ ~ (currentTerm[v] <= a)
        BY <1>1, <2>1, <4>1, <4>6
      <4>8. A[v][a] >= i /\ A[v][a] \in Nat
        BY <1>16, <4>4, <4>5, <4>7, PastTypes
      <4>9. AckAt(L, W, A, F, v, a) /\ A[v][a] > 0
        BY <3>2, <4>8 DEF Acks
      <4>10. A[v][a] <= Len(L[a])
        BY <4>9 DEF AckAt
      <4> QED BY <3>1, <3>2, <3>5, <4>8, <4>10
    <3> QED BY <3>1, <3>2, <3>4, <3>5
  <2> QED BY <2>1 DEF Safe
<1>28. Replies(A2)'
  <2>1. ASSUME NEW v \in Server, NEW u \in Nat
        PROVE  A[v][u] \in Nat /\ A2[v][u] \in Nat /\ A2[v][u] >= A[v][u]
    BY PastTypes DEF Later
  <2>2. appRep' = appRep /\ snapRep' = snapRep
    BY <1>2 DEF appNet, snapNet
  <2> QED BY <2>1, <2>2, RepliesGrow
<1>29. Commits(L2, A2, F2)'
  <2>1. ASSUME NEW l \in Server PROVE Committed(L2, A2, F2[l], commitIndex'[l], currentTerm'[l])
    <3>1. commitIndex'[l] <= commitIndex[l]
      BY <1>2, CommitInWhole DEF indexVars
    <3> QED BY <1>19, <3>1, CommitSame
  <2> QED BY <2>1, CommitsNext
<1>30. ASSUME NEW l \in Server PROVE ServiceAt(F2, l)'
  <2>1. CASE l # s
    BY <1>2, <1>16, <2>1, ServiceSame DEF indexVars, svcVars
  <2>2. CASE l = s
    <3>1. F[s] \in Seq(Entry) /\ F2[s] \in Seq(Entry)
      BY PastTypes
    <3> QED BY <1>2, <1>19, <2>2, <3>1, ServiceKept DEF indexVars, svcVars
  <2> QED BY <2>1, <2>2
<1>31. ASSUME NEW l \in Server, state'[l] = "Candidate" PROVE F2[l] = F[l]
  BY <1>2, <1>16, <1>31
<1>32. ASSUME NEW u \in Nat PROVE W[u] = W[u] \/ WonBy(W[u], u)'
  OBVIOUS
<1>33. Explains(L2, W, A2, F2)'
  BY <1>20, <1>22, <1>23, <1>24, <1>26, <1>27, <1>28, <1>29, <1>30, <1>31, <1>32, ExplainsStep
<1> QED BY <1>19, <1>33

-----------------------------------------------------------------------------
\* Following a leader

\* The start of a leader's log
LEMMA PrefixLog ==
  ASSUME NEW L, NEW W, NEW A, NEW F, HistoryTypes(L, W, A, F), TermLogs(L, W),
         NEW t \in Nat, NEW n \in Nat, n <= Len(L[t])
  PROVE  /\ SubSeq(L[t], 1, n) \in Seq(Entry) /\ Len(SubSeq(L[t], 1, n)) = n
         /\ Agree(SubSeq(L[t], 1, n), L[t], n) /\ Grown(L, W, SubSeq(L[t], 1, n), t)
<1>1. L[t] \in Seq(Entry) /\ Len(L[t]) \in Nat
  BY PastTypes
<1>2. /\ SubSeq(L[t], 1, n) \in Seq(Entry)
      /\ Len(SubSeq(L[t], 1, n)) = IF 1 <= n THEN n - 1 + 1 ELSE 0
      /\ \A k \in 1 .. n - 1 + 1 : SubSeq(L[t], 1, n)[k] = L[t][1 + k - 1]
  BY <1>1, PartType
<1>3. Len(SubSeq(L[t], 1, n)) = n
  BY <1>2
<1>4. \A k \in 1 .. n : SubSeq(L[t], 1, n)[k] = L[t][k]
  <2>1. ASSUME NEW k \in 1 .. n PROVE SubSeq(L[t], 1, n)[k] = L[t][k]
    <3>1. k \in 1 .. n - 1 + 1 /\ 1 + k - 1 = k
      OBVIOUS
    <3> QED BY <1>2, <3>1
  <2> QED BY <2>1
<1>5. Agree(SubSeq(L[t], 1, n), L[t], n)
  BY <1>3, <1>4 DEF Agree
<1>6. Grown(L, W, L[t], t)
  BY DEF TermLogs
<1> QED BY <1>1, <1>2, <1>3, <1>5, <1>6, GrownPart

\* What a peer has committed is in the log of the leader it now hears of.
LEMMA CommittedThere ==
  ASSUME Inv, NEW L, NEW W, NEW A, NEW F, Explains(L, W, A, F),
         NEW s \in Server, NEW t \in Nat, W[t] # Nil, currentTerm[s] <= t
  PROVE  Agree(F[s], L[t], commitIndex[s])
<1>1. HistoryTypes(L, W, A, F) /\ Commits(L, A, F) /\ Safe(L, W, A)
  BY DEF Explains
<1>2. /\ commitIndex[s] \in Nat /\ currentTerm[s] \in Nat /\ F[s] \in Seq(Entry)
      /\ Committed(L, A, F[s], commitIndex[s], currentTerm[s])
  BY <1>1, CommitInWhole
<1> QED BY <1>1, <1>2, CommittedInLater

\* A step that elects nobody and writes nothing to a leader's log
LEMMA SameTerms ==
  ASSUME Inv, Inv', Next, NEW L, NEW W, NEW A, NEW F, Explains(L, W, A, F),
         NEW A2, NEW F2, HistoryTypes(L, W, A2, F2), Later(L, W, A, L, W, A2),
         \A c \in Server : state'[c] = "Candidate" => F2[c] = F[c],
         \A s \in Server : WholeAt(F2, s)', PeerLogs(L, W, F2)',
         \A s \in Server : LeaderAt(L, W, A2, F2, s)', Acks(L, W, A2, F2)', Replies(A2)',
         Commits(L, A2, F2)', \A s \in Server : ServiceAt(F2, s)'
  PROVE  Explains(L, W, A2, F2)'
<1>1. HistoryTypes(L, W, A, F) /\ Safe(L, W, A) /\ TermLogs(L, W)
  BY DEF Explains
<1>2. Safe(L, W, A2)'
  BY <1>1, SafeSame
<1>3. \A t \in Nat : W[t] = W[t] \/ WonBy(W[t], t)'
  OBVIOUS
<1> QED BY <1>1, <1>2, <1>3, ExplainsStep

\* Peer s follows the leader of term t and acknowledges the first n entries; nothing
\* happens to anybody else.
Follows(s, t, n) ==
  /\ currentTerm' = [currentTerm EXCEPT ![s] = t] /\ state' = [state EXCEPT ![s] = "Follower"]
  /\ UNCHANGED <<leadVars, svcVars>>
  /\ \A l \in Server : l # s =>
       /\ log'[l] = log[l] /\ lastIncludeIndex'[l] = lastIncludeIndex[l]
       /\ lastIncludeTerm'[l] = lastIncludeTerm[l] /\ snapshot'[l] = snapshot[l]
       /\ commitIndex'[l] = commitIndex[l] /\ pendingSnapshot'[l] = pendingSnapshot[l]
  /\ \A r \in appRep' \cup snapRep' :
       r \in appRep \cup snapRep \/ ~ r.success \/ (r.src = s /\ r.argTerm = t /\ r.matched <= n)

\* The log f has the first n entries of g, and all that h shares with g.
Takes(f, g, h, n) == Agree(f, g, n) /\ \A k \in Nat : Agree(h, g, k) => Agree(f, g, k)

\* A peer of term t now has the first n entries of the leader's log, and has given up
\* nothing that it shared with that log: all that was acknowledged or committed stays.
LEMMA FollowExplained ==
  ASSUME Inv, Inv', Next, NEW L, NEW W, NEW A, NEW F, Explains(L, W, A, F),
         NEW s \in Server, NEW t \in Nat, W[t] # Nil, currentTerm[s] <= t,
         NEW n \in Nat, Follows(s, t, n),
         NEW f \in Seq(Entry), Grown(L, W, f, t), Takes(f, L[t], F[s], n),
         NEW F2, F2 = [F EXCEPT ![s] = f], WholeAt(F2, s)',
         \/ commitIndex'[s] <= commitIndex[s]
         \/ commitIndex'[s] <= n /\ Committed(L, A, L[t], commitIndex'[s], t),
         \/ pendingSnapshot'[s] = pendingSnapshot[s]
         \/ Holds(pendingSnapshot'[s].data, f, pendingSnapshot'[s].index)
  PROVE  \E A2 : /\ Explains(L, W, A2, F2)'
                 /\ \A l \in Server : Agree(F2[l], F[l], commitIndex[l])
<1>0. /\ HistoryTypes(L, W, A, F) /\ Commits(L, A, F) /\ Replies(A) /\ TypeOK /\ TypeOK'
      /\ TermLogs(L, W) /\ PeerLogs(L, W, F) /\ Acks(L, W, A, F) /\ Safe(L, W, A)
      /\ \A l \in Server : WholeAt(F, l) /\ LeaderAt(L, W, A, F, l) /\ ServiceAt(F, l)
  BY DEF Explains, Inv
<1>1. /\ currentTerm[s] \in Nat /\ currentTerm'[s] = t /\ state'[s] = "Follower"
      /\ \A l \in Server : l # s => currentTerm'[l] = currentTerm[l] /\ state'[l] = state[l]
  BY <1>0 DEF TypeOK, ElectTypeOK, Follows
<1>2. L[t] \in Seq(Entry) /\ Len(L[t]) \in Nat /\ F[s] \in Seq(Entry) /\ A[s][t] \in Nat /\ Len(F[s]) \in Nat
  BY <1>0, PastTypes
<1>a. /\ Agree(f, L[t], n) /\ \A k \in Nat : Agree(F[s], L[t], k) => Agree(f, L[t], k)
  BY DEF Takes
<1>f. /\ UNCHANGED <<leadVars, svcVars>>
      /\ \A l \in Server : l # s =>
           /\ log'[l] = log[l] /\ lastIncludeIndex'[l] = lastIncludeIndex[l]
           /\ lastIncludeTerm'[l] = lastIncludeTerm[l] /\ snapshot'[l] = snapshot[l]
           /\ commitIndex'[l] = commitIndex[l] /\ pendingSnapshot'[l] = pendingSnapshot[l]
      /\ \A r \in appRep' \cup snapRep' :
           r \in appRep \cup snapRep \/ ~ r.success \/ (r.src = s /\ r.argTerm = t /\ r.matched <= n)
  BY DEF Follows
<1>3. PICK x \in Nat : x = MaxOf(A[s][t], n)
  BY <1>2 DEF MaxOf
<1>4. x >= A[s][t] /\ x >= n /\ x \in {A[s][t], n}
  BY <1>2, <1>3 DEF MaxOf
<1>5. PICK A2 : A2 = [A EXCEPT ![s][t] = x]
  OBVIOUS
<1>6. HistoryTypes(L, W, A2, F2)
  BY <1>0, <1>5 DEF HistoryTypes
<1>7. /\ A2[s][t] = x /\ F2[s] = f
      /\ \A v \in Server, u \in Nat : v # s \/ u # t => A2[v][u] = A[v][u]
      /\ \A v \in Server : v # s => F2[v] = F[v]
  BY <1>0, <1>5 DEF HistoryTypes
<1>8. Later(L, W, A, L, W, A2)
  <2>1. ASSUME NEW u \in Nat PROVE Agree(L[u], L[u], Len(L[u]))
    BY <1>0, PastTypes, AgreeSelf
  <2>2. ASSUME NEW v \in Server, NEW u \in Nat
        PROVE  /\ A2[v][u] >= A[v][u]
               /\ A2[v][u] = A[v][u] \/ (currentTerm[v] <= u /\ u = currentTerm'[v])
    <3>1. A[v][u] \in Nat
      BY <1>0, PastTypes
    <3>2. CASE v # s \/ u # t
      BY <1>7, <3>1, <3>2
    <3>3. CASE v = s /\ u = t
      BY <1>1, <1>4, <1>7, <3>3
    <3> QED BY <3>2, <3>3
  <2> QED BY <2>1, <2>2 DEF Later
<1> USE <1>0, <1>a, <1>f, <1>6, <1>8
<1>9. ASSUME NEW l \in Server PROVE Agree(F2[l], F[l], commitIndex[l])
  <2>1. commitIndex[l] \in Nat /\ Agree(F[l], F[l], commitIndex[l])
    BY CommitInWhole
  <2>2. CASE l # s
    BY <1>7, <2>1, <2>2
  <2>3. CASE l = s
    <3>1. Agree(F[s], L[t], commitIndex[s])
      BY CommittedThere
    <3>2. Agree(f, L[t], commitIndex[s])
      BY <2>1, <2>3, <3>1
    <3> QED BY <1>2, <1>7, <2>1, <2>3, <3>1, <3>2, AgreeBoth
  <2> QED BY <2>2, <2>3
<1>10. ASSUME NEW l \in Server PROVE WholeAt(F2, l)'
  BY <1>7, WholeSame
<1>11. PeerLogs(L, W, F2)'
  <2>1. ASSUME NEW l \in Server PROVE Grown(L, W, F2[l], currentTerm'[l])
    BY <1>1, <1>7 DEF PeerLogs
  <2> QED BY <2>1 DEF PeerLogs
<1>12. ASSUME NEW l \in Server PROVE LeaderAt(L, W, A2, F2, l)'
  <2>1. CASE l = s
    BY <1>1, <2>1 DEF LeaderAt
  <2>2. CASE l # s
    <3>1. currentTerm[l] \in Nat
      BY DEF TypeOK, ElectTypeOK
    <3>2. /\ currentTerm'[l] = currentTerm[l] /\ state'[l] = state[l] /\ matchIndex'[l] = matchIndex[l]
          /\ F2[l] = F[l] /\ A2[l][currentTerm[l]] = A[l][currentTerm[l]]
      BY <1>1, <1>7, <2>2, <3>1 DEF leadVars
    <3>3. LeaderAt(L, W, A, F, l)
      OBVIOUS
    <3> QED BY <3>2, <3>3, LeaderKept
  <2> QED BY <2>1, <2>2
<1>13. ASSUME NEW v \in Server, NEW u \in Nat PROVE AckAt(L, W, A2, F2, v, u)'
  <2>1. AckAt(L, W, A, F, v, u) /\ A[v][u] \in Nat /\ L[u] \in Seq(Entry) /\ Len(L[u]) \in Nat
    BY PastTypes DEF Acks
  <2>2. CASE v # s
    <3>1. F2[v] = F[v] /\ A2[v][u] = A[v][u]
      BY <1>7, <2>2
    <3>2. ASSUME NEW k \in Nat, Agree(F[v], L[u], k) PROVE Agree(F2[v], L[u], k)
      BY <3>1, <3>2
    <3> QED BY <2>1, <3>1, <3>2, AckKept
  <2>3. CASE v = s /\ u # t
    <3>1. CASE A[s][u] = 0
      <4>1. A2[s][u] = 0
        BY <1>7, <2>3, <3>1
      <4> QED BY <2>3, <4>1 DEF AckAt
    <3>2. CASE A[s][u] > 0
      <4>1. u <= currentTerm[s]
        BY <2>1, <2>3, <3>2 DEF AckAt
      <4>2. u < t
        BY <1>1, <2>3, <4>1
      <4>3. ASSUME NEW k \in Nat, k > 0, Agree(F[s], L[u], k), L[u][k].term = u, Choosable(A, u, k)
            PROVE  Agree(f, L[u], k)
        <5>1. k \in 1 .. Len(L[u])
          BY <2>1, <4>3 DEF Agree
        <5>2. Agree(L[t], L[u], k)
          BY <4>2, <4>3, <5>1 DEF Safe
        <5>3. Agree(F[s], L[t], k)
          BY <1>2, <2>1, <4>3, <5>2, AgreeBoth
        <5>4. Agree(f, L[t], k)
          BY <5>3
        <5> QED BY <1>2, <2>1, <5>2, <5>4, AgreeTrans
      <4>4. u # currentTerm'[v] /\ A2[v][u] = A[v][u] /\ F2[v] = f
        BY <1>1, <1>7, <2>3
      <4>5. ASSUME NEW k \in Nat, k > 0, Agree(F[v], L[u], k),
                   u = currentTerm'[v] \/ (L[u][k].term = u /\ Choosable(A, u, k))
            PROVE  Agree(F2[v], L[u], k)
        BY <2>3, <4>3, <4>4, <4>5
      <4> QED BY <2>1, <4>4, <4>5, AckKept
    <3> QED BY <2>1, <2>3, <3>1, <3>2
  <2>4. CASE v = s /\ u = t
    <3>1. A[s][t] > 0 => A[s][t] <= Len(L[t]) /\ Agree(f, L[t], A[s][t])
      <4> SUFFICES ASSUME A[s][t] > 0 PROVE A[s][t] <= Len(L[t]) /\ Agree(f, L[t], A[s][t])
        OBVIOUS
      <4>1. t <= currentTerm[s] /\ A[s][t] <= Len(L[t]) /\ (t = currentTerm[s] => Agree(F[s], L[t], A[s][t]))
        BY <2>1, <2>4 DEF AckAt
      <4>2. t = currentTerm[s]
        BY <1>1, <4>1
      <4> QED BY <1>2, <4>1, <4>2
    <3>2. x > 0 => Agree(f, L[t], x)
      BY <1>2, <1>4, <3>1
    <3>3. x > 0 => x <= Len(L[t])
      BY <3>2 DEF Agree
    <3>4. ASSUME NEW i \in 1 .. x PROVE Agree(f, L[t], i)
      BY <1>2, <3>2, AgreeLess
    <3> QED BY <1>1, <1>7, <2>4, <3>2, <3>3, <3>4 DEF AckAt
  <2> QED BY <2>2, <2>3, <2>4
<1>14. Acks(L, W, A2, F2)'
  BY <1>13 DEF Acks
<1>16. Replies(A2)'
  <2>1. ASSUME NEW v \in Server, NEW u \in Nat
        PROVE  A[v][u] \in Nat /\ A2[v][u] \in Nat /\ A2[v][u] >= A[v][u]
    BY PastTypes DEF Later
  <2>2. ASSUME NEW r \in appRep' \cup snapRep'
        PROVE  r \in appRep \cup snapRep \/ ~ r.success \/ r.matched <= A2[r.src][r.argTerm]
    <3>1. r.matched \in Nat
      BY DEF TypeOK, NetTypeOK, AppendEntriesReply, InstallSnapshotReply
    <3> QED BY <1>4, <1>7, <3>1
  <2> QED BY <2>1, <2>2, RepliesGrow
<1>17. Commits(L, A2, F2)'
  <2>1. ASSUME NEW l \in Server PROVE Committed(L, A2, F2[l], commitIndex'[l], currentTerm'[l])
    <3>1. CASE commitIndex'[l] <= commitIndex[l]
      BY <1>9, <3>1, CommitSame
    <3>2. CASE l = s /\ commitIndex'[s] <= n /\ Committed(L, A, L[t], commitIndex'[s], t)
      <4>1. PICK k \in Nat : k = commitIndex'[s]
        BY DEF TypeOK, ApplyTypeOK
      <4>2. Agree(f, L[t], k)
        BY <1>2, <3>2, <4>1, AgreeLess
      <4>3. Committed(L, A, f, k, t)
        BY <1>2, <3>2, <4>1, <4>2, CommittedAgree
      <4>4. Committed(L, A2, f, k, t)
        BY <4>3, LaterCommitted
      <4> QED BY <1>1, <1>7, <3>2, <4>1, <4>4
    <3>3. commitIndex[l] \in Nat
      BY DEF TypeOK, ApplyTypeOK
    <3> QED BY <3>1, <3>2, <3>3
  <2> QED BY <2>1, CommitsNext
<1>18. ASSUME NEW l \in Server PROVE ServiceAt(F2, l)'
  <2>1. CASE l # s
    BY <1>7, <2>1, ServiceSame DEF svcVars
  <2>2. CASE l = s
    BY <1>2, <1>7, <1>9, <2>2, ServiceKept DEF svcVars
  <2> QED BY <2>1, <2>2
<1>19. ASSUME NEW l \in Server, state'[l] = "Candidate" PROVE F2[l] = F[l]
  BY <1>1, <1>7, <1>19
<1>20. Explains(L, W, A2, F2)'
  BY <1>10, <1>11, <1>12, <1>14, <1>16, <1>17, <1>18, <1>19, SameTerms
<1> QED BY <1>9, <1>20

\* Logs that have an entry of the same term at i agree up to there.
LEMMA SameTermAgree ==
  ASSUME Inv, NEW L, NEW W, NEW A, NEW F, Explains(L, W, A, F), NEW s \in Server, NEW t \in Nat,
         NEW i \in Nat, i > 0, i <= Len(F[s]), i <= Len(L[t]), F[s][i].term = L[t][i].term
  PROVE  Agree(F[s], L[t], i)
<1>1. HistoryTypes(L, W, A, F) /\ TermLogs(L, W) /\ PeerLogs(L, W, F)
  BY DEF Explains
<1>2. PICK u \in Nat : u = currentTerm[s]
  BY DEF Inv, TypeOK, ElectTypeOK
<1>3. F[s] \in Seq(Entry) /\ L[t] \in Seq(Entry)
  BY <1>1, PastTypes
<1>4. Grown(L, W, F[s], u) /\ Grown(L, W, L[t], t)
  BY <1>1, <1>2 DEF PeerLogs, TermLogs
<1> QED BY <1>1, <1>3, <1>4, GrownSame

\* An InstallSnapshot request: what it says, and the step of the peer that follows it
LEMMA InstallFrame ==
  ASSUME Inv, NEW L, NEW W, NEW A, NEW F, Explains(L, W, A, F), NEW m \in snapReq,
         InstallSnapshot(m), skipInstall(m) \/ install(m)
  PROVE  /\ m.dst \in Server /\ m.term \in Nat /\ m.lastIncludeIndex \in Nat /\ m.data \in Seq(Value)
         /\ m.lastIncludeTerm \in Nat /\ m.lastIncludeIndex > 0
         /\ W[m.term] # Nil /\ currentTerm[m.dst] <= m.term
         /\ Holds(m.data, L[m.term], m.lastIncludeIndex)
         /\ m.lastIncludeIndex <= Len(L[m.term])
         /\ m.lastIncludeTerm = L[m.term][m.lastIncludeIndex].term
         /\ Committed(L, A, L[m.term], m.lastIncludeIndex, m.term)
         /\ Follows(m.dst, m.term, m.lastIncludeIndex)
<1>1. TypeOK /\ Requests(L, W, A)
  BY DEF Inv, Explains
<1>2. /\ m.dst \in Server /\ m.src \in Server /\ m.term \in Nat /\ m.lastIncludeIndex \in Nat
      /\ m.data \in Seq(Value) /\ m.lastIncludeTerm \in Nat
  BY <1>1 DEF TypeOK, NetTypeOK, InstallSnapshotArgs
<1>3. InstallSound(L, W, A, m)
  BY <1>1 DEF Requests
<1>4. W[m.term] # Nil
  BY <1>2, <1>3, ServerAssumption DEF InstallSound
<1>5. currentTerm[m.dst] \in Nat /\ m.term >= currentTerm[m.dst]
  BY <1>1, <1>2 DEF skipInstall, install, TypeOK, ElectTypeOK
<1>6. follow(m.dst, m.term) /\ UNCHANGED <<leadVars, svcVars, appNet>>
  BY DEF skipInstall, install, InstallSnapshot
<1>7. snapRep' \in SendReply(snapRep, installReply(m, m.term, TRUE), m.inc = inc[m.src])
  BY DEF skipInstall, install
<1>8. ASSUME NEW r \in snapRep', r \notin snapRep
      PROVE  r.src = m.dst /\ r.argTerm = m.term /\ r.matched <= m.lastIncludeIndex
  <2>1. r = installReply(m, m.term, TRUE)
    BY <1>7, <1>8 DEF SendReply
  <2> QED BY <1>2, <2>1 DEF installReply
<1>9. appRep' = appRep
  BY <1>6 DEF appNet
<1>10. ASSUME NEW l \in Server, l # m.dst
       PROVE  /\ log'[l] = log[l] /\ lastIncludeIndex'[l] = lastIncludeIndex[l]
              /\ lastIncludeTerm'[l] = lastIncludeTerm[l] /\ snapshot'[l] = snapshot[l]
              /\ commitIndex'[l] = commitIndex[l] /\ pendingSnapshot'[l] = pendingSnapshot[l]
  <2>1. CASE skipInstall(m)
    BY <2>1 DEF skipInstall, logVars, indexVars
  <2>2. CASE install(m)
    BY <1>1, <1>10, <2>2 DEF install, TypeOK, LogTypeOK, ApplyTypeOK
  <2> QED BY <2>1, <2>2
<1>11. Follows(m.dst, m.term, m.lastIncludeIndex)
  BY <1>6, <1>8, <1>9, <1>10 DEF Follows, follow
<1> QED BY <1>2, <1>3, <1>4, <1>5, <1>11 DEF InstallSound, Holds

\* A snapshot that is not needed: the follower has everything the leader asks about.
LEMMA SkipExplained ==
  ASSUME Inv, Inv', Next, NEW L, NEW W, NEW A, NEW F, Explains(L, W, A, F), NEW m \in snapReq,
         InstallSnapshot(m), skipInstall(m)
  PROVE  \E A2 : Explains(L, W, A2, F)' /\ \A l \in Server : Agree(F[l], F[l], commitIndex[l])
<1>0. /\ HistoryTypes(L, W, A, F) /\ Commits(L, A, F) /\ PeerLogs(L, W, F) /\ TypeOK /\ SnapshotChain
      /\ \A l \in Server : WholeAt(F, l)
  BY DEF Explains, Inv
<1>1. PICK s \in Server : s = m.dst
  BY InstallFrame
<1>2. PICK t \in Nat : t = m.term
  BY InstallFrame
<1>3. PICK n \in Nat : n = m.lastIncludeIndex
  BY InstallFrame
<1>4. /\ W[t] # Nil /\ currentTerm[s] <= t
      /\ Follows(s, t, n)
  BY <1>1, <1>2, <1>3, InstallFrame
<1>5. UNCHANGED <<logVars, indexVars>>
  BY DEF skipInstall
<1>6. F[s] \in Seq(Entry) /\ L[t] \in Seq(Entry) /\ F = [F EXCEPT ![s] = F[s]]
  BY <1>0, PastTypes DEF HistoryTypes
<1>7. Agree(F[s], L[t], n)
  <2>1. /\ commitIndex[s] \in Nat /\ lastIncludeIndex[s] \in Nat /\ applyIndex[s] \in Nat
        /\ lastIncludeIndex[s] <= applyIndex[s] /\ applyIndex[s] <= commitIndex[s]
    BY <1>0 DEF SnapshotChain, TypeOK, LogTypeOK, ApplyTypeOK
  <2>2. n <= lastIncludeIndex[s] \/ n <= commitIndex[s]
    BY <1>1, <1>3 DEF skipInstall, alreadyHas
  <2>3. n <= commitIndex[s]
    BY <2>1, <2>2
  <2>4. Agree(F[s], L[t], commitIndex[s])
    BY <1>4, CommittedThere
  <2> QED BY <1>6, <2>1, <2>3, <2>4, AgreeLess
<1>8. Grown(L, W, F[s], t)
  <2>1. Grown(L, W, F[s], currentTerm[s]) /\ currentTerm[s] \in Nat
    BY <1>0 DEF PeerLogs, TypeOK, ElectTypeOK
  <2> QED BY <1>4, <1>6, <2>1, GrownLater
<1>9. WholeAt(F, s)'
  BY <1>0, <1>5, WholeSame DEF logVars
<1>10. commitIndex'[s] <= commitIndex[s]
  BY <1>0, <1>5 DEF indexVars, TypeOK, ApplyTypeOK
<1>11. PICK f \in Seq(Entry) : f = F[s]
  BY <1>6
<1>12. pendingSnapshot'[s] = pendingSnapshot[s]
  BY <1>5 DEF indexVars
<1>13. Grown(L, W, f, t) /\ Takes(f, L[t], F[s], n) /\ F = [F EXCEPT ![s] = f]
  BY <1>6, <1>7, <1>8, <1>11 DEF Takes
<1> QED BY <1>4, <1>9, <1>10, <1>12, <1>13, FollowExplained

-----------------------------------------------------------------------------
\* InstallSnapshot

\* The snapshot's last entry is in the follower's log: the rest of the log stays.
LEMMA InstallKeeps ==
  ASSUME Inv, NEW L, NEW W, NEW A, NEW F, Explains(L, W, A, F), NEW m \in snapReq,
         InstallSnapshot(m), install(m),
         lastIndex(m.dst) >= m.lastIncludeIndex,
         entry(m.dst, m.lastIncludeIndex).term = m.lastIncludeTerm
  PROVE  /\ Grown(L, W, F[m.dst], m.term) /\ Takes(F[m.dst], L[m.term], F[m.dst], m.lastIncludeIndex)
         /\ WholeAt(F, m.dst)'
<1>0. /\ HistoryTypes(L, W, A, F) /\ PeerLogs(L, W, F) /\ TypeOK /\ SnapshotChain
      /\ \A l \in Server : WholeAt(F, l)
  BY DEF Explains, Inv
<1>1. PICK s \in Server : s = m.dst
  BY InstallFrame
<1>2. PICK t \in Nat : t = m.term
  BY InstallFrame
<1>3. PICK n \in Nat : n = m.lastIncludeIndex
  BY InstallFrame
<1>4. /\ currentTerm[s] <= t /\ n > 0 /\ m.lastIncludeTerm = L[t][n].term /\ n <= Len(L[t])
      /\ Holds(m.data, L[t], n) /\ m.data \in Seq(Value)
  BY <1>1, <1>2, <1>3, InstallFrame
<1>5. /\ F[s] \in Seq(Entry) /\ L[t] \in Seq(Entry) /\ F \in [Server -> Seq(Entry)]
      /\ lastIncludeIndex[s] \in Nat /\ commitIndex[s] \in Nat /\ lastIndex(s) \in Nat
  BY <1>0, PastTypes, LastTypes DEF HistoryTypes, TypeOK, LogTypeOK, ApplyTypeOK
<1>6. n > lastIncludeIndex[s] /\ n <= lastIndex(s) /\ Len(F[s]) = lastIndex(s)
  BY <1>0, <1>1, <1>3, <1>5 DEF install, alreadyHas, WholeAt
<1>7. entry(s, n).term = F[s][n].term
  <2>1. lastIncludeIndex[s] <= n /\ n # 0
    BY <1>4, <1>5, <1>6
  <2> QED BY <1>0, <1>6, <2>1, WholeTerm
<1>8. Agree(F[s], L[t], n)
  BY <1>1, <1>3, <1>4, <1>6, <1>7, SameTermAgree
<1>9. Grown(L, W, F[s], t)
  <2>1. Grown(L, W, F[s], currentTerm[s]) /\ currentTerm[s] \in Nat
    BY <1>0 DEF PeerLogs, TypeOK, ElectTypeOK
  <2> QED BY <1>4, <1>5, <2>1, GrownLater
<1>10. /\ log'[s] = truncateFront(s, n) /\ lastIncludeIndex'[s] = n
       /\ lastIncludeTerm'[s] = entry(s, n).term /\ snapshot'[s] = m.data
  <2>1. logAfterInstall(m) = truncateFront(s, n)
    BY <1>1, <1>3 DEF logAfterInstall
  <2>2. log'[s] = logAfterInstall(m) /\ lastIncludeIndex'[s] = n
    BY <1>0, <1>1, <1>3 DEF install, TypeOK, LogTypeOK
  <2>3. lastIncludeTerm'[s] = m.lastIncludeTerm /\ snapshot'[s] = m.data
    BY <1>0, <1>1 DEF install, TypeOK, LogTypeOK
  <2> QED BY <1>1, <1>3, <2>1, <2>2, <2>3
<1>11. Holds(m.data, F[s], n)
  BY <1>4, <1>5, <1>8, HoldsAgree
<1>12. WholeAt(F, s)'
  BY <1>0, <1>5, <1>6, <1>10, <1>11, WholeTruncated
<1>13. Takes(F[s], L[t], F[s], n)
  BY <1>8 DEF Takes
<1> QED BY <1>1, <1>2, <1>3, <1>9, <1>12, <1>13

\* The follower's log does not reach the snapshot's last entry, or has another one there:
\* it is the snapshot and nothing else.
LEMMA InstallReplaces ==
  ASSUME Inv, NEW L, NEW W, NEW A, NEW F, Explains(L, W, A, F), NEW m \in snapReq,
         InstallSnapshot(m), install(m),
         ~ (/\ lastIndex(m.dst) >= m.lastIncludeIndex
            /\ entry(m.dst, m.lastIncludeIndex).term = m.lastIncludeTerm),
         NEW f \in Seq(Entry), f = SubSeq(L[m.term], 1, m.lastIncludeIndex),
         NEW F2, F2[m.dst] = f
  PROVE  /\ Grown(L, W, f, m.term) /\ Takes(f, L[m.term], F[m.dst], m.lastIncludeIndex)
         /\ WholeAt(F2, m.dst)'
<1>0. /\ HistoryTypes(L, W, A, F) /\ TermLogs(L, W) /\ TypeOK /\ SnapshotChain
      /\ \A l \in Server : WholeAt(F, l)
  BY DEF Explains, Inv
<1>1. PICK s \in Server : s = m.dst
  BY InstallFrame
<1>2. PICK t \in Nat : t = m.term
  BY InstallFrame
<1>3. PICK n \in Nat : n = m.lastIncludeIndex
  BY InstallFrame
<1>4. /\ n > 0 /\ m.lastIncludeTerm = L[t][n].term /\ n <= Len(L[t])
      /\ Holds(m.data, L[t], n) /\ m.data \in Seq(Value)
  BY <1>1, <1>2, <1>3, InstallFrame
<1>5. /\ F[s] \in Seq(Entry) /\ L[t] \in Seq(Entry) /\ Len(F[s]) = lastIndex(s)
      /\ lastIncludeIndex[s] \in Nat /\ commitIndex[s] \in Nat /\ lastIndex(s) \in Nat
  BY <1>0, PastTypes, LastTypes DEF WholeAt, TypeOK, LogTypeOK, ApplyTypeOK
<1>6. Len(f) = n /\ Agree(f, L[t], n) /\ Grown(L, W, f, t)
  BY <1>0, <1>2, <1>3, <1>4, PrefixLog
<1>7. n > lastIncludeIndex[s]
  BY <1>1, <1>3, <1>5 DEF install, alreadyHas
<1>8. ASSUME NEW k \in Nat, Agree(F[s], L[t], k) PROVE Agree(f, L[t], k)
  <2>1. k <= n
    <3> SUFFICES ASSUME k > n PROVE FALSE
      OBVIOUS
    <3>1. k <= lastIndex(s)
      BY <1>5, <1>8 DEF Agree
    <3>2. lastIndex(s) >= n
      BY <1>5, <3>1
    <3>3. n \in 1 .. k
      BY <1>4
    <3>4. F[s][n] = L[t][n]
      BY <1>8, <3>3 DEF Agree
    <3>5. entry(s, n).term = F[s][n].term
      <4>1. lastIncludeIndex[s] <= n /\ n # 0 /\ n <= lastIndex(s)
        BY <1>4, <1>5, <1>7, <3>2
      <4> QED BY <1>0, <4>1, WholeTerm
    <3> QED BY <1>1, <1>3, <1>4, <3>2, <3>4, <3>5
  <2>2. k <= Len(f) /\ k <= Len(L[t])
    BY <1>4, <1>5, <1>6, <2>1
  <2>3. ASSUME NEW j \in 1 .. k PROVE f[j] = L[t][j]
    <3>1. j \in 1 .. n
      BY <2>1
    <3> QED BY <1>6, <3>1 DEF Agree
  <2> QED BY <2>2, <2>3 DEF Agree
<1>9. Takes(f, L[t], F[s], n)
  BY <1>6, <1>8 DEF Takes
<1>10. /\ Len(log'[s]) = 1 /\ lastIncludeIndex'[s] = n
       /\ lastIncludeTerm'[s] = m.lastIncludeTerm /\ snapshot'[s] = m.data
  <2>1. logAfterInstall(m) = <<[term |-> m.lastIncludeTerm, cmd |-> Nil]>>
    BY DEF logAfterInstall
  <2>2. log'[s] = logAfterInstall(m) /\ lastIncludeIndex'[s] = n
    BY <1>0, <1>1, <1>3 DEF install, TypeOK, LogTypeOK
  <2>3. lastIncludeTerm'[s] = m.lastIncludeTerm /\ snapshot'[s] = m.data
    BY <1>0, <1>1 DEF install, TypeOK, LogTypeOK
  <2>4. Len(<<[term |-> m.lastIncludeTerm, cmd |-> Nil]>>) = 1
    OBVIOUS
  <2> QED BY <2>1, <2>2, <2>3, <2>4
<1>11. lastIndex(s)' = n
  BY <1>10 DEF lastIndex
<1>12. Holds(m.data, f, n)
  <2>1. ASSUME NEW j \in 1 .. n PROVE m.data[j] = f[j].cmd
    BY <1>4, <1>6 DEF Holds, Agree
  <2> QED BY <1>4, <1>6, <2>1 DEF Holds
<1>13. L[t][n].term = f[n].term
  <2>1. n \in 1 .. n
    BY <1>4
  <2> QED BY <1>6, <2>1 DEF Agree
<1>14. n # 0 /\ n + 1 .. n = {}
  BY <1>4
<1>15. WholeAt(F2, s)'
  <2>1. F2[s] = f
    BY <1>1
  <2> QED BY <1>4, <1>6, <1>10, <1>11, <1>12, <1>13, <1>14, <2>1 DEF WholeAt
<1> QED BY <1>1, <1>2, <1>3, <1>6, <1>9, <1>15

\* A snapshot installed
LEMMA InstallExplained ==
  ASSUME Inv, Inv', Next, NEW L, NEW W, NEW A, NEW F, Explains(L, W, A, F), NEW m \in snapReq,
         InstallSnapshot(m), install(m)
  PROVE  \E A2, F2 : Explains(L, W, A2, F2)' /\ \A l \in Server : Agree(F2[l], F[l], commitIndex[l])
<1>0. HistoryTypes(L, W, A, F) /\ TermLogs(L, W) /\ TypeOK
  BY DEF Explains, Inv
<1>1. PICK s \in Server : s = m.dst
  BY InstallFrame
<1>2. PICK t \in Nat : t = m.term
  BY InstallFrame
<1>3. PICK n \in Nat : n = m.lastIncludeIndex
  BY InstallFrame
<1>4. /\ W[t] # Nil /\ currentTerm[s] <= t /\ Follows(s, t, n) /\ n <= Len(L[t])
      /\ Committed(L, A, L[t], n, t) /\ Holds(m.data, L[t], n) /\ m.data \in Seq(Value)
  BY <1>1, <1>2, <1>3, InstallFrame
<1>5. F[s] \in Seq(Entry) /\ L[t] \in Seq(Entry)
  BY <1>0, PastTypes
<1>6. /\ commitIndex'[s] = n
      /\ pendingSnapshot'[s].data = m.data /\ pendingSnapshot'[s].index = n
  <2>1. commitIndex[s] \in Nat /\ ~ (n <= commitIndex[s])
    BY <1>0, <1>1, <1>3 DEF install, alreadyHas, TypeOK, ApplyTypeOK
  <2>2. commitIndex'[s] = MaxOf(commitIndex[s], n)
    BY <1>0, <1>1, <1>3 DEF install, TypeOK, ApplyTypeOK
  <2>3. pendingSnapshot'[s] = [snap |-> TRUE, index |-> n, data |-> m.data]
    BY <1>0, <1>1, <1>3 DEF install, TypeOK, ApplyTypeOK
  <2>4. commitIndex'[s] = n
    BY <2>1, <2>2 DEF MaxOf
  <2> QED BY <2>3, <2>4
<1>7. commitIndex'[s] <= n /\ Committed(L, A, L[t], commitIndex'[s], t)
  BY <1>4, <1>6
<1>8. ASSUME NEW f \in Seq(Entry), NEW F2, F2 = [F EXCEPT ![s] = f], Grown(L, W, f, t),
             Takes(f, L[t], F[s], n), WholeAt(F2, s)'
      PROVE  \E A2 : Explains(L, W, A2, F2)' /\ \A l \in Server : Agree(F2[l], F[l], commitIndex[l])
  <2>1. Agree(f, L[t], n)
    BY <1>8 DEF Takes
  <2>2. Holds(m.data, f, n)
    BY <1>4, <1>5, <2>1, HoldsAgree
  <2>3. Holds(pendingSnapshot'[s].data, f, pendingSnapshot'[s].index)
    BY <1>6, <2>2
  <2> QED BY <1>4, <1>7, <1>8, <2>3, FollowExplained
<1>9. CASE lastIndex(s) >= n /\ entry(s, n).term = m.lastIncludeTerm
  <2>1. Grown(L, W, F[s], t) /\ Takes(F[s], L[t], F[s], n) /\ WholeAt(F, s)'
    BY <1>1, <1>2, <1>3, <1>9, InstallKeeps
  <2>2. F = [F EXCEPT ![s] = F[s]]
    BY <1>0 DEF HistoryTypes
  <2>3. PICK f \in Seq(Entry) : f = F[s]
    BY <1>5
  <2> QED BY <1>8, <2>1, <2>2, <2>3
<1>10. CASE ~ (lastIndex(s) >= n /\ entry(s, n).term = m.lastIncludeTerm)
  <2>1. PICK f \in Seq(Entry) : f = SubSeq(L[t], 1, n)
    BY <1>0, <1>4, PrefixLog
  <2>2. PICK F2 : F2 = [F EXCEPT ![s] = f]
    OBVIOUS
  <2>3. F2[s] = f
    BY <1>0, <2>2 DEF HistoryTypes
  <2>4. Grown(L, W, f, t) /\ Takes(f, L[t], F[s], n) /\ WholeAt(F2, s)'
    BY <1>1, <1>2, <1>3, <1>10, <2>1, <2>3, InstallReplaces
  <2> QED BY <1>8, <2>2, <2>4
<1> QED BY <1>9, <1>10

-----------------------------------------------------------------------------
\* AppendEntries

\* An AppendEntries request: what it says, and the step of the peer that follows it
LEMMA AcceptFrame ==
  ASSUME Inv, NEW L, NEW W, NEW A, NEW F, Explains(L, W, A, F), NEW m \in appReq,
         AppendEntries(m), accept(m)
  PROVE  /\ m.dst \in Server /\ m.term \in Nat /\ m.prevLogIndex \in Nat /\ m.leaderCommit \in Nat
         /\ m.entries \in Seq(Entry) /\ Len(m.entries) \in Nat
         /\ W[m.term] # Nil /\ currentTerm[m.dst] <= m.term
         /\ m.prevLogIndex + Len(m.entries) <= Len(L[m.term])
         /\ m.prevLogTerm = IF m.prevLogIndex = 0 THEN 0 ELSE L[m.term][m.prevLogIndex].term
         /\ \A k \in 1 .. Len(m.entries) : m.entries[k] = L[m.term][m.prevLogIndex + k]
         /\ Committed(L, A, L[m.term], m.leaderCommit, m.term)
         /\ Follows(m.dst, m.term, m.prevLogIndex + Len(m.entries))
<1>1. TypeOK /\ Requests(L, W, A)
  BY DEF Inv, Explains
<1>2. /\ m.dst \in Server /\ m.src \in Server /\ m.term \in Nat /\ m.prevLogIndex \in Nat
      /\ m.leaderCommit \in Nat /\ m.entries \in Seq(Entry) /\ Len(m.entries) \in Nat
  BY <1>1 DEF TypeOK, NetTypeOK, AppendEntriesArgs
<1>3. AppendSound(L, W, A, m)
  BY <1>1 DEF Requests
<1>4. W[m.term] # Nil
  BY <1>2, <1>3, ServerAssumption DEF AppendSound
<1>5. currentTerm[m.dst] \in Nat /\ m.term >= currentTerm[m.dst]
  BY <1>1, <1>2 DEF accept, TypeOK, ElectTypeOK
<1>6. follow(m.dst, m.term) /\ UNCHANGED <<leadVars, svcVars, snapNet, pendingSnapshot>>
  BY DEF accept, AppendEntries
<1>7. appRep' \in SendReply(appRep, appendReply(m, m.term, TRUE, -1, -1), m.inc = inc[m.src])
  BY DEF accept
<1>8. ASSUME NEW r \in appRep', r \notin appRep
      PROVE  r.src = m.dst /\ r.argTerm = m.term /\ r.matched <= m.prevLogIndex + Len(m.entries)
  <2>1. r = appendReply(m, m.term, TRUE, -1, -1)
    BY <1>7, <1>8 DEF SendReply
  <2> QED BY <1>2, <2>1 DEF appendReply
<1>9. snapRep' = snapRep
  BY <1>6 DEF snapNet
<1>10. ASSUME NEW l \in Server, l # m.dst
       PROVE  /\ log'[l] = log[l] /\ lastIncludeIndex'[l] = lastIncludeIndex[l]
              /\ lastIncludeTerm'[l] = lastIncludeTerm[l] /\ snapshot'[l] = snapshot[l]
              /\ commitIndex'[l] = commitIndex[l] /\ pendingSnapshot'[l] = pendingSnapshot[l]
  <2>1. log'[l] = log[l]
    BY <1>1, <1>10 DEF accept, TypeOK, LogTypeOK
  <2> QED BY <1>1, <1>6, <1>10, <2>1 DEF accept, TypeOK, ApplyTypeOK
<1>11. Follows(m.dst, m.term, m.prevLogIndex + Len(m.entries))
  BY <1>6, <1>8, <1>9, <1>10 DEF Follows, follow
<1> QED BY <1>2, <1>3, <1>4, <1>5, <1>11 DEF AppendSound

\* commitIndex is capped by what the request covers.
LEMMA AcceptCommits ==
  ASSUME Inv, Inv', NEW L, NEW W, NEW A, NEW F, Explains(L, W, A, F), NEW m \in appReq,
         AppendEntries(m), accept(m), NEW n \in Nat, n = m.prevLogIndex + Len(m.entries),
         NEW t \in Nat, t = m.term
  PROVE  \/ commitIndex'[m.dst] <= commitIndex[m.dst]
         \/ commitIndex'[m.dst] <= n /\ Committed(L, A, L[t], commitIndex'[m.dst], t)
<1>0. TypeOK /\ TypeOK' /\ HistoryTypes(L, W, A, F)
  BY DEF Inv, Explains
<1>1. PICK s \in Server : s = m.dst
  BY AcceptFrame
<1>2. PICK c \in Nat : c = m.leaderCommit
  BY AcceptFrame
<1>3. PICK d \in Nat : d = commitIndex'[s]
  BY <1>0 DEF TypeOK, ApplyTypeOK
<1>4. commitIndex[s] \in Nat /\ d = followCommit(s, c, n)
  BY <1>0, <1>1, <1>2, <1>3 DEF accept, TypeOK, ApplyTypeOK
<1>5. Committed(L, A, L[t], c, t) /\ L[t] \in Seq(Entry)
  BY <1>0, <1>2, AcceptFrame, PastTypes
<1>6. d <= commitIndex[s] \/ (d <= n /\ d <= c)
  BY <1>4 DEF followCommit, MaxOf, MinOf
<1>7. ASSUME d <= c PROVE Committed(L, A, L[t], d, t)
  BY <1>0, <1>5, <1>7, CommittedLess
<1> QED BY <1>1, <1>3, <1>6, <1>7

\* The follower has the leader's log up to PrevLogIndex: its entry there has the same term,
\* or is compacted and hence committed.
LEMMA PrevAgree ==
  ASSUME Inv, NEW L, NEW W, NEW A, NEW F, Explains(L, W, A, F), NEW m \in appReq,
         AppendEntries(m), accept(m), NEW i \in Nat,
         i <= m.prevLogIndex \/ i <= lastIncludeIndex[m.dst]
  PROVE  Agree(F[m.dst], L[m.term], i)
<1>0. /\ TypeOK /\ SnapshotChain /\ HistoryTypes(L, W, A, F) /\ \A l \in Server : WholeAt(F, l)
  BY DEF Inv, Explains
<1>1. PICK s \in Server : s = m.dst
  BY AcceptFrame
<1>2. PICK t \in Nat : t = m.term
  BY AcceptFrame
<1>3. PICK p \in Nat : p = m.prevLogIndex
  BY AcceptFrame
<1>4. /\ F[s] \in Seq(Entry) /\ L[t] \in Seq(Entry) /\ Len(F[s]) = lastIndex(s) /\ Len(L[t]) \in Nat
      /\ lastIncludeIndex[s] \in Nat /\ commitIndex[s] \in Nat /\ lastIndex(s) \in Nat
      /\ lastIncludeIndex[s] <= commitIndex[s]
  <2>1. applyIndex[s] \in Nat /\ commitIndex[s] \in Nat /\ lastIncludeIndex[s] \in Nat
    BY <1>0 DEF TypeOK, LogTypeOK, ApplyTypeOK
  <2>2. lastIncludeIndex[s] <= applyIndex[s] /\ applyIndex[s] <= commitIndex[s]
    BY <1>0 DEF SnapshotChain
  <2>3. lastIndex(s) \in Nat /\ Len(F[s]) = lastIndex(s)
    BY <1>0, LastTypes DEF WholeAt, TypeOK
  <2> QED BY <1>0, <2>1, <2>2, <2>3, PastTypes
<1>5. /\ W[t] # Nil /\ currentTerm[s] <= t /\ p <= Len(L[t])
      /\ m.prevLogTerm = IF p = 0 THEN 0 ELSE L[t][p].term
  <2>1. Len(m.entries) \in Nat /\ p + Len(m.entries) <= Len(L[t])
    BY <1>2, <1>3, AcceptFrame
  <2>2. p <= Len(L[t])
    BY <1>4, <2>1
  <2> QED BY <1>1, <1>2, <1>3, <2>2, AcceptFrame
<1>6. Agree(F[s], L[t], commitIndex[s])
  BY <1>5, CommittedThere
<1>7. CASE i <= lastIncludeIndex[s]
  <2>1. i <= commitIndex[s]
    BY <1>4, <1>7
  <2> QED BY <1>1, <1>2, <1>4, <1>6, <2>1, AgreeLess
<1>8. CASE i <= p /\ i > lastIncludeIndex[s]
  <2>1. p <= lastIndex(s) /\ ~ mismatch(m)
    BY <1>1, <1>3 DEF accept
  <2>2. p >= lastIncludeIndex[s] /\ p > 0
    BY <1>4, <1>8
  <2>3. entry(s, p).term = m.prevLogTerm
    BY <1>1, <1>3, <2>1, <2>2 DEF mismatch
  <2>4. entry(s, p).term = F[s][p].term
    <3>1. lastIncludeIndex[s] <= p /\ p # 0
      BY <1>4, <2>2
    <3> QED BY <1>0, <2>1, <3>1, WholeTerm
  <2>5. Agree(F[s], L[t], p)
    <3>1. F[s][p].term = L[t][p].term /\ p <= Len(F[s])
      BY <1>4, <1>5, <2>1, <2>2, <2>3, <2>4
    <3> QED BY <1>5, <2>2, <3>1, SameTermAgree
  <2> QED BY <1>1, <1>2, <1>4, <1>8, <2>5, AgreeLess
<1> QED BY <1>1, <1>3, <1>4, <1>7, <1>8

\* The follower looks for conflicts where its log and the leader's really differ.
LEMMA ConflictAt ==
  ASSUME Inv, NEW L, NEW W, NEW A, NEW F, Explains(L, W, A, F), NEW m \in appReq,
         AppendEntries(m), accept(m), NEW j \in Nat,
         j > m.prevLogIndex, j > lastIncludeIndex[m.dst], j <= lastIndex(m.dst),
         j <= m.prevLogIndex + Len(m.entries)
  PROVE  /\ j > 0 /\ j <= Len(F[m.dst]) /\ j <= Len(L[m.term])
         /\ j \notin conflicts(m) <=> F[m.dst][j].term = L[m.term][j].term
<1>0. /\ TypeOK /\ SnapshotChain /\ HistoryTypes(L, W, A, F) /\ \A l \in Server : WholeAt(F, l)
  BY DEF Inv, Explains
<1>1. PICK s \in Server : s = m.dst
  BY AcceptFrame
<1>2. PICK t \in Nat : t = m.term
  BY AcceptFrame
<1>3. PICK p \in Nat : p = m.prevLogIndex
  BY AcceptFrame
<1>4. PICK q \in Nat : q = Len(m.entries)
  BY AcceptFrame
<1>5. PICK x \in Nat : x = lastIncludeIndex[s]
  BY <1>0 DEF TypeOK, LogTypeOK
<1>6. PICK h \in Nat : h = lastIndex(s)
  BY <1>0, LastTypes DEF TypeOK
<1>7. j > p /\ j > x /\ j <= h /\ j <= p + q
  BY <1>1, <1>3, <1>4, <1>5, <1>6
<1>8. Len(F[s]) = h /\ p + q <= Len(L[t]) /\ Len(L[t]) \in Nat
  BY <1>0, <1>2, <1>3, <1>4, <1>6, AcceptFrame, PastTypes DEF WholeAt
<1>9. entry(s, j).term = F[s][j].term
  <2>1. lastIncludeIndex[s] <= j /\ j <= lastIndex(s) /\ j # 0
    BY <1>5, <1>6, <1>7
  <2> QED BY <1>0, <2>1, WholeTerm
<1>10. m.entries[j - p] = L[t][j]
  <2>1. j - p \in 1 .. q /\ p + (j - p) = j
    BY <1>7
  <2>2. \A k \in 1 .. q : m.entries[k] = L[t][p + k]
    BY <1>2, <1>3, <1>4, AcceptFrame
  <2> QED BY <2>1, <2>2
<1>11. j \in MaxOf(p, x) + 1 .. MinOf(h, p + q)
  BY <1>7 DEF MaxOf, MinOf
<1>12. j \in conflicts(m) <=> entry(s, j).term # m.entries[j - p].term
  BY <1>1, <1>3, <1>4, <1>5, <1>6, <1>11 DEF conflicts
<1>13. j > 0 /\ j <= h /\ j <= Len(L[t])
  BY <1>7, <1>8
<1> QED BY <1>1, <1>2, <1>8, <1>9, <1>10, <1>12, <1>13

\* What the follower keeps it has in common with the leader, and it cuts its log only
\* where they differ.
LEMMA KeepAgree ==
  ASSUME Inv, NEW L, NEW W, NEW A, NEW F, Explains(L, W, A, F), NEW m \in appReq,
         AppendEntries(m), accept(m), NEW k \in keepUpTo(m),
         NEW n \in Nat, n = m.prevLogIndex + Len(m.entries)
  PROVE  /\ k \in Nat /\ k >= m.prevLogIndex /\ k >= lastIncludeIndex[m.dst] /\ k <= lastIndex(m.dst)
         /\ \A j \in Nat : j <= k /\ j <= n => Agree(F[m.dst], L[m.term], j)
         /\ k < n => \A j \in Nat : Agree(F[m.dst], L[m.term], j) => j <= k
         /\ k >= n => k = lastIndex(m.dst)
<1>0. /\ TypeOK /\ SnapshotChain /\ HistoryTypes(L, W, A, F) /\ \A l \in Server : WholeAt(F, l)
  BY DEF Inv, Explains
<1>1. PICK s \in Server : s = m.dst
  BY AcceptFrame
<1>2. PICK t \in Nat : t = m.term
  BY AcceptFrame
<1>3. PICK p \in Nat : p = m.prevLogIndex
  BY AcceptFrame
<1>4. PICK x \in Nat : x = lastIncludeIndex[s]
  BY <1>0 DEF TypeOK, LogTypeOK
<1>5. PICK h \in Nat : h = lastIndex(s)
  BY <1>0, LastTypes DEF TypeOK
<1>6. k \in Nat /\ k >= x /\ k >= p /\ k <= h
  <2>1. p <= h
    BY <1>1, <1>3, <1>5 DEF accept
  <2>2. k \in Int /\ k >= x /\ k >= p /\ k <= h
    BY <1>0, <1>1, <1>3, <1>4, <1>5, <2>1, KeepRange
  <2> QED BY <2>2
<1>7. F[s] \in Seq(Entry) /\ L[t] \in Seq(Entry) /\ Len(F[s]) = h
  BY <1>0, <1>5, PastTypes DEF WholeAt
<1>8. \/ conflicts(m) = {} /\ k = h
      \/ k + 1 \in conflicts(m) /\ \A e \in conflicts(m) : k + 1 <= e
  <2>1. CASE conflicts(m) = {}
    BY <1>1, <1>5, <2>1 DEF keepUpTo
  <2>2. CASE conflicts(m) # {}
    <3>1. PICK c \in conflicts(m) : k = c - 1 /\ \A e \in conflicts(m) : c <= e
      BY <2>2 DEF keepUpTo
    <3>2. c \in Int
      BY <1>0, <1>1, <1>3, <1>4, <1>5, <3>1, AcceptFrame DEF conflicts, MaxOf, MinOf
    <3>3. k + 1 = c
      BY <3>1, <3>2
    <3> QED BY <3>1, <3>3
  <2> QED BY <2>1, <2>2
<1>9. ASSUME NEW j \in Nat, j <= k, j <= n PROVE Agree(F[s], L[t], j)
  <2>1. CASE j <= p \/ j <= x
    BY <1>1, <1>2, <1>3, <1>4, <2>1, PrevAgree
  <2>2. CASE j > p /\ j > x
    <3>1. j <= h
      BY <1>6, <1>9
    <3>2. /\ j > 0 /\ j <= Len(F[s]) /\ j <= Len(L[t])
          /\ j \notin conflicts(m) <=> F[s][j].term = L[t][j].term
      BY <1>1, <1>2, <1>3, <1>4, <1>5, <1>9, <2>2, <3>1, ConflictAt
    <3>3. j \notin conflicts(m)
      <4> SUFFICES ASSUME j \in conflicts(m) PROVE FALSE
        OBVIOUS
      <4>1. k + 1 <= j
        BY <1>8
      <4> QED BY <1>6, <1>9, <4>1
    <3> QED BY <3>2, <3>3, SameTermAgree
  <2> QED BY <2>1, <2>2
<1>10. ASSUME k < n, NEW j \in Nat, Agree(F[s], L[t], j) PROVE j <= k
  <2>1. CASE k = h
    BY <1>7, <1>10, <2>1 DEF Agree
  <2>2. CASE k # h
    <3>1. k + 1 \in conflicts(m)
      BY <1>8, <2>2
    <3>2. k + 1 \in Nat /\ k + 1 > p /\ k + 1 > x /\ k + 1 <= h /\ k + 1 <= n /\ k + 1 > 0
      BY <1>6, <1>10, <2>2
    <3>3. F[s][k + 1].term # L[t][k + 1].term
      <4>1. PICK c \in Nat : c = k + 1
        BY <3>2
      <4>2. c > p /\ c > x /\ c <= h /\ c <= n /\ c \in conflicts(m)
        BY <3>1, <3>2, <4>1
      <4>3. F[s][c].term # L[t][c].term
        BY <1>1, <1>2, <1>3, <1>4, <1>5, <4>2, ConflictAt
      <4> QED BY <4>1, <4>3
    <3>4. ASSUME j > k PROVE FALSE
      <4>1. k + 1 \in 1 .. j
        BY <1>6, <3>4
      <4> QED BY <1>10, <3>3, <4>1 DEF Agree
    <3> QED BY <1>6, <3>4
  <2> QED BY <2>1, <2>2
<1>11. ASSUME k >= n PROVE k = h
  <2> SUFFICES ASSUME k + 1 \in conflicts(m) PROVE FALSE
    BY <1>8
  <2>1. k + 1 <= MinOf(h, n)
    BY <1>1, <1>5 DEF conflicts
  <2> QED BY <1>6, <1>11, <2>1 DEF MinOf
<1> QED BY <1>1, <1>2, <1>3, <1>4, <1>5, <1>6, <1>9, <1>10, <1>11

\* The first i entries of a and those of b from j on
LEMMA Splice ==
  ASSUME NEW a \in Seq(Entry), NEW b \in Seq(Entry), NEW i \in Nat, i >= 1, i <= Len(a),
         NEW j \in Nat, j >= 1, j <= Len(b),
         NEW g, g = SubSeq(a, 1, i) \o SubSeq(b, j, Len(b))
  PROVE  /\ Len(g) = i + (Len(b) - j + 1)
         /\ \A y \in 1 .. i : g[y] = a[y]
         /\ \A y \in 1 .. Len(b) - j + 1 : g[i + y] = b[j + y - 1]
<1>1. Len(b) \in Nat /\ Len(a) \in Nat
  OBVIOUS
<1>2. PICK c \in Seq(Entry) : c = SubSeq(a, 1, i)
  <2>1. SubSeq(a, 1, i) \in Seq(Entry)
    BY <1>1, PartType
  <2> QED BY <2>1
<1>3. PICK d \in Seq(Entry) : d = SubSeq(b, j, Len(b))
  <2>1. SubSeq(b, j, Len(b)) \in Seq(Entry)
    BY <1>1, PartType
  <2> QED BY <2>1
<1>4. PICK q \in Nat : q = Len(b) - j + 1
  <2>1. PICK z \in Nat : z = Len(b)
    BY <1>1
  <2>2. z - j + 1 \in Nat
    BY <2>1
  <2> QED BY <2>1, <2>2
<1>5. Len(c) = i /\ \A y \in 1 .. i : c[y] = a[y]
  <2>1. /\ Len(c) = IF 1 <= i THEN i - 1 + 1 ELSE 0
        /\ \A y \in 1 .. i - 1 + 1 : c[y] = a[1 + y - 1]
    BY <1>1, <1>2, PartType
  <2>2. i - 1 + 1 = i /\ \A y \in 1 .. i : 1 + y - 1 = y
    OBVIOUS
  <2> QED BY <2>1, <2>2
<1>6. Len(d) = q /\ \A y \in 1 .. q : d[y] = b[j + y - 1]
  BY <1>1, <1>3, <1>4, PartType
<1>7. /\ g = c \o d /\ Len(g) = i + q
      /\ \A y \in 1 .. i + q : g[y] = IF y <= i THEN c[y] ELSE d[y - i]
  <2>1. /\ Len(c \o d) = Len(c) + Len(d)
        /\ \A y \in 1 .. Len(c) + Len(d) :
             (c \o d)[y] = IF y <= Len(c) THEN c[y] ELSE d[y - Len(c)]
    BY ConcatProperties
  <2>2. g = c \o d /\ Len(c) = i /\ Len(d) = q
    BY <1>2, <1>3, <1>5, <1>6
  <2> QED BY <2>1, <2>2
<1>8. ASSUME NEW y \in 1 .. i PROVE g[y] = a[y]
  <2>1. y \in 1 .. i + q /\ y <= i
    BY <1>4
  <2> QED BY <1>5, <1>7, <2>1
<1>9. ASSUME NEW y \in 1 .. q PROVE g[i + y] = b[j + y - 1]
  <2>1. i + y \in 1 .. i + q /\ ~ (i + y <= i) /\ (i + y) - i = y
    BY <1>4
  <2> QED BY <1>6, <1>7, <2>1
<1> QED BY <1>4, <1>7, <1>8, <1>9

\* All of a and nothing of b
LEMMA SpliceNone ==
  ASSUME NEW a \in Seq(Entry), NEW b \in Seq(Entry), NEW j \in Nat, j > Len(b)
  PROVE  SubSeq(a, 1, Len(a)) \o SubSeq(b, j, Len(b)) = a
<1>1. Len(b) \in Nat /\ Len(a) \in Nat
  OBVIOUS
<1>2. SubSeq(b, j, Len(b)) = <<>>
  BY <1>1
<1>3. SubSeq(a, 1, Len(a)) = a
  OBVIOUS
<1> QED BY <1>2, <1>3, ConcatEmptySeq

\* The log cut back to k and extended by the rest of the batch is the end of the
\* leader's log up to n.
LEMMA ExtendedWhole ==
  ASSUME Inv, NEW L, NEW W, NEW A, NEW F, Explains(L, W, A, F), NEW m \in appReq,
         AppendEntries(m), accept(m), NEW k \in keepUpTo(m), log'[m.dst] = extended(m, k),
         NEW n \in Nat, n = m.prevLogIndex + Len(m.entries), k < n,
         NEW f \in Seq(Entry), f = SubSeq(L[m.term], 1, n), NEW F2, F2[m.dst] = f
  PROVE  WholeAt(F2, m.dst)'
<1>0. /\ TypeOK /\ SnapshotChain /\ HistoryTypes(L, W, A, F) /\ TermLogs(L, W) /\ \A l \in Server : WholeAt(F, l)
  BY DEF Inv, Explains
<1>1. PICK s \in Server : s = m.dst
  BY AcceptFrame
<1>2. PICK t \in Nat : t = m.term
  BY AcceptFrame
<1>3. PICK p \in Nat : p = m.prevLogIndex
  BY AcceptFrame
<1>4. PICK q \in Nat : q = Len(m.entries)
  BY AcceptFrame
<1>5. PICK x \in Nat : x = lastIncludeIndex[s]
  BY <1>0 DEF TypeOK, LogTypeOK
<1>6. PICK h \in Nat : h = lastIndex(s)
  BY <1>0, LastTypes DEF TypeOK
<1>7. /\ k \in Nat /\ k >= p /\ k >= x /\ k <= h /\ n = p + q /\ k < n
      /\ \A j \in Nat : j <= k /\ j <= n => Agree(F[s], L[t], j)
  BY <1>1, <1>2, <1>3, <1>4, <1>5, <1>6, KeepAgree
<1>8. Agree(F[s], L[t], k)
  BY <1>7
<1>9. n <= Len(L[t]) /\ \A j \in 1 .. q : m.entries[j] = L[t][p + j]
  BY <1>2, <1>3, <1>4, AcceptFrame
<1>10. Len(f) = n /\ \A j \in 1 .. n : f[j] = L[t][j]
  <2>1. Len(f) = n /\ Agree(f, L[t], n)
    BY <1>0, <1>2, <1>9, PrefixLog
  <2> QED BY <2>1 DEF Agree
<1>11. \A j \in 1 .. k : f[j] = F[s][j]
  <2>1. ASSUME NEW j \in 1 .. k PROVE f[j] = F[s][j]
    <3>1. j \in 1 .. n
      BY <1>7
    <3> QED BY <1>8, <1>10, <3>1 DEF Agree
  <2> QED BY <2>1
<1>12. log[s] \in Seq(Entry) /\ Len(log[s]) \in Nat /\ h = Len(log[s]) + x - 1
  BY <1>0, <1>5, <1>6 DEF TypeOK, LogTypeOK, lastIndex
<1>13. PICK i \in Nat : i = k - x + 1
  BY <1>7
<1>14. PICK b \in Nat : b = k - p + 1
  BY <1>7
<1>15. m.entries \in Seq(Entry) /\ i >= 1 /\ b >= 1 /\ b <= q /\ q - b + 1 = n - k
  BY <1>7, <1>13, <1>14, AcceptFrame
<1>16. i <= Len(log[s])
  <2>1. PICK c \in Nat : c = Len(log[s])
    BY <1>12
  <2>2. h = c + x - 1
    BY <1>12, <2>1
  <2>3. i <= c
    BY <1>7, <1>13, <2>2
  <2> QED BY <2>1, <2>3
<1>17. log'[s] = SubSeq(log[s], 1, i) \o SubSeq(m.entries, b, Len(m.entries))
  BY <1>1, <1>3, <1>5, <1>13, <1>14 DEF extended, logIdx
<1>18. /\ Len(log'[s]) = i + (n - k)
       /\ \A y \in 1 .. i : log'[s][y] = log[s][y]
       /\ \A y \in 1 .. n - k : log'[s][i + y] = m.entries[b + y - 1]
  <2>1. PICK g : g = log'[s]
    OBVIOUS
  <2>2. PICK a \in Seq(Entry) : a = log[s]
    BY <1>12
  <2>3. PICK e \in Seq(Entry) : e = m.entries
    BY <1>15
  <2>4. i <= Len(a) /\ b <= Len(e) /\ g = SubSeq(a, 1, i) \o SubSeq(e, b, Len(e))
    BY <1>4, <1>15, <1>16, <1>17, <2>1, <2>2, <2>3
  <2>5. /\ Len(g) = i + (Len(e) - b + 1)
        /\ \A y \in 1 .. i : g[y] = a[y]
        /\ \A y \in 1 .. Len(e) - b + 1 : g[i + y] = e[b + y - 1]
    BY <1>15, <2>4, Splice
  <2>6. Len(e) - b + 1 = n - k
    BY <1>4, <1>15, <2>3
  <2> QED BY <2>1, <2>2, <2>3, <2>5, <2>6
<1>19. /\ lastIncludeIndex'[s] = x /\ lastIncludeTerm'[s] = lastIncludeTerm[s]
       /\ snapshot'[s] = snapshot[s]
  BY <1>5 DEF accept
<1>20. lastIndex(s)' = n
  <2>1. lastIndex(s)' = Len(log'[s]) + x - 1
    BY <1>19 DEF lastIndex
  <2>2. i + (n - k) + x - 1 = n
    BY <1>7, <1>13
  <2> QED BY <1>18, <2>1, <2>2
<1>21. ASSUME NEW e \in x + 1 .. n PROVE entry(s, e)' = f[e]
  <2>1. e \in Nat /\ e \in 1 .. n /\ entry(s, e)' = log'[s][e - x + 1]
    BY <1>19 DEF entry, logIdx
  <2>2. CASE e <= k
    <3>1. e - x + 1 \in 1 .. i /\ e \in 1 .. k /\ e \in x + 1 .. h
      <4>1. e \in Nat /\ e >= 1 /\ e >= x + 1
        BY <2>1
      <4>2. k \in Nat /\ k <= h /\ i = k - x + 1
        BY <1>7, <1>13
      <4>3. e \in 1 .. k /\ e \in x + 1 .. h
        BY <2>2, <4>1, <4>2
      <4>4. e - x + 1 \in 1 .. i
        BY <2>2, <4>1, <4>2
      <4> QED BY <4>3, <4>4
    <3>2. entry(s, e) = F[s][e]
      BY <1>0, <1>5, <1>6, <3>1 DEF WholeAt
    <3>3. entry(s, e) = log[s][e - x + 1]
      BY <1>5 DEF entry, logIdx
    <3> QED BY <1>11, <1>18, <2>1, <3>1, <3>2, <3>3
  <2>3. CASE e > k
    <3>1. e - k \in 1 .. n - k /\ i + (e - k) = e - x + 1 /\ b + (e - k) - 1 = e - p
      <4>1. k \in Nat /\ i = k - x + 1 /\ b = k - p + 1
        BY <1>7, <1>13, <1>14
      <4>2. e \in Nat /\ e <= n
        BY <2>1
      <4>3. e - k \in 1 .. n - k
        BY <2>3, <4>1, <4>2
      <4>4. i + (e - k) = e - x + 1 /\ b + (e - k) - 1 = e - p
        BY <4>1, <4>2
      <4> QED BY <4>3, <4>4
    <3>2. e - p \in 1 .. q /\ p + (e - p) = e
      <4>1. e \in Nat /\ e <= n /\ e > p /\ n = p + q
        BY <1>7, <2>1, <2>3
      <4>2. e - p \in 1 .. q
        BY <4>1
      <4> QED BY <4>1, <4>2
    <3>3. log'[s][e - x + 1] = m.entries[e - p]
      BY <1>18, <3>1
    <3>4. m.entries[e - p] = L[t][e]
      BY <1>9, <3>2
    <3> QED BY <1>10, <2>1, <3>3, <3>4
  <2> QED BY <1>7, <2>1, <2>2, <2>3
<1>22. lastIncludeTerm[s] = IF x = 0 THEN 0 ELSE f[x].term
  <2>1. CASE x = 0
    BY <1>0, <1>5, <2>1 DEF WholeAt
  <2>2. CASE x # 0
    <3>1. x \in 1 .. k
      BY <1>7, <2>2
    <3> QED BY <1>0, <1>5, <1>11, <2>2, <3>1 DEF WholeAt
  <2> QED BY <2>1, <2>2
<1>23. Holds(snapshot[s], f, x)
  <2>1. Holds(snapshot[s], F[s], x)
    BY <1>0, <1>5 DEF WholeAt
  <2>2. x <= Len(f)
    BY <1>7, <1>10
  <2>3. ASSUME NEW j \in 1 .. x PROVE snapshot[s][j] = f[j].cmd
    <3>1. j \in 1 .. k
      BY <1>7
    <3> QED BY <1>11, <2>1, <3>1 DEF Holds
  <2> QED BY <2>1, <2>2, <2>3 DEF Holds
<1>24. F2[s] = f
  BY <1>1
<1>25. WholeAt(F2, s)'
  BY <1>10, <1>19, <1>20, <1>21, <1>22, <1>23, <1>24 DEF WholeAt
<1> QED BY <1>1, <1>25

\* A batch that the follower's log already covers leaves it as it is.
LEMMA AcceptKeeps ==
  ASSUME Inv, NEW L, NEW W, NEW A, NEW F, Explains(L, W, A, F), NEW m \in appReq,
         AppendEntries(m), accept(m), NEW n \in Nat, n = m.prevLogIndex + Len(m.entries),
         Agree(F[m.dst], L[m.term], n), log'[m.dst] = log[m.dst]
  PROVE  /\ F[m.dst] \in Seq(Entry) /\ Grown(L, W, F[m.dst], m.term)
         /\ Takes(F[m.dst], L[m.term], F[m.dst], n) /\ WholeAt(F, m.dst)'
<1>0. /\ TypeOK /\ HistoryTypes(L, W, A, F) /\ PeerLogs(L, W, F) /\ \A l \in Server : WholeAt(F, l)
  BY DEF Inv, Explains
<1>1. PICK s \in Server : s = m.dst
  BY AcceptFrame
<1>2. PICK t \in Nat : t = m.term
  BY AcceptFrame
<1>3. F[s] \in Seq(Entry)
  BY <1>0, PastTypes
<1>4. Grown(L, W, F[s], t)
  <2>1. Grown(L, W, F[s], currentTerm[s]) /\ currentTerm[s] \in Nat /\ currentTerm[s] <= t
    BY <1>0, <1>1, <1>2, AcceptFrame DEF PeerLogs, TypeOK, ElectTypeOK
  <2> QED BY <1>3, <2>1, GrownLater
<1>5. WholeAt(F, s)'
  <2>1. /\ log'[s] = log[s] /\ lastIncludeIndex'[s] = lastIncludeIndex[s]
        /\ lastIncludeTerm'[s] = lastIncludeTerm[s] /\ snapshot'[s] = snapshot[s]
    BY <1>1 DEF accept
  <2> QED BY <1>0, <2>1, WholeSame
<1>6. Takes(F[s], L[t], F[s], n)
  BY <1>1, <1>2 DEF Takes
<1> QED BY <1>1, <1>2, <1>3, <1>4, <1>5, <1>6

\* An accepted request, with entries or without
LEMMA AcceptExplained ==
  ASSUME Inv, Inv', Next, NEW L, NEW W, NEW A, NEW F, Explains(L, W, A, F), NEW m \in appReq,
         AppendEntries(m), accept(m)
  PROVE  \E A2, F2 : Explains(L, W, A2, F2)' /\ \A l \in Server : Agree(F2[l], F[l], commitIndex[l])
<1>0. /\ HistoryTypes(L, W, A, F) /\ TermLogs(L, W) /\ TypeOK /\ \A l \in Server : WholeAt(F, l)
  BY DEF Explains, Inv
<1>1. PICK s \in Server : s = m.dst
  BY AcceptFrame
<1>2. PICK t \in Nat : t = m.term
  BY AcceptFrame
<1>3. PICK p \in Nat : p = m.prevLogIndex
  BY AcceptFrame
<1>4. PICK q \in Nat : q = Len(m.entries)
  BY AcceptFrame
<1>5. PICK n \in Nat : n = p + q
  OBVIOUS
<1>6. /\ W[t] # Nil /\ currentTerm[s] <= t /\ Follows(s, t, n) /\ n <= Len(L[t])
  BY <1>1, <1>2, <1>3, <1>4, <1>5, AcceptFrame
<1>7. F[s] \in Seq(Entry) /\ L[t] \in Seq(Entry) /\ Len(F[s]) = lastIndex(s)
  BY <1>0, PastTypes DEF WholeAt
<1>8. commitIndex'[s] <= commitIndex[s] \/ (commitIndex'[s] <= n /\ Committed(L, A, L[t], commitIndex'[s], t))
  BY <1>1, <1>2, <1>3, <1>4, <1>5, AcceptCommits
<1>9. pendingSnapshot'[s] = pendingSnapshot[s]
  BY DEF AppendEntries
<1>10. ASSUME NEW f \in Seq(Entry), NEW F2, F2 = [F EXCEPT ![s] = f], Grown(L, W, f, t),
              Takes(f, L[t], F[s], n), WholeAt(F2, s)'
       PROVE  \E A2 : Explains(L, W, A2, F2)' /\ \A l \in Server : Agree(F2[l], F[l], commitIndex[l])
  BY <1>6, <1>8, <1>9, <1>10, FollowExplained
<1>11. ASSUME Agree(F[s], L[t], n), log'[s] = log[s]
       PROVE  \E A2 : Explains(L, W, A2, F)' /\ \A l \in Server : Agree(F[l], F[l], commitIndex[l])
  <2>1. Grown(L, W, F[s], t) /\ Takes(F[s], L[t], F[s], n) /\ WholeAt(F, s)'
    BY <1>1, <1>2, <1>3, <1>4, <1>5, <1>11, AcceptKeeps
  <2>2. F = [F EXCEPT ![s] = F[s]]
    BY <1>0 DEF HistoryTypes
  <2>3. PICK f \in Seq(Entry) : f = F[s]
    BY <1>7
  <2> QED BY <1>10, <2>1, <2>2, <2>3
<1>12. CASE m.entries = <<>>
  <2>1. n <= p /\ log'[s] = log[s]
    BY <1>4, <1>5, <1>12 DEF accept
  <2>2. Agree(F[s], L[t], n)
    BY <1>1, <1>2, <1>3, <2>1, PrevAgree
  <2> QED BY <1>11, <2>1, <2>2
<1>13. CASE m.entries # <<>>
  <2>1. PICK k \in keepUpTo(m) : log' = [log EXCEPT ![s] = extended(m, k)]
    BY <1>1, <1>13 DEF accept
  <2>2. log'[s] = extended(m, k)
    BY <1>0, <2>1 DEF TypeOK, LogTypeOK
  <2>3. /\ k \in Nat /\ k >= p /\ k <= lastIndex(s) /\ k >= lastIncludeIndex[s]
        /\ \A j \in Nat : j <= k /\ j <= n => Agree(F[s], L[t], j)
        /\ k < n => \A j \in Nat : Agree(F[s], L[t], j) => j <= k
        /\ k >= n => k = lastIndex(s)
    BY <1>1, <1>2, <1>3, <1>4, <1>5, KeepAgree
  <2>4. CASE k >= n
    <3>1. Agree(F[s], L[t], n) /\ k = lastIndex(s)
      BY <2>3, <2>4
    <3>2. extended(m, k) = log[s]
      <4>1. log[s] \in Seq(Entry) /\ lastIncludeIndex[s] \in Nat
        BY <1>0 DEF TypeOK, LogTypeOK
      <4>2. logIdx(s, k) = Len(log[s])
        BY <3>1, <4>1 DEF logIdx, lastIndex
      <4>3. PICK j \in Nat : j = k - p + 1
        BY <2>3
      <4>4. m.entries \in Seq(Entry) /\ j > Len(m.entries)
        BY <1>4, <1>5, <2>3, <2>4, <4>3, AcceptFrame
      <4>5. extended(m, k) = SubSeq(log[s], 1, Len(log[s])) \o SubSeq(m.entries, j, Len(m.entries))
        BY <1>1, <1>3, <4>2, <4>3 DEF extended
      <4> QED BY <4>1, <4>4, <4>5, SpliceNone
    <3> QED BY <1>11, <2>2, <3>1, <3>2
  <2>5. CASE k < n
    <3>1. PICK f \in Seq(Entry) : f = SubSeq(L[t], 1, n)
      BY <1>0, <1>6, PrefixLog
    <3>2. Grown(L, W, f, t) /\ Len(f) = n /\ Agree(f, L[t], n)
      BY <1>0, <1>6, <3>1, PrefixLog
    <3>3. PICK F2 : F2 = [F EXCEPT ![s] = f]
      OBVIOUS
    <3>4. F2[s] = f
      BY <1>0, <3>3 DEF HistoryTypes
    <3>5. WholeAt(F2, s)'
      BY <1>1, <1>2, <1>3, <1>4, <1>5, <2>2, <2>5, <3>1, <3>4, ExtendedWhole
    <3>6. ASSUME NEW j \in Nat, Agree(F[s], L[t], j) PROVE Agree(f, L[t], j)
      <4>1. j <= n
        BY <2>3, <2>5, <3>6
      <4> QED BY <1>7, <3>2, <4>1, AgreeLess
    <3>7. Takes(f, L[t], F[s], n)
      BY <3>2, <3>6 DEF Takes
    <3> QED BY <1>10, <3>2, <3>3, <3>5, <3>7
  <2> QED BY <1>5, <2>3, <2>4, <2>5
<1> QED BY <1>12, <1>13

-----------------------------------------------------------------------------
\* Every step has a past that explains it and keeps what was committed.
LEMMA StepExplained ==
  ASSUME Inv, Inv', Next, NEW L, NEW W, NEW A, NEW F, Explains(L, W, A, F)
  PROVE  \E L2, W2, A2, F2 : /\ Explains(L2, W2, A2, F2)'
                             /\ \A l \in Server : Agree(F2[l], F[l], commitIndex[l])
<1>0. TypeOK /\ HistoryTypes(L, W, A, F) /\ Commits(L, A, F)
  BY DEF Inv, Explains
<1>1. ASSUME Explains(L, W, A, F)'
      PROVE  \E L2, W2, A2, F2 : /\ Explains(L2, W2, A2, F2)'
                                 /\ \A l \in Server : Agree(F2[l], F[l], commitIndex[l])
  <2>1. \A l \in Server : Agree(F[l], F[l], commitIndex[l])
    BY <1>0, CommitInWhole
  <2> QED BY <1>1, <2>1
<1>2. CASE Plain
  BY <1>1, <1>2, PlainExplained
<1>3. ASSUME NEW m \in voteRep, Wins(m)
      PROVE  \E L2, W2, A2, F2 : /\ Explains(L2, W2, A2, F2)'
                                 /\ \A l \in Server : Agree(F2[l], F[l], commitIndex[l])
  <2>1. \A l \in Server : Agree(F[l], F[l], commitIndex[l])
    BY <1>0, CommitInWhole
  <2>2. PICK L2, W2, A2 : Explains(L2, W2, A2, F)'
    BY <1>3, WinsExplained
  <2> QED BY <2>1, <2>2
<1>4. CASE \E m \in appRep \cup snapRep : Acked(m)
  BY <1>1, <1>4, AckedExplained
<1>5. ASSUME NEW s \in Server, NEW c \in Command, Start(s, c)
      PROVE  \E L2, W2, A2, F2 : /\ Explains(L2, W2, A2, F2)'
                                 /\ \A l \in Server : Agree(F2[l], F[l], commitIndex[l])
  <2>1. PICK L2, A2, F2 : /\ Explains(L2, W, A2, F2)'
                          /\ \A l \in Server : Agree(F2[l], F[l], commitIndex[l])
    BY <1>5, StartExplained
  <2> QED BY <2>1
<1>6. ASSUME NEW m \in appReq, AppendEntries(m), accept(m)
      PROVE  \E L2, W2, A2, F2 : /\ Explains(L2, W2, A2, F2)'
                                 /\ \A l \in Server : Agree(F2[l], F[l], commitIndex[l])
  <2>1. PICK A2, F2 : Explains(L, W, A2, F2)' /\ \A l \in Server : Agree(F2[l], F[l], commitIndex[l])
    BY <1>6, AcceptExplained
  <2> QED BY <2>1
<1>7. ASSUME NEW m \in snapReq, InstallSnapshot(m), skipInstall(m)
      PROVE  \E L2, W2, A2, F2 : /\ Explains(L2, W2, A2, F2)'
                                 /\ \A l \in Server : Agree(F2[l], F[l], commitIndex[l])
  <2>1. PICK A2 : Explains(L, W, A2, F)' /\ \A l \in Server : Agree(F[l], F[l], commitIndex[l])
    BY <1>7, SkipExplained
  <2> QED BY <2>1
<1>8. ASSUME NEW m \in snapReq, InstallSnapshot(m), install(m)
      PROVE  \E L2, W2, A2, F2 : /\ Explains(L2, W2, A2, F2)'
                                 /\ \A l \in Server : Agree(F2[l], F[l], commitIndex[l])
  <2>1. PICK A2, F2 : Explains(L, W, A2, F2)' /\ \A l \in Server : Agree(F2[l], F[l], commitIndex[l])
    BY <1>8, InstallExplained
  <2> QED BY <2>1
<1>9. CASE \E s \in Server : applier(s) \/ deliver(s)
  BY <1>1, <1>9, ApplyExplained
<1>10. CASE \E s \in Server : Snapshot(s)
  BY <1>1, <1>10, SnapshotExplained
<1>11. CASE (\E s \in Server : Restart(s)) \/ (\E m \in voteReq \cup appReq \cup snapReq : crashInHandler(m))
  BY <1>1, <1>11, CrashExplained
<1> QED BY <1>0, <1>2, <1>3, <1>4, <1>5, <1>6, <1>7, <1>8, <1>9, <1>10, <1>11, StepKinds

-----------------------------------------------------------------------------
\* The invariant

\* Nothing has happened: the empty past explains the initial state.
LEMMA InitExplained ==
  ASSUME Init
  PROVE  Explained
<1> DEFINE L == [t \in Nat |-> <<>>]
           W == [t \in Nat |-> Nil]
           A == [v \in Server |-> [t \in Nat |-> 0]]
           F == [s \in Server |-> <<>>]
<1>1. HistoryTypes(L, W, A, F)
  <2>1. <<>> \in Seq(Entry)
    OBVIOUS
  <2> QED BY <2>1 DEF HistoryTypes
<1>2. /\ \A t \in Nat : L[t] = <<>> /\ W[t] = Nil /\ \A v \in Server : A[v][t] = 0
      /\ \A s \in Server : F[s] = <<>>
  OBVIOUS
<1>3. Len(<<>>) = 0 /\ \A j : j \notin 1 .. 0
  OBVIOUS
<1>4. ASSUME NEW s \in Server
      PROVE  /\ log[s] = <<[term |-> 0, cmd |-> Nil]>> /\ lastIncludeIndex[s] = 0
             /\ lastIncludeTerm[s] = 0 /\ snapshot[s] = <<>> /\ commitIndex[s] = 0
             /\ app[s] = <<>> /\ applyMsgs[s] = <<>> /\ pendingSnapshot[s] = Nil
             /\ state[s] = "Follower"
  BY DEF Init, InitFrom, emptyDisk
<1>5. voteReq = {} /\ appReq = {} /\ appRep = {} /\ snapReq = {} /\ snapRep = {}
  BY DEF Init, InitFrom
<1> HIDE DEF L, W, A, F
<1>6. ASSUME NEW s \in Server PROVE WholeAt(F, s)
  <2>1. lastIndex(s) = 0
    <3>0. Len(<<[term |-> 0, cmd |-> Nil]>>) = 1
      OBVIOUS
    <3>1. Len(log[s]) = 1
      BY <1>4, <3>0
    <3> QED BY <1>4, <3>1 DEF lastIndex
  <2>2. lastIncludeIndex[s] + 1 .. lastIndex(s) = {}
    BY <1>4, <2>1
  <2> QED BY <1>2, <1>3, <1>4, <2>1, <2>2 DEF WholeAt, Holds
<1>7. \A t \in Nat : Grown(L, W, <<>>, t)
  BY <1>3 DEF Grown
<1>8. TermLogs(L, W)
  BY <1>2, <1>3, <1>7 DEF TermLogs
<1>9. PeerLogs(L, W, F)
  <2>1. \A s \in Server : currentTerm[s] = 0
    BY DEF Init, InitFrom, emptyDisk
  <2> QED BY <1>2, <1>7, <2>1 DEF PeerLogs
<1>10. Winners(W) /\ \A s \in Server : LeaderAt(L, W, A, F, s)
  BY <1>2, <1>4 DEF Winners, LeaderAt
<1>11. Acks(L, W, A, F) /\ Safe(L, W, A)
  BY <1>2 DEF Acks, AckAt, Safe
<1>12. Asking(F) /\ Backing(L, A, F) /\ Requests(L, W, A) /\ Replies(A)
  BY <1>4, <1>5 DEF Asking, Backing, Requests, Replies
<1>13. Commits(L, A, F)
  BY <1>4 DEF Commits, Committed
<1>14. ASSUME NEW s \in Server PROVE ServiceAt(F, s)
  BY <1>2, <1>3, <1>4 DEF ServiceAt, Holds
<1>15. Explains(L, W, A, F)
  BY <1>1, <1>6, <1>8, <1>9, <1>10, <1>11, <1>12, <1>13, <1>14 DEF Explains
<1> QED BY <1>15 DEF Explained

\* The same state has the same past.
LEMMA StutterExplained ==
  ASSUME UNCHANGED vars, NEW L, NEW W, NEW A, NEW F, Explains(L, W, A, F)
  PROVE  Explains(L, W, A, F)'
<1> USE DEF vars, electVars, candVars, logVars, indexVars, leadVars, svcVars, voteNet, appNet, snapNet
<1>0. /\ HistoryTypes(L, W, A, F) /\ \A s \in Server : WholeAt(F, s)
      /\ TermLogs(L, W) /\ PeerLogs(L, W, F) /\ Winners(W) /\ \A s \in Server : LeaderAt(L, W, A, F, s)
      /\ Acks(L, W, A, F) /\ Safe(L, W, A) /\ Asking(F) /\ Backing(L, A, F)
      /\ Requests(L, W, A) /\ Replies(A) /\ Commits(L, A, F) /\ \A s \in Server : ServiceAt(F, s)
  BY DEF Explains
<1>1. \A s \in Server : WholeAt(F, s)'
  BY <1>0 DEF WholeAt, entry, logIdx, lastIndex
<1>2. PeerLogs(L, W, F)'
  BY <1>0 DEF PeerLogs
<1>3. \A v, c \in Server, t \in Nat : Backs(v, c, t)' = Backs(v, c, t)
  BY DEF Backs
<1>4. \A v, c \in Server, t \in Nat : Voted(v, c, t)' = Voted(v, c, t)
  BY DEF Voted
<1>5. Winners(W)'
  BY <1>0 DEF Winners, WonBy, Voted, Backs
<1>6. \A s \in Server : LeaderAt(L, W, A, F, s)'
  BY <1>0 DEF LeaderAt
<1>7. \A t, i : Choosable(A, t, i)' = Choosable(A, t, i)
  BY DEF Choosable
<1>8. Acks(L, W, A, F)'
  BY <1>0, <1>7 DEF Acks, AckAt
<1>9. Safe(L, W, A)'
  BY <1>0, <1>7 DEF Safe
<1>10. Asking(F)'
  BY <1>0 DEF Asking
<1>11. Backing(L, A, F)'
  BY <1>0 DEF Backing, BackedAt, Backs, Choosable
<1>12. Requests(L, W, A)' /\ Replies(A)' /\ Commits(L, A, F)'
  BY <1>0 DEF Requests, Replies, Commits
<1>13. \A s \in Server : ServiceAt(F, s)'
  BY <1>0 DEF ServiceAt
<1> QED BY <1>0, <1>1, <1>2, <1>5, <1>6, <1>8, <1>9, <1>10, <1>11, <1>12, <1>13 DEF Explains

\* Raft.tla's safety properties follow.
LEMMA LogMatchingHolds ==
  ASSUME Inv, Explained
  PROVE  LogMatching
<1>1. PICK L, W, A, F : Explains(L, W, A, F)
  BY DEF Explained
<1>0. /\ TypeOK /\ SnapshotChain /\ HistoryTypes(L, W, A, F) /\ TermLogs(L, W) /\ PeerLogs(L, W, F)
      /\ \A l \in Server : WholeAt(F, l)
  BY <1>1 DEF Inv, Explains
<1>2. ASSUME NEW s \in Server, NEW t \in Server, NEW i \in Nat,
             lastIncludeIndex[s] <= i, i <= lastIndex(s), lastIncludeIndex[t] <= i, i <= lastIndex(t),
             entry(s, i).term = entry(t, i).term
      PROVE  i > 0 => Agree(F[s], F[t], i)
  <2>1. F[s] \in Seq(Entry) /\ F[t] \in Seq(Entry) /\ currentTerm[s] \in Nat /\ currentTerm[t] \in Nat
    BY <1>0, PastTypes DEF TypeOK, ElectTypeOK
  <2>2. /\ entry(s, i).term = IF i = 0 THEN 0 ELSE F[s][i].term
        /\ entry(t, i).term = IF i = 0 THEN 0 ELSE F[t][i].term
    BY <1>0, <1>2, WholeTerm
  <2>3. i <= Len(F[s]) /\ i <= Len(F[t])
    BY <1>0, <1>2 DEF WholeAt
  <2>4. Grown(L, W, F[s], currentTerm[s]) /\ Grown(L, W, F[t], currentTerm[t])
    BY <1>0 DEF PeerLogs
  <2>5. PICK u \in Nat : u = currentTerm[s]
    BY <2>1
  <2>6. PICK v \in Nat : v = currentTerm[t]
    BY <2>1
  <2>7. ASSUME i > 0 PROVE F[s][i].term = F[t][i].term
    <3>1. i # 0
      BY <2>7
    <3>2. entry(s, i).term = F[s][i].term /\ entry(t, i).term = F[t][i].term
      BY <2>2, <3>1, Zenon
    <3> QED BY <1>2, <3>2, Zenon
  <2>8. Grown(L, W, F[s], u) /\ Grown(L, W, F[t], v)
    BY <2>4, <2>5, <2>6
  <2> QED BY <1>0, <2>1, <2>3, <2>7, <2>8, GrownSame
<1>3. ASSUME NEW s \in Server, NEW t \in Server,
             NEW i \in MaxOf(lastIncludeIndex[s], lastIncludeIndex[t]) .. MinOf(lastIndex(s), lastIndex(t)),
             entry(s, i).term = entry(t, i).term
      PROVE  /\ i > MaxOf(lastIncludeIndex[s], lastIncludeIndex[t]) => entry(s, i) = entry(t, i)
             /\ \A j \in MaxOf(lastIncludeIndex[s], lastIncludeIndex[t]) .. i - 1 :
                  entry(s, j).term = entry(t, j).term
  <2>1. PICK x \in Nat : x = lastIncludeIndex[s]
    BY <1>0 DEF TypeOK, LogTypeOK
  <2>2. PICK y \in Nat : y = lastIncludeIndex[t]
    BY <1>0 DEF TypeOK, LogTypeOK
  <2>3. PICK g \in Nat : g = lastIndex(s)
    BY <1>0, LastTypes DEF TypeOK
  <2>4. PICK h \in Nat : h = lastIndex(t)
    BY <1>0, LastTypes DEF TypeOK
  <2>5. i \in Nat /\ x <= i /\ y <= i /\ i <= g /\ i <= h
    BY <2>1, <2>2, <2>3, <2>4 DEF MaxOf, MinOf
  <2>6. i > 0 => Agree(F[s], F[t], i)
    BY <1>2, <1>3, <2>1, <2>2, <2>3, <2>4, <2>5
  <2>7. ASSUME i > MaxOf(x, y) PROVE entry(s, i) = entry(t, i)
    <3>1. i \in x + 1 .. g /\ i \in y + 1 .. h /\ i > 0 /\ i \in 1 .. i
      BY <2>5, <2>7 DEF MaxOf
    <3>2. entry(s, i) = F[s][i] /\ entry(t, i) = F[t][i]
      BY <1>0, <2>1, <2>2, <2>3, <2>4, <3>1 DEF WholeAt
    <3> QED BY <2>6, <3>1, <3>2 DEF Agree
  <2>8. ASSUME NEW j \in MaxOf(x, y) .. i - 1 PROVE entry(s, j).term = entry(t, j).term
    <3>1. j \in Nat /\ x <= j /\ y <= j /\ j <= g /\ j <= h /\ i > 0 /\ (j # 0 => j \in 1 .. i)
      BY <2>5 DEF MaxOf
    <3>2. /\ entry(s, j).term = IF j = 0 THEN 0 ELSE F[s][j].term
          /\ entry(t, j).term = IF j = 0 THEN 0 ELSE F[t][j].term
      BY <1>0, <2>1, <2>2, <2>3, <2>4, <3>1, WholeTerm
    <3>3. j # 0 => F[s][j] = F[t][j]
      BY <2>6, <3>1 DEF Agree
    <3> QED BY <3>2, <3>3
  <2> QED BY <2>1, <2>2, <2>7, <2>8
<1> QED BY <1>3 DEF LogMatching

-----------------------------------------------------------------------------
\* What follows from the past

\* Where whole logs agree, the retained entries have the same term.
LEMMA WholeAgree ==
  ASSUME TypeOK, SnapshotChain, NEW F, NEW s \in Server, NEW t \in Server, WholeAt(F, s),
         WholeAt(F, t), NEW k \in Nat, Agree(F[s], F[t], k),
         NEW i \in Retained(s) \cap Retained(t), i <= k
  PROVE  entry(s, i).term = entry(t, i).term
<1>1. /\ lastIncludeIndex[s] \in Nat /\ lastIndex(s) \in Nat
      /\ lastIncludeIndex[t] \in Nat /\ lastIndex(t) \in Nat
  BY LastTypes DEF TypeOK, LogTypeOK
<1>2. /\ i \in Nat /\ lastIncludeIndex[s] <= i /\ i <= lastIndex(s)
      /\ lastIncludeIndex[t] <= i /\ i <= lastIndex(t)
  BY <1>1 DEF Retained
<1>3. /\ entry(s, i).term = IF i = 0 THEN 0 ELSE F[s][i].term
      /\ entry(t, i).term = IF i = 0 THEN 0 ELSE F[t][i].term
  BY <1>2, WholeTerm
<1>4. i # 0 => F[s][i] = F[t][i]
  BY <1>2 DEF Agree
<1> QED BY <1>3, <1>4

\* A leader's log has what a peer of no later term knows to be committed.
LEMMA LeaderCompletenessHolds ==
  ASSUME Inv, Explained
  PROVE  LeaderCompleteness
<1>1. PICK L, W, A, F : Explains(L, W, A, F)
  BY DEF Explained
<1>0. /\ TypeOK /\ SnapshotChain /\ HistoryTypes(L, W, A, F)
      /\ \A l \in Server : WholeAt(F, l) /\ LeaderAt(L, W, A, F, l)
  BY <1>1 DEF Inv, Explains
<1>2. ASSUME NEW l \in Server, NEW s \in Server, state[l] = "Leader",
             currentTerm[l] >= currentTerm[s]
      PROVE  /\ commitIndex[s] <= lastIndex(l)
             /\ \A i \in Retained(s) \cap Retained(l) :
                  i <= commitIndex[s] => entry(s, i).term = entry(l, i).term
  <2>1. PICK t \in Nat : t = currentTerm[l]
    BY <1>0 DEF TypeOK, ElectTypeOK
  <2>2. currentTerm[s] \in Nat /\ commitIndex[s] \in Nat
    BY <1>0 DEF TypeOK, ElectTypeOK, ApplyTypeOK
  <2>3. W[t] # Nil /\ F[l] = L[t]
    BY <1>0, <1>2, <2>1, ServerAssumption DEF LeaderAt
  <2>4. Agree(F[s], F[l], commitIndex[s])
    BY <1>1, <1>2, <2>1, <2>2, <2>3, CommittedThere
  <2>5. commitIndex[s] <= lastIndex(l)
    BY <1>0, <2>4 DEF Agree, WholeAt
  <2>6. ASSUME NEW i \in Retained(s) \cap Retained(l), i <= commitIndex[s]
        PROVE  entry(s, i).term = entry(l, i).term
    BY <1>0, <2>2, <2>4, <2>6, WholeAgree
  <2> QED BY <2>5, <2>6
<1> QED BY <1>2 DEF LeaderCompleteness

\* Nobody commits past the end of its log.
LEMMA CommitInLogHolds ==
  ASSUME Inv, Explained
  PROVE  CommitInLog
<1>1. PICK L, W, A, F : Explains(L, W, A, F)
  BY DEF Explained
<1>2. ASSUME NEW s \in Server PROVE commitIndex[s] <= lastIndex(s)
  <2>1. HistoryTypes(L, W, A, F) /\ Commits(L, A, F) /\ WholeAt(F, s)
    BY <1>1 DEF Explains
  <2> QED BY <2>1, CommitInWhole DEF WholeAt
<1> QED BY <1>2 DEF CommitInLog

\* What a leader believes of a peer in its term is so.
LEMMA MatchIndexTruthfulHolds ==
  ASSUME Inv, Explained
  PROVE  MatchIndexTruthful
<1>1. PICK L, W, A, F : Explains(L, W, A, F)
  BY DEF Explained
<1>0. /\ TypeOK /\ SnapshotChain /\ HistoryTypes(L, W, A, F) /\ Acks(L, W, A, F)
      /\ \A l \in Server : WholeAt(F, l) /\ LeaderAt(L, W, A, F, l)
  BY <1>1 DEF Inv, Explains
<1>2. ASSUME NEW l \in Server, NEW p \in Server, state[l] = "Leader", p # l,
             currentTerm[p] = currentTerm[l]
      PROVE  /\ matchIndex[l][p] <= lastIndex(p)
             /\ \A i \in Retained(l) \cap Retained(p) :
                  i <= matchIndex[l][p] => entry(l, i).term = entry(p, i).term
  <2>1. PICK t \in Nat : t = currentTerm[l]
    BY <1>0 DEF TypeOK, ElectTypeOK
  <2>2. PICK n \in Nat : n = matchIndex[l][p]
    BY <1>0 DEF TypeOK, LeadTypeOK
  <2>3. F[l] = L[t] /\ n <= A[p][t]
    BY <1>0, <1>2, <2>1, <2>2 DEF LeaderAt
  <2>4. /\ F[l] \in Seq(Entry) /\ F[p] \in Seq(Entry) /\ Len(F[l]) \in Nat /\ Len(F[p]) \in Nat
        /\ A[p][t] \in Nat
    BY <1>0, PastTypes
  <2>5. Agree(F[p], F[l], n)
    <3>1. CASE n = 0
      BY <2>4, <3>1 DEF Agree
    <3>2. CASE n > 0
      <4>1. A[p][t] > 0
        BY <2>3, <2>4, <3>2
      <4>2. Agree(F[p], L[t], A[p][t])
        BY <1>0, <1>2, <2>1, <4>1 DEF Acks, AckAt
      <4> QED BY <2>3, <2>4, <4>2, AgreeLess
    <3> QED BY <3>1, <3>2
  <2>6. n <= lastIndex(p)
    BY <1>0, <2>5 DEF Agree, WholeAt
  <2>7. ASSUME NEW i \in Retained(l) \cap Retained(p), i <= n
        PROVE  entry(p, i).term = entry(l, i).term
    BY <1>0, <2>5, <2>7, WholeAgree
  <2> QED BY <2>2, <2>6, <2>7
<1> QED BY <1>2 DEF MatchIndexTruthful

\* What is no longer than the committed parts of two logs is the start of both.
LEMMA CommittedCompatible ==
  ASSUME Inv, NEW L, NEW W, NEW A, NEW F, Explains(L, W, A, F), NEW s \in Server, NEW t \in Server,
         NEW a \in Seq(Value), NEW b \in Seq(Value), NEW j \in Nat, NEW k \in Nat,
         Holds(a, F[s], j), j <= commitIndex[s], Holds(b, F[t], k), k <= commitIndex[t]
  PROVE  Compatible(a, b)
<1>0. HistoryTypes(L, W, A, F) /\ Safe(L, W, A) /\ TermLogs(L, W) /\ Commits(L, A, F)
  BY DEF Explains
<1>1. /\ commitIndex[s] \in Nat /\ currentTerm[s] \in Nat /\ F[s] \in Seq(Entry)
      /\ Committed(L, A, F[s], commitIndex[s], currentTerm[s])
  BY <1>0, CommitInWhole
<1>2. /\ commitIndex[t] \in Nat /\ currentTerm[t] \in Nat /\ F[t] \in Seq(Entry)
      /\ Committed(L, A, F[t], commitIndex[t], currentTerm[t])
  BY <1>0, CommitInWhole
<1>3. PICK x \in Nat : x = MinOf(j, k)
  BY DEF MinOf
<1>4. x <= j /\ x <= k /\ x <= commitIndex[s] /\ x <= commitIndex[t]
  BY <1>1, <1>2, <1>3 DEF MinOf
<1>5. Committed(L, A, F[s], x, currentTerm[s])
  BY <1>0, <1>1, <1>4, CommittedLess
<1>6. Committed(L, A, F[t], x, currentTerm[t])
  BY <1>0, <1>2, <1>4, CommittedLess
<1>7. Agree(F[s], F[t], x)
  BY <1>0, <1>1, <1>2, <1>5, <1>6, CommittedSame
<1>8. Len(a) = j /\ Len(b) = k
  BY DEF Holds
<1>9. ASSUME NEW i \in 1 .. x PROVE a[i] = b[i]
  <2>1. i \in 1 .. j /\ i \in 1 .. k
    BY <1>4
  <2>2. a[i] = F[s][i].cmd /\ b[i] = F[t][i].cmd
    BY <2>1 DEF Holds
  <2> QED BY <1>7, <2>2 DEF Agree
<1> QED BY <1>3, <1>8, <1>9 DEF Compatible

\* The services, and the snapshots of any of them, hold the same commands.
LEMMA AppliedAgreeHolds ==
  ASSUME Inv, Explained
  PROVE  AppliedAgree
<1>1. PICK L, W, A, F : Explains(L, W, A, F)
  BY DEF Explained
<1>0. /\ TypeOK /\ SnapshotChain /\ ApplyInOrder
      /\ \A l \in Server : WholeAt(F, l) /\ ServiceAt(F, l)
  BY <1>1, ApplyInOrderHolds DEF Inv, Explains
<1>2. ASSUME NEW s \in Server
      PROVE  /\ app[s] \in Seq(Value) /\ snapshot[s] \in Seq(Value)
             /\ Len(app[s]) \in Nat /\ lastIncludeIndex[s] \in Nat
             /\ Holds(app[s], F[s], Len(app[s])) /\ Len(app[s]) <= commitIndex[s]
             /\ Holds(snapshot[s], F[s], lastIncludeIndex[s])
             /\ lastIncludeIndex[s] <= commitIndex[s]
  <2>1. app[s] \in Seq(Value) /\ applyIndex[s] \in Nat /\ commitIndex[s] \in Nat
    BY <1>0 DEF TypeOK, ApplyTypeOK
  <2>2. snapshot[s] \in Seq(Value) /\ lastIncludeIndex[s] \in Nat
    BY <1>0 DEF TypeOK, LogTypeOK
  <2>3. /\ lastIncludeIndex[s] <= applyIndex[s] /\ applyIndex[s] <= commitIndex[s]
        /\ Len(app[s]) <= applyIndex[s]
    BY <1>0 DEF SnapshotChain, ApplyInOrder
  <2>4. Holds(app[s], F[s], Len(app[s])) /\ Holds(snapshot[s], F[s], lastIncludeIndex[s])
    BY <1>0 DEF ServiceAt, WholeAt
  <2>5. Len(app[s]) \in Nat
    BY <2>1
  <2> QED BY <2>1, <2>2, <2>3, <2>4, <2>5
<1>3. ASSUME NEW s \in Server, NEW t \in Server
      PROVE  Compatible(app[s], app[t]) /\ Compatible(app[s], snapshot[t])
  <2>1. Compatible(app[s], app[t])
    BY <1>1, <1>2, CommittedCompatible
  <2>2. Compatible(app[s], snapshot[t])
    BY <1>1, <1>2, CommittedCompatible
  <2> QED BY <2>1, <2>2
<1> QED BY <1>3 DEF AppliedAgree

\* No step takes back an entry that the peer knew to be committed, nor changes its term.
LEMMA CommittedStepHolds ==
  ASSUME Inv, Inv', Next, Explained
  PROVE  CommittedStep
<1>1. PICK L, W, A, F : Explains(L, W, A, F)
  BY DEF Explained
<1>2. PICK L2, W2, A2, F2 : /\ Explains(L2, W2, A2, F2)'
                            /\ \A l \in Server : Agree(F2[l], F[l], commitIndex[l])
  BY <1>1, StepExplained
<1>3. ASSUME NEW s \in Server
      PROVE  /\ lastIndex(s)' >= commitIndex[s]
             /\ \A i \in Retained(s) \cap Retained(s)' :
                  i <= commitIndex[s] => entry(s, i)'.term = entry(s, i).term
  <2>0. /\ TypeOK /\ TypeOK' /\ SnapshotChain /\ SnapshotChain' /\ WholeAt(F, s) /\ WholeAt(F2, s)'
        /\ Agree(F2[s], F[s], commitIndex[s]) /\ HistoryTypes(L2, W2, A2, F2)
    BY <1>1, <1>2 DEF Inv, Explains
  <2>1. PICK c \in Nat : c = commitIndex[s]
    BY <2>0 DEF TypeOK, ApplyTypeOK
  <2>2. PICK x \in Nat : x = lastIncludeIndex[s]
    BY <2>0 DEF TypeOK, LogTypeOK
  <2>3. PICK y \in Nat : y = lastIncludeIndex'[s]
    BY <2>0 DEF TypeOK, LogTypeOK
  <2>4. PICK g \in Nat : g = lastIndex(s)
    BY <2>0, LastTypes DEF TypeOK
  <2>5. PICK h \in Nat : h = lastIndex(s)' /\ h = Len(F2[s])
    BY <2>0, PastTypes DEF WholeAt
  <2>6. c <= h /\ \A j \in 1 .. c : F2[s][j] = F[s][j]
    BY <2>0, <2>1, <2>5 DEF Agree
  <2>7. ASSUME NEW i \in Retained(s) \cap Retained(s)', i <= c
        PROVE  entry(s, i)'.term = entry(s, i).term
    <3>1. i \in Nat /\ x <= i /\ i <= g /\ y <= i /\ i <= h
      BY <2>2, <2>3, <2>4, <2>5 DEF Retained
    <3>2. entry(s, i).term = IF i = 0 THEN 0 ELSE F[s][i].term
      BY <2>0, <2>2, <2>4, <3>1, WholeTerm
    <3>3. entry(s, i)'.term = IF i = 0 THEN 0 ELSE F2[s][i].term
      <4>1. CASE i > y
        <5>1. i \in y + 1 .. h /\ i # 0
          BY <3>1, <4>1
        <5>2. entry(s, i)' = F2[s][i]
          BY <2>0, <2>3, <2>5, <5>1 DEF WholeAt
        <5> QED BY <5>1, <5>2
      <4>2. CASE i = y
        <5>1. logIdx(s, i)' = 1
          BY <2>3, <4>2 DEF logIdx
        <5>2. entry(s, i)'.term = lastIncludeTerm'[s]
          BY <2>0, <5>1 DEF entry, SnapshotChain
        <5>3. lastIncludeTerm'[s] = IF y = 0 THEN 0 ELSE F2[s][y].term
          BY <2>0, <2>3 DEF WholeAt
        <5> QED BY <4>2, <5>2, <5>3
      <4> QED BY <3>1, <4>1, <4>2
    <3>4. i # 0 => F2[s][i] = F[s][i]
      BY <2>6, <2>7, <3>1
    <3> QED BY <3>2, <3>3, <3>4
  <2> QED BY <2>1, <2>5, <2>6, <2>7
<1> QED BY <1>3 DEF CommittedStep

-----------------------------------------------------------------------------
\* The theorems

\* Every reachable state has a past that explains it: an invariant that is inductive.
THEOREM PastExplains == Spec => [](Inv /\ Explained)
<1>1. Init => Inv /\ Explained
  BY InitInv, InitExplained
<1>2. Inv /\ Explained /\ [Next]_vars => (Inv /\ Explained)'
  <2> SUFFICES ASSUME Inv, Explained, [Next]_vars PROVE (Inv /\ Explained)'
    OBVIOUS
  <2>1. Inv'
    BY NextInv, StutterInv
  <2>2. PICK L, W, A, F : Explains(L, W, A, F)
    BY DEF Explained
  <2>3. CASE Next
    <3>1. \E L2, W2, A2, F2 : Explains(L2, W2, A2, F2)'
      BY <2>1, <2>2, <2>3, StepExplained
    <3> QED BY <2>1, <3>1 DEF Explained
  <2>4. CASE UNCHANGED vars
    <3>1. Explains(L, W, A, F)'
      BY <2>2, <2>4, StutterExplained
    <3> QED BY <2>1, <3>1 DEF Explained
  <2> QED BY <2>3, <2>4
<1> QED BY <1>1, <1>2, PTL DEF Spec

\* Logs that agree on the term of an entry agree on all before it that both retain.
THEOREM LogsMatch == Spec => []LogMatching
<1>1. Inv /\ Explained => LogMatching
  BY LogMatchingHolds
<1> QED BY <1>1, PastExplains, PTL

\* A leader has every entry that a peer of no later term knows to be committed.
THEOREM LeadersComplete == Spec => []LeaderCompleteness
<1>1. Inv /\ Explained => LeaderCompleteness
  BY LeaderCompletenessHolds
<1> QED BY <1>1, PastExplains, PTL

\* Nobody commits past its log, so the applier never reads past it.
THEOREM CommitsInLog == Spec => []CommitInLog
<1>1. Inv /\ Explained => CommitInLog
  BY CommitInLogHolds
<1> QED BY <1>1, PastExplains, PTL

\* A peer in the leader's term has the leader's log up to matchIndex.
THEOREM MatchIsTrue == Spec => []MatchIndexTruthful
<1>1. Inv /\ Explained => MatchIndexTruthful
  BY MatchIndexTruthfulHolds
<1> QED BY <1>1, PastExplains, PTL

\* The services never diverge.
THEOREM ServicesAgree == Spec => []AppliedAgree
<1>1. Inv /\ Explained => AppliedAgree
  BY AppliedAgreeHolds
<1> QED BY <1>1, PastExplains, PTL

\* What is committed stays committed, whatever is truncated, compacted or crashes.
THEOREM CommitmentStands == Spec => CommittedKept
<1>1. (Inv /\ Explained) /\ (Inv /\ Explained)' /\ [Next]_vars => [CommittedStep]_vars
  BY CommittedStepHolds
<1> QED BY <1>1, PastExplains, PTL DEF Spec, CommittedKept

=============================================================================
