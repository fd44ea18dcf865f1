---------------------------- MODULE KVRaftProofs ----------------------------
(***************************************************************************)
(* Every state machine and every snapshot of the replicated service is the *)
(* outcome of the committed commands up to its index, every Submit that    *)
(* waits can be woken, and the service implements the abstract store, for  *)
(* any number of servers, calls, terms, crashes and snapshots; the last    *)
(* as long as server and number name a request, which they do until a      *)
(* server restarts.                                                        *)
(*                                                                         *)
(* What is committed stays committed, since every new leader's log extends *)
(* it; a command does the same wherever it runs, since the arguments of a  *)
(* call never change; and a leader has every entry that its reader may get *)
(* in the log where it registers its waiters, so that an index is not      *)
(* taken from the channel before its waiter is registered.                 *)
(*                                                                         *)
(* For the store, every answer is what the command of that very request    *)
(* found: a call's command takes effect where it runs for the first time,  *)
(* and a repeated Put finds a later version, so its clerk tells ErrMaybe.  *)
(***************************************************************************)
EXTENDS KVRaft, FiniteSetTheorems, SequenceTheorems, FunctionTheorems, TLAPS

-----------------------------------------------------------------------------
\* The inductive invariant

Map == [Key -> Node]

RaftTypes ==
  /\ lead \in [Server -> Nat]
  /\ termLog \in Seq(Seq(Entry))
  /\ clog \in Seq(Entry)
  /\ by \in Seq(Nat)
  /\ base \in [Server -> Nat] /\ snap \in [Server -> Map]
  /\ offered \in [Server -> BOOLEAN] /\ handed \in [Server -> Nat]
  /\ restarts \in Nat

RsmTypes ==
  /\ m \in [Server -> Map]
  /\ reqNum \in [Server -> Nat] /\ lastApplied \in [Server -> Nat]
  /\ pending \in [Server -> [Index -> Waiter]]
  /\ reader \in [Server -> Reader \cup {Nil}]
  /\ submit \in [Handler -> Waiting \cup {Nil}]
  /\ history \in Seq(Map)

CallTypes ==
  /\ pc \in [Op -> {"idle", "waiting", "done"}]
  /\ args \in [Op -> Args \cup {Nil}]
  /\ attempt \in [Op -> 0 .. MaxEvents]
  /\ net \subseteq issued
  /\ \A o \in Op : pc[o] = "idle" => attempt[o] = 0
  /\ \A o \in Op : pc[o] # "idle" => args[o] \in Args
  /\ restarts + Cardinality(issued) <= MaxEvents

Types == RaftTypes /\ RsmTypes /\ CallTypes

\* An attempt is in a leader's log at most once, and no longer in the network
LogInv ==
  \A t \in 1 .. Len(termLog) :
    /\ \A i \in 1 .. Len(termLog[t]) : termLog[t][i].handler \in issued \ net
    /\ \A i, j \in 1 .. Len(termLog[t]) : termLog[t][i].handler = termLog[t][j].handler => i = j

\* The log l begins with what is committed
extends(l) == Len(clog) <= Len(l) /\ \A i \in 1 .. Len(clog) : l[i] = clog[i]

\* What is committed: the latest leader has all of it, a leader all of its time
CommitInv ==
  /\ Len(by) = Len(clog)
  /\ termLog = <<>> => clog = <<>>
  /\ termLog # <<>> => extends(termLog[Len(termLog)])
  /\ \A t \in 1 .. Len(termLog), i \in 1 .. Len(clog) : by[i] <= t => i <= Len(termLog[t])

\* A leader's log reaches as far as what its reader has taken or its snapshot covers
LeadInv ==
  \A s \in Server :
    /\ lead[s] <= Len(termLog)
    /\ lead[s] # 0 => /\ base[s] <= Len(termLog[lead[s]])
                      /\ handed[s] <= Len(termLog[lead[s]])

\* The history is what the committed commands do one after the other
HistoryInv ==
  /\ 1 <= Len(history) /\ Len(history) <= Len(clog) + 1
  /\ \A i \in 1 .. Len(history) - 1 :
       history[i + 1] = DoOp(history[i], args[clog[i].handler[1]])

\* Where the reader is
ReaderInv ==
  \A s \in Server :
    /\ handed[s] <= Len(clog)
    /\ reader[s] # Nil => reader[s].index = handed[s]
    /\ ranUpTo(s) < Len(history)
    /\ lastApplied[s] <= handed[s]
    /\ offered[s] => handed[s] < base[s]

\* A waiter that is not stale is registered for an entry of its term's log
WaitInv ==
  \A h \in Handler : submit[h] # Nil =>
    /\ h \in issued \ net
    /\ 1 <= submit[h].term /\ submit[h].term <= Len(termLog)
    /\ submit[h].index <= Len(termLog[submit[h].term])

RsmInv ==
  /\ Types /\ LogInv /\ CommitInv /\ LeadInv /\ HistoryInv /\ ReaderInv /\ WaitInv
  /\ StateIsPrefix /\ WaiterNotLost

-----------------------------------------------------------------------------
\* Counting

\* There are finitely many attempts.
LEMMA IssuedFinite ==
  ASSUME CallTypes
  PROVE  IsFiniteSet(issued) /\ Cardinality(issued) \in Nat /\ issued \subseteq Handler
<1>1. IsFiniteSet(1 .. MaxEvents)
  BY FS_Interval, KVRaftAssumption
<1>2. IsFiniteSet(Handler)
  BY <1>1, FS_Product, KVRaftAssumption DEF Handler
<1>3. issued \subseteq Handler
  BY DEF issued
<1> QED BY <1>2, <1>3, FS_Subset, FS_CardinalityType

\* A log is no longer than the number of attempts that have reached a server, so that an
\* attempt that is about to reach one finds an index left for it.
LEMMA LogLength ==
  ASSUME Types, LogInv, NEW t \in 1 .. Len(termLog)
  PROVE  /\ Len(termLog[t]) \in Nat
         /\ Len(termLog[t]) <= MaxEvents
         /\ net # {} => Len(termLog[t]) < MaxEvents
<1> DEFINE n == Len(termLog[t])
           f == [i \in 1 .. n |-> termLog[t][i].handler]
<1>1. termLog[t] \in Seq(Entry) /\ n \in Nat
  BY DEF Types, RaftTypes
<1>2. IsFiniteSet(issued) /\ Cardinality(issued) \in Nat /\ net \subseteq issued
      /\ restarts \in Nat /\ MaxEvents \in Nat /\ restarts + Cardinality(issued) <= MaxEvents
  BY IssuedFinite, KVRaftAssumption DEF Types, CallTypes, RaftTypes
<1>3. f \in Injection(1 .. n, issued \ net)
  BY <1>1 DEF LogInv, Injection, IsInjective
<1>4. IsFiniteSet(issued \ net) /\ Cardinality(issued \ net) \in Nat
      /\ Cardinality(issued \ net) <= Cardinality(issued)
  <2>1. issued \ net \in SUBSET issued
    OBVIOUS
  <2> QED BY <1>2, <2>1, FS_Subset, FS_CardinalityType
<1>5. IsFiniteSet(1 .. n) /\ Cardinality(1 .. n) = n
  <2>1. 1 \in Int /\ n \in Int /\ n >= 0
    BY <1>1
  <2> HIDE DEF n
  <2> QED BY <2>1, FS_Interval
<1>6. n <= Cardinality(issued \ net)
  <2> HIDE DEF f, n
  <2> QED BY <1>3, <1>4, <1>5, FS_Injection
<1>7. ASSUME net # {} PROVE Cardinality(issued \ net) < Cardinality(issued)
  <2>1. issued \ net \in SUBSET issued /\ issued \ net # issued
    BY <1>2, <1>7
  <2>2. Cardinality(issued \ net) # Cardinality(issued)
    BY <1>2, <2>1, FS_Subset
  <2> QED BY <1>2, <1>4, <2>2
<1> HIDE DEF n
<1>8. n <= MaxEvents /\ (net # {} => n < MaxEvents)
  BY <1>1, <1>2, <1>4, <1>6, <1>7
<1> QED BY <1>1, <1>8 DEF n

\* What is committed comes from the latest leader's log.
LEMMA Committed ==
  ASSUME Types, LogInv, CommitInv
  PROVE  /\ Len(clog) \in Nat /\ Len(clog) <= MaxEvents
         /\ \A i \in 1 .. Len(clog) : clog[i] \in Entry /\ clog[i].handler \in issued \ net
<1>1. clog \in Seq(Entry) /\ Len(clog) \in Nat /\ MaxEvents \in Nat
  BY KVRaftAssumption DEF Types, RaftTypes
<1>2. CASE termLog = <<>>
  BY <1>1, <1>2 DEF CommitInv
<1>3. CASE termLog # <<>>
  <2> DEFINE T == Len(termLog)
  <2>1. T \in 1 .. Len(termLog)
    BY <1>3 DEF Types, RaftTypes
  <2>2. extends(termLog[T])
    BY <1>3 DEF CommitInv
  <2>3. Len(termLog[T]) \in Nat /\ Len(termLog[T]) <= MaxEvents
    BY <2>1, LogLength
  <2>4. \A i \in 1 .. Len(termLog[T]) : termLog[T][i].handler \in issued \ net
    BY <2>1 DEF LogInv
  <2> HIDE DEF T
  <2>5. Len(clog) <= Len(termLog[T]) /\ \A i \in 1 .. Len(clog) : termLog[T][i] = clog[i]
    BY <2>2 DEF extends
  <2>6. \A i \in 1 .. Len(clog) : clog[i] \in Entry /\ clog[i].handler \in issued \ net
    BY <1>1, <2>3, <2>4, <2>5
  <2> QED BY <1>1, <2>3, <2>5, <2>6
<1> QED BY <1>2, <1>3

-----------------------------------------------------------------------------
\* Clerks

\* A step of a clerk leaves servers and logs alone.
LEMMA ClerkStep ==
  ASSUME RsmInv, CallTypes', UNCHANGED <<raftVars, rsmVars, history>>,
         issued \ net = (issued \ net)',
         \A o \in Op : attempt[o] > 0 => args'[o] = args[o]
  PROVE  RsmInv'
<1> USE DEF RsmInv, raftVars, rsmVars
<1>1. Types'
  BY DEF Types, RaftTypes, RsmTypes
<1>2. LogInv' /\ WaitInv'
  BY DEF LogInv, WaitInv
<1>3. CommitInv' /\ LeadInv' /\ ReaderInv'
  BY DEF CommitInv, LeadInv, ReaderInv, extends, ranUpTo
<1>4. HistoryInv'
  <2>1. ASSUME NEW i \in 1 .. Len(history) - 1 PROVE args'[clog[i].handler[1]] = args[clog[i].handler[1]]
    <3>1. i \in 1 .. Len(clog)
      BY Committed DEF HistoryInv, Types, RsmTypes
    <3>2. clog[i].handler \in issued
      BY <3>1, Committed
    <3>3. clog[i].handler[1] \in Op /\ attempt[clog[i].handler[1]] > 0
      BY <3>2 DEF issued, Handler, Types, CallTypes
    <3> QED BY <3>3
  <2> QED BY <2>1 DEF HistoryInv
<1>5. StateIsPrefix' /\ WaiterNotLost'
  BY DEF StateIsPrefix, WaiterNotLost, ranUpTo, stale
<1> QED BY <1>1, <1>2, <1>3, <1>4, <1>5

\* A request that is sent is a new attempt.
LEMMA SendFacts ==
  ASSUME Types, NEW o \in Op, send(o), UNCHANGED restarts
  PROVE  /\ attempt' \in [Op -> 0 .. MaxEvents]
         /\ \A p \in Op : attempt'[p] = IF p = o THEN attempt[o] + 1 ELSE attempt[p]
         /\ issued \ net = (issued \ net)'
         /\ (net \subseteq issued)'
         /\ restarts' + Cardinality(issued)' <= MaxEvents
<1> DEFINE n == attempt[o]
           h == <<o, n + 1>>
<1>1. n \in 0 .. MaxEvents /\ MaxEvents \in Nat /\ restarts \in Nat
  BY KVRaftAssumption DEF Types, CallTypes, RaftTypes
<1>2. IsFiniteSet(issued) /\ Cardinality(issued) \in Nat
  BY IssuedFinite DEF Types
<1>3. restarts + Cardinality(issued) < MaxEvents
  BY DEF send, events
<1>4. n <= Cardinality(issued)
  <2> DEFINE f == [i \in 1 .. n |-> <<o, i>>]
  <2>1. f \in Injection(1 .. n, issued)
    BY <1>1 DEF Injection, IsInjective, issued, Handler
  <2>2. Cardinality(1 .. n) = n
    <3>1. 1 \in Int /\ n \in Int /\ n >= 0
      BY <1>1
    <3> HIDE DEF n
    <3> QED BY <3>1, FS_Interval
  <2>3. Cardinality(1 .. n) <= Cardinality(issued)
    <3> HIDE DEF f, n
    <3> QED BY <1>2, <2>1, FS_Injection
  <2> QED BY <2>2, <2>3
<1>5. n + 1 \in 1 .. MaxEvents
  BY <1>1, <1>2, <1>3, <1>4
<1>6. attempt' = [attempt EXCEPT ![o] = n + 1] /\ net' = net \cup {h}
  BY DEF send
<1>7. attempt' \in [Op -> 0 .. MaxEvents]
      /\ \A p \in Op : attempt'[p] = IF p = o THEN n + 1 ELSE attempt[p]
  BY <1>1, <1>5, <1>6 DEF Types, CallTypes
<1>8. h \in Handler /\ h \notin issued
  BY <1>1, <1>5 DEF issued, Handler
<1>9. issued' = issued \cup {h}
  <2>1. ASSUME NEW x \in Handler PROVE x \in issued' <=> x \in issued \/ x = h
    <3> PICK p \in Op, i \in 1 .. MaxEvents : x = <<p, i>>
      BY DEF Handler
    <3>1. x \in issued' <=> i <= attempt'[p]
      BY DEF issued
    <3>2. x \in issued <=> i <= attempt[p]
      BY DEF issued
    <3>3. attempt[p] \in Nat
      BY DEF Types, CallTypes
    <3> QED BY <1>1, <1>7, <3>1, <3>2, <3>3
  <2> QED BY <1>8, <2>1 DEF issued
<1>10. Cardinality(issued)' = Cardinality(issued) + 1
  BY <1>2, <1>8, <1>9, FS_AddElement
<1>11. net \subseteq issued
  BY DEF Types, CallTypes
<1>12. issued \ net = (issued \ net)' /\ (net \subseteq issued)'
  BY <1>6, <1>8, <1>9, <1>11
<1>13. restarts' + Cardinality(issued)' <= MaxEvents
  BY <1>1, <1>2, <1>3, <1>10
<1> QED BY <1>7, <1>12, <1>13

\* Get and Put
LEMMA BeginInv ==
  ASSUME RsmInv, NEW o \in Op, NEW a \in Args, begin(o, a)
  PROVE  RsmInv'
<1>1. Types
  BY DEF RsmInv
<1>2. /\ pc[o] = "idle" /\ pc' = [pc EXCEPT ![o] = "waiting"] /\ args' = [args EXCEPT ![o] = a]
      /\ send(o) /\ UNCHANGED <<raftVars, rsmVars, history, restarts>>
  BY DEF begin, ghostVars, raftVars
<1>3. /\ attempt' \in [Op -> 0 .. MaxEvents]
      /\ \A p \in Op : attempt'[p] = IF p = o THEN attempt[o] + 1 ELSE attempt[p]
      /\ issued \ net = (issued \ net)'
      /\ (net \subseteq issued)'
      /\ restarts' + Cardinality(issued)' <= MaxEvents
  BY <1>1, <1>2, SendFacts
<1>4. CallTypes'
  BY <1>1, <1>2, <1>3 DEF Types, CallTypes
<1>5. \A p \in Op : attempt[p] > 0 => args'[p] = args[p]
  BY <1>1, <1>2 DEF Types, CallTypes
<1> QED BY <1>2, <1>3, <1>4, <1>5, ClerkStep

\* The next attempt of a call.
LEMMA TryNextInv ==
  ASSUME RsmInv, NEW o \in Op, tryNext(o)
  PROVE  RsmInv'
<1>1. Types
  BY DEF RsmInv
<1>2. pc[o] = "waiting" /\ send(o) /\ UNCHANGED <<raftVars, rsmVars, history, restarts, pc, args>>
  BY DEF tryNext, ghostVars, raftVars
<1>3. /\ attempt' \in [Op -> 0 .. MaxEvents]
      /\ \A p \in Op : attempt'[p] = IF p = o THEN attempt[o] + 1 ELSE attempt[p]
      /\ issued \ net = (issued \ net)'
      /\ (net \subseteq issued)'
      /\ restarts' + Cardinality(issued)' <= MaxEvents
  BY <1>1, <1>2, SendFacts
<1>4. CallTypes'
  BY <1>1, <1>2, <1>3 DEF Types, CallTypes
<1> QED BY <1>2, <1>3, <1>4, ClerkStep

\* A call that returns leaves its command in the log.
LEMMA CallReturnsInv ==
  ASSUME RsmInv, NEW o \in Op, callReturns(o)
  PROVE  RsmInv'
<1>1. Types
  BY DEF RsmInv
<1>2. pc[o] = "waiting" /\ pc' = [pc EXCEPT ![o] = "done"]
      /\ UNCHANGED <<raftVars, rsmVars, history, restarts, args, attempt, net>>
  BY DEF callReturns, ghostVars, raftVars
<1>3. issued' = issued
  BY <1>2 DEF issued
<1>4. CallTypes'
  BY <1>1, <1>2, <1>3 DEF Types, CallTypes
<1> QED BY <1>2, <1>3, <1>4, ClerkStep

-----------------------------------------------------------------------------
\* Raft

\* The attempts in a log: each has reached a server, and none is there twice
proper(l) ==
  /\ l \in Seq(Entry)
  /\ \A i \in 1 .. Len(l) : l[i].handler \in issued \ net
  /\ \A i, j \in 1 .. Len(l) : l[i].handler = l[j].handler => i = j

\* A new leader's log is such a log, and begins with what is committed.
LEMMA Electable ==
  ASSUME Types, LogInv, NEW l \in electable
  PROVE  proper(l) /\ extends(l)
<1>1. clog \in Seq(Entry) /\ Len(clog) \in Nat
  BY DEF Types, RaftTypes
<1>2. proper(l)
  <2>1. CASE l = <<>>
    BY <2>1 DEF proper
  <2>2. CASE l # <<>>
    <3>1. PICK t \in DOMAIN termLog : l \in Prefixes(termLog[t])
      BY <2>2 DEF electable
    <3>2. PICK k \in 0 .. Len(termLog[t]) : l = SubSeq(termLog[t], 1, k)
      BY <3>1 DEF Prefixes
    <3>3. t \in 1 .. Len(termLog) /\ termLog[t] \in Seq(Entry)
      BY <3>1 DEF Types, RaftTypes
    <3> PICK q \in Seq(Entry) : q = termLog[t]
      BY <3>3
    <3>4. k \in 0 .. Len(q) /\ Len(q) \in Nat /\ l = SubSeq(q, 1, k)
      BY <3>2
    <3>5. l \in Seq(Entry) /\ Len(l) = k /\ \A i \in 1 .. k : l[i] = q[i] /\ i \in 1 .. Len(q)
      BY <3>4
    <3>6. /\ \A i \in 1 .. Len(q) : q[i].handler \in issued \ net
          /\ \A i, j \in 1 .. Len(q) : q[i].handler = q[j].handler => i = j
      BY <3>3 DEF LogInv
    <3> QED BY <3>5, <3>6 DEF proper
  <2> QED BY <2>1, <2>2
<1>3. IsPrefix(clog, l)
  BY DEF electable
<1>4. Len(clog) <= Len(l) /\ SubSeq(clog, 1, Len(clog)) = SubSeq(l, 1, Len(clog))
  BY <1>3 DEF IsPrefix
<1>5. l \in Seq(Entry) /\ Len(l) \in Nat
  BY <1>2 DEF proper
<1>6. ASSUME NEW i \in 1 .. Len(clog) PROVE l[i] = clog[i]
  <2>1. SubSeq(clog, 1, Len(clog))[i] = clog[i] /\ SubSeq(l, 1, Len(clog))[i] = l[i]
    BY <1>1, <1>4, <1>5
  <2> QED BY <1>4, <2>1
<1> QED BY <1>2, <1>4, <1>6 DEF extends

\* A step of Raft alone.
LEMMA RaftStep ==
  ASSUME RsmInv, UNCHANGED <<rsmVars, clerkVars, ghostVars, handed, restarts>>, RaftTypes',
         LogInv', CommitInv', LeadInv', ReaderInv', WaitInv', StateIsPrefix', WaiterNotLost',
         Len(clog) <= Len(clog'), \A i \in 1 .. Len(clog) : clog'[i] = clog[i]
  PROVE  RsmInv'
<1>1. issued' = issued
  BY DEF issued, clerkVars
<1>2. Types'
  BY <1>1 DEF RsmInv, Types, RsmTypes, CallTypes, rsmVars, clerkVars, ghostVars
<1>3. HistoryInv'
  <2>1. UNCHANGED <<history, args>> /\ history \in Seq(Map) /\ Len(history) \in Nat
        /\ Len(clog) \in Nat /\ Len(clog') \in Nat
    BY <1>2 DEF RsmInv, Types, RsmTypes, RaftTypes, clerkVars, ghostVars
  <2>2. \A i \in 1 .. Len(history) - 1 : clog'[i] = clog[i]
    BY <2>1 DEF RsmInv, HistoryInv
  <2>3. 1 <= Len(history) /\ Len(history) <= Len(clog') + 1
    BY <2>1 DEF RsmInv, HistoryInv
  <2>4. \A i \in 1 .. Len(history) - 1 :
          history[i + 1] = DoOp(history[i], args[clog'[i].handler[1]])
    BY <2>2 DEF RsmInv, HistoryInv
  <2> QED BY <2>1, <2>3, <2>4 DEF HistoryInv
<1> QED BY <1>2, <1>3 DEF RsmInv

\* A new leader: the waiters it had in an earlier term become stale, so that nothing is owed
\* to them.
LEMMA ElectInv ==
  ASSUME RsmInv, NEW s \in Server, elect(s)
  PROVE  RsmInv'
<1> USE DEF RsmInv
<1>1. PICK l \in electable : termLog' = Append(termLog, l)
  BY DEF elect
<1>2. /\ lead' = [lead EXCEPT ![s] = Len(termLog) + 1]
      /\ UNCHANGED <<clog, by, base, snap, offered, handed, restarts, rsmVars, clerkVars, ghostVars>>
  BY DEF elect
<1>3. proper(l) /\ extends(l) /\ l \in Seq(Entry) /\ Len(l) \in Nat
  BY Electable DEF proper
<1>4. termLog \in Seq(Seq(Entry)) /\ Len(termLog) \in Nat /\ lead \in [Server -> Nat]
      /\ clog \in Seq(Entry) /\ Len(clog) \in Nat
  BY DEF Types, RaftTypes
<1>5. /\ termLog' \in Seq(Seq(Entry)) /\ Len(termLog') = Len(termLog) + 1
      /\ termLog'[Len(termLog) + 1] = l
      /\ \A t \in 1 .. Len(termLog) : termLog'[t] = termLog[t]
  BY <1>1, <1>3, <1>4
<1>6. UNCHANGED <<issued, net>>
  BY <1>2 DEF issued, clerkVars
<1>7. \A p \in Server : lead'[p] = IF p = s THEN Len(termLog) + 1 ELSE lead[p]
  BY <1>2, <1>4
<1>8. RaftTypes'
  BY <1>2, <1>4, <1>5 DEF Types, RaftTypes
<1>9. LogInv'
  <2> SUFFICES ASSUME NEW t \in 1 .. Len(termLog) + 1
               PROVE  /\ \A i \in 1 .. Len(termLog'[t]) : termLog'[t][i].handler \in issued \ net
                      /\ \A i, j \in 1 .. Len(termLog'[t]) :
                           termLog'[t][i].handler = termLog'[t][j].handler => i = j
    BY <1>5, <1>6 DEF LogInv
  <2>1. CASE t = Len(termLog) + 1
    BY <1>3, <1>5, <2>1 DEF proper
  <2>2. CASE t \in 1 .. Len(termLog)
    BY <1>5, <2>2 DEF LogInv
  <2> QED BY <1>4, <2>1, <2>2
<1>10. CommitInv'
  <2>1. termLog' # <<>>
    BY <1>4, <1>5
  <2>2. extends(termLog[Len(termLog)])'
    BY <1>2, <1>3, <1>5 DEF extends
  <2>3. ASSUME NEW t \in 1 .. Len(termLog) + 1, NEW i \in 1 .. Len(clog), by[i] <= t
        PROVE  i <= Len(termLog'[t])
    <3>1. CASE t = Len(termLog) + 1
      BY <1>3, <1>4, <1>5, <3>1 DEF extends
    <3>2. CASE t \in 1 .. Len(termLog)
      BY <1>5, <2>3, <3>2 DEF CommitInv
    <3> QED BY <1>4, <3>1, <3>2
  <2> QED BY <1>2, <1>5, <2>1, <2>2, <2>3 DEF CommitInv
<1>11. base[s] <= Len(clog) /\ handed[s] <= Len(clog) /\ base[s] \in Nat /\ handed[s] \in Nat
  <2>1. base[s] < Len(history) /\ Len(history) <= Len(clog) + 1 /\ Len(history) \in Nat
    BY DEF StateIsPrefix, HistoryInv, Types, RsmTypes
  <2>2. handed[s] <= Len(clog) /\ base[s] \in Nat /\ handed[s] \in Nat
    BY DEF ReaderInv, Types, RaftTypes
  <2> QED BY <1>4, <2>1, <2>2
<1>12. LeadInv'
  <2> SUFFICES ASSUME NEW p \in Server
               PROVE  /\ lead'[p] <= Len(termLog')
                      /\ lead'[p] # 0 => /\ base[p] <= Len(termLog'[lead'[p]])
                                         /\ handed[p] <= Len(termLog'[lead'[p]])
    BY <1>2 DEF LeadInv
  <2>1. CASE p = s
    BY <1>3, <1>4, <1>5, <1>7, <1>11, <2>1 DEF extends
  <2>2. CASE p # s
    <3>1. lead'[p] = lead[p] /\ lead[p] \in Nat /\ lead[p] <= Len(termLog)
      BY <1>4, <1>7, <2>2 DEF LeadInv
    <3>2. CASE lead[p] # 0
      <4>1. termLog'[lead'[p]] = termLog[lead[p]]
        BY <1>4, <1>5, <3>1, <3>2
      <4> QED BY <1>4, <1>5, <3>1, <3>2, <4>1 DEF LeadInv
    <3> QED BY <1>4, <1>5, <3>1, <3>2
  <2> QED BY <2>1, <2>2
<1>13. ReaderInv' /\ StateIsPrefix'
  BY <1>2 DEF ReaderInv, StateIsPrefix, ranUpTo, rsmVars, ghostVars
<1>14. ASSUME NEW h \in Handler, submit[h] # Nil
       PROVE  /\ submit[h] \in Waiting /\ submit[h].term \in 1 .. Len(termLog)
              /\ termLog'[submit[h].term] = termLog[submit[h].term]
              /\ ~ stale(h)' => ~ stale(h) /\ lead'[submit[h].srv] = lead[submit[h].srv]
  <2>1. submit[h] \in Waiting /\ submit[h].srv \in Server /\ submit[h].term \in Nat /\ submit' = submit
    BY <1>2, <1>14 DEF Types, RsmTypes, Waiting, rsmVars
  <2>2. submit[h].term \in 1 .. Len(termLog)
    BY <1>4, <1>14, <2>1 DEF WaitInv
  <2>3. ~ stale(h)' => submit[h].srv # s
    BY <1>4, <1>7, <2>1, <2>2 DEF stale
  <2> QED BY <1>5, <1>7, <2>1, <2>2, <2>3 DEF stale
<1>15. WaitInv'
  <2> SUFFICES ASSUME NEW h \in Handler, submit[h] # Nil
               PROVE  /\ h \in issued \ net
                      /\ 1 <= submit[h].term /\ submit[h].term <= Len(termLog')
                      /\ submit[h].index <= Len(termLog'[submit[h].term])
    BY <1>2, <1>6 DEF WaitInv, rsmVars
  <2>1. submit[h].term \in 1 .. Len(termLog) /\ termLog'[submit[h].term] = termLog[submit[h].term]
    BY <1>14
  <2> QED BY <1>4, <1>5, <2>1 DEF WaitInv
<1>16. WaiterNotLost'
  BY <1>2, <1>14 DEF WaiterNotLost, rsmVars
<1> QED BY <1>2, <1>4, <1>8, <1>9, <1>10, <1>12, <1>13, <1>15, <1>16, RaftStep

\* A step that leaves the logs and the network alone keeps what is known of them.
LEMMA LogsKept ==
  ASSUME LogInv, CommitInv, UNCHANGED <<termLog, clog, by, attempt, net>>
  PROVE  LogInv' /\ CommitInv' /\ UNCHANGED issued
<1>1. UNCHANGED issued
  BY DEF issued
<1>2. LogInv'
  BY <1>1 DEF LogInv
<1>3. CommitInv'
  BY DEF CommitInv, extends
<1> QED BY <1>1, <1>2, <1>3

\* A step that leaves the calls alone keeps their types and their number.
LEMMA CallsKept ==
  ASSUME CallTypes, UNCHANGED <<pc, args, attempt, net, restarts>>
  PROVE  CallTypes'
BY DEF CallTypes, issued

\* A leader that hears of a later term: its waiters become stale.
LEMMA StepDownInv ==
  ASSUME RsmInv, NEW s \in Server, stepDown(s)
  PROVE  RsmInv'
<1> USE DEF RsmInv
<1>1. /\ lead' = [lead EXCEPT ![s] = 0]
      /\ UNCHANGED <<termLog, clog, by, base, snap, offered, handed, restarts,
                     rsmVars, clerkVars, ghostVars>>
  BY DEF stepDown
<1>2. RaftTypes' /\ \A p \in Server : lead'[p] = IF p = s THEN 0 ELSE lead[p]
  BY <1>1 DEF Types, RaftTypes
<1>3. LogInv' /\ CommitInv' /\ WaitInv'
  <2>1. LogInv' /\ CommitInv' /\ UNCHANGED issued
    BY <1>1, LogsKept DEF clerkVars
  <2>2. WaitInv'
    BY <1>1, <2>1 DEF WaitInv, rsmVars, clerkVars
  <2> QED BY <2>1, <2>2
<1>4. LeadInv'
  BY <1>1, <1>2 DEF LeadInv, Types, RaftTypes
<1>5. ReaderInv' /\ StateIsPrefix'
  BY <1>1 DEF ReaderInv, StateIsPrefix, ranUpTo, rsmVars, ghostVars
<1>6. WaiterNotLost'
  <2>1. ASSUME NEW h \in Handler, submit[h] # Nil, ~ stale(h)' PROVE ~ stale(h)
    <3>1. submit[h].srv \in Server /\ 1 <= submit[h].term /\ submit[h].term \in Nat
      BY <2>1 DEF Types, RsmTypes, Waiting, WaitInv
    <3> QED BY <1>1, <1>2, <2>1, <3>1 DEF stale, rsmVars
  <2> QED BY <1>1, <2>1 DEF WaiterNotLost, rsmVars
<1>7. Len(clog) \in Nat
  BY DEF Types, RaftTypes
<1> QED BY <1>1, <1>2, <1>3, <1>4, <1>5, <1>6, <1>7, RaftStep

\* A sequence continued with k times the same number.
LEMMA Repeated ==
  ASSUME NEW q \in Seq(Nat), NEW k \in Nat, NEW x \in Nat
  PROVE  LET b == q \o [j \in 1 .. k |-> x]
         IN /\ b \in Seq(Nat) /\ Len(b) = Len(q) + k
            /\ \A j \in 1 .. Len(q) + k : b[j] = IF j <= Len(q) THEN q[j] ELSE x
<1> DEFINE c == [j \in 1 .. k |-> x]
           b == q \o c
<1>1. c \in Seq(Nat) /\ Len(c) = k /\ \A j \in 1 .. k : c[j] = x
  OBVIOUS
<1>2. Len(q) \in Nat
  OBVIOUS
<1> HIDE DEF c
<1>3. /\ b \in Seq(Nat) /\ Len(b) = Len(q) + Len(c)
      /\ \A j \in 1 .. Len(q) + Len(c) : b[j] = IF j <= Len(q) THEN q[j] ELSE c[j - Len(q)]
  BY <1>1, ConcatProperties
<1> HIDE DEF b
<1>4. b \in Seq(Nat) /\ Len(b) = Len(q) + k
  BY <1>1, <1>3
<1>5. ASSUME NEW j \in 1 .. Len(q) + k
      PROVE  b[j] = IF j <= Len(q) THEN q[j] ELSE x
  <2>1. b[j] = IF j <= Len(q) THEN q[j] ELSE c[j - Len(q)]
    BY <1>1, <1>3
  <2>2. CASE j <= Len(q)
    BY <2>1, <2>2
  <2>3. CASE ~ (j <= Len(q))
    <3>1. j - Len(q) \in 1 .. k
      BY <1>2, <2>3
    <3> QED BY <1>1, <2>1, <2>3, <3>1
  <2> QED BY <2>2, <2>3
<1> QED BY <1>4, <1>5 DEF b, c

\* What is committed grows, and remains what the latest leader has.
LEMMA CommitStepInv ==
  ASSUME RsmInv, NEW s \in Server, commit(s)
  PROVE  RsmInv'
<1> USE DEF RsmInv
<1> DEFINE T == Len(termLog)
           n == Len(clog)
<1>1. T \in Nat /\ T # 0 /\ lead[s] = T /\ termLog \in Seq(Seq(Entry)) /\ by \in Seq(Nat)
      /\ n \in Nat /\ Len(by) = n
  BY DEF commit, Types, RaftTypes, CommitInv
<1> PICK q \in Seq(Entry) : q = termLog[T]
  BY <1>1
<1>2. PICK i \in n + 1 .. Len(q) :
        clog' = SubSeq(q, 1, i) /\ by' = by \o [j \in 1 .. i - n |-> T]
  BY <1>1 DEF commit
<1>3. UNCHANGED <<lead, termLog, base, snap, offered, handed, restarts, rsmVars, clerkVars, ghostVars>>
  BY DEF commit
<1>4. n <= Len(q) /\ \A j \in 1 .. n : q[j] = clog[j]
  <2>1. termLog # <<>>
    BY <1>1
  <2> QED BY <2>1 DEF CommitInv, extends
<1> HIDE DEF n, T
<1>5. i \in Nat /\ i > n /\ i <= Len(q) /\ Len(q) \in Nat
  BY <1>1, <1>2
<1>6. clog' \in Seq(Entry) /\ Len(clog') = i /\ \A j \in 1 .. i : clog'[j] = q[j]
  BY <1>2, <1>5
<1>7. by' \in Seq(Nat) /\ Len(by') = i
      /\ \A j \in 1 .. i : by'[j] = IF j <= n THEN by[j] ELSE T
  <2> DEFINE b == by \o [j \in 1 .. i - n |-> T]
  <2>1. i - n \in Nat /\ T \in Nat /\ n + (i - n) = i /\ by' = b
    BY <1>1, <1>2, <1>5
  <2>2. /\ b \in Seq(Nat) /\ Len(b) = Len(by) + (i - n)
        /\ \A j \in 1 .. Len(by) + (i - n) : b[j] = IF j <= Len(by) THEN by[j] ELSE T
    BY <1>1, <2>1, Repeated
  <2> HIDE DEF b
  <2> QED BY <1>1, <2>1, <2>2
<1>8. \A j \in 1 .. n : clog'[j] = clog[j]
  <2> SUFFICES ASSUME NEW j \in 1 .. n PROVE clog'[j] = clog[j]
    OBVIOUS
  <2>1. j \in 1 .. i
    BY <1>1, <1>5
  <2> QED BY <1>4, <1>6, <2>1
<1>9. RaftTypes'
  BY <1>3, <1>6, <1>7 DEF Types, RaftTypes
<1>10. LogInv' /\ LeadInv' /\ WaitInv'
  BY <1>3 DEF LogInv, LeadInv, WaitInv, issued, rsmVars, clerkVars
<1>11. CommitInv'
  <2>1. termLog' # <<>>
    BY <1>1, <1>3 DEF T
  <2>2. extends(termLog[Len(termLog)])'
    BY <1>3, <1>5, <1>6 DEF extends, T
  <2>3. ASSUME NEW t \in 1 .. T, NEW j \in 1 .. i, by'[j] <= t
        PROVE  j <= Len(termLog[t])
    <3>1. CASE j <= n
      <4>1. j \in 1 .. Len(clog) /\ by[j] <= t
        BY <1>1, <1>7, <2>3, <3>1 DEF n
      <4> QED BY <4>1 DEF CommitInv, T
    <3>2. CASE j > n
      <4>1. t = T
        BY <1>1, <1>7, <2>3, <3>2
      <4> QED BY <1>5, <4>1
    <3> QED BY <1>1, <3>1, <3>2
  <2> QED BY <1>3, <1>6, <1>7, <2>1, <2>2, <2>3 DEF CommitInv, T
<1>12. StateIsPrefix' /\ WaiterNotLost'
  BY <1>3 DEF StateIsPrefix, WaiterNotLost, ranUpTo, stale, rsmVars, ghostVars
<1>13. ReaderInv'
  <2>1. \A p \in Server : handed[p] <= i
    BY <1>1, <1>5 DEF ReaderInv, Types, RaftTypes, n
  <2> QED BY <1>3, <1>6, <2>1 DEF ReaderInv, ranUpTo, rsmVars, ghostVars
<1> QED BY <1>1, <1>3, <1>5, <1>6, <1>8, <1>9, <1>10, <1>11, <1>12, <1>13, RaftStep DEF n

\* A snapshot that is ahead of the reader arrives from a leader.
LEMMA InstallInv ==
  ASSUME RsmInv, NEW s \in Server, NEW p \in Server, install(s, p)
  PROVE  RsmInv'
<1> USE DEF RsmInv
<1>1. /\ base[p] > base[s] /\ base[p] > handed[s]
      /\ lead' = [lead EXCEPT ![s] = 0]
      /\ base' = [base EXCEPT ![s] = base[p]]
      /\ snap' = [snap EXCEPT ![s] = snap[p]]
      /\ offered' = [offered EXCEPT ![s] = TRUE]
      /\ UNCHANGED <<termLog, clog, by, handed, restarts, rsmVars, clerkVars, ghostVars>>
  BY DEF install
<1>2. /\ RaftTypes'
      /\ \A x \in Server : /\ lead'[x] = IF x = s THEN 0 ELSE lead[x]
                           /\ base'[x] = IF x = s THEN base[p] ELSE base[x]
                           /\ snap'[x] = IF x = s THEN snap[p] ELSE snap[x]
  BY <1>1 DEF Types, RaftTypes
<1>3. \A x \in Server : x # s => offered'[x] = offered[x]
  BY <1>1 DEF Types, RaftTypes
<1>4. LogInv' /\ CommitInv' /\ WaitInv'
  BY <1>1 DEF LogInv, CommitInv, WaitInv, extends, issued, rsmVars, clerkVars
<1>5. LeadInv'
  BY <1>1, <1>2 DEF LeadInv, Types, RaftTypes
<1>6. UNCHANGED <<reader, m, lastApplied, history, handed, submit, pending>>
  BY <1>1 DEF rsmVars, ghostVars
<1>7. StateIsPrefix'
  BY <1>2, <1>6 DEF StateIsPrefix, ranUpTo
<1>8. ReaderInv'
  <2> SUFFICES ASSUME NEW x \in Server, offered'[x] PROVE handed[x] < base'[x]
    BY <1>1, <1>6 DEF ReaderInv, ranUpTo
  <2>1. CASE x = s
    BY <1>1, <1>2, <2>1 DEF Types, RaftTypes
  <2>2. CASE x # s
    BY <1>2, <1>3, <2>2 DEF ReaderInv
  <2> QED BY <2>1, <2>2
<1>9. WaiterNotLost'
  <2>1. ASSUME NEW h \in Handler, submit[h] # Nil, ~ stale(h)' PROVE ~ stale(h)
    <3>1. submit[h].srv \in Server /\ 1 <= submit[h].term /\ submit[h].term \in Nat
      BY <2>1 DEF Types, RsmTypes, Waiting, WaitInv
    <3> QED BY <1>2, <1>6, <2>1, <3>1 DEF stale
  <2> QED BY <1>6, <2>1 DEF WaiterNotLost
<1>10. Len(clog) \in Nat
  BY DEF Types, RaftTypes
<1> QED BY <1>1, <1>2, <1>4, <1>5, <1>7, <1>8, <1>9, <1>10, RaftStep

-----------------------------------------------------------------------------
\* The replicated state machine

\* A step that leaves logs and calls alone.
\* What Submit waits for.
LEMMA Waits ==
  ASSUME RsmInv, NEW h \in Handler, submit[h] # Nil
  PROVE  /\ submit[h] \in Waiting /\ submit[h].srv \in Server /\ submit[h].index \in Index
         /\ submit[h].term \in 1 .. Len(termLog)
         /\ submit[h].index <= Len(termLog[submit[h].term])
         /\ h \in issued \ net
<1>1. submit[h] \in Waiting
  BY DEF RsmInv, Types, RsmTypes
<1>2. Len(termLog) \in Nat
  BY DEF RsmInv, Types, RaftTypes
<1> QED BY <1>1, <1>2 DEF RsmInv, WaitInv, Waiting

\* The new index lies beyond everything the reader has taken, so that no command passes
\* its waiter by; another waiter at that index is of an earlier term.
LEMMA SubmitInv ==
  ASSUME RsmInv, NEW h \in net, NEW s \in Server, Submit(h, s)
  PROVE  RsmInv'
<1> USE DEF RsmInv
<1> DEFINE t == lead[s]
           index == Len(termLog[t]) + 1
           id == reqNum[s] + 1
           e == [term |-> t, me |-> s, id |-> id, handler |-> h]
           w == [srv |-> s, index |-> index, term |-> t, id |-> id]
<1>1. /\ net' = net \ {h} /\ reqNum' = [reqNum EXCEPT ![s] = id]
      /\ UNCHANGED <<lead, clog, by, base, snap, offered, handed, restarts,
                     m, lastApplied, reader, pc, args, resent, attempt, result, ghostVars>>
  BY DEF Submit
<1>2. h \in Handler /\ h \in issued /\ issued' = issued /\ net \subseteq issued
  BY <1>1 DEF Types, CallTypes, issued
<1>3. t \in Nat /\ id \in Nat /\ reqNum' \in [Server -> Nat]
  BY <1>1 DEF Types, RaftTypes, RsmTypes
<1>4. CallTypes'
  BY <1>1, <1>2 DEF Types, CallTypes
<1>5. HistoryInv' /\ ReaderInv' /\ StateIsPrefix'
  BY <1>1 DEF HistoryInv, ReaderInv, StateIsPrefix, ranUpTo, ghostVars
<1>6. CASE t = 0
  <2>1. UNCHANGED <<termLog, pending, submit>>
    BY <1>6 DEF Submit
  <2>2. Types'
    BY <1>1, <1>3, <1>4, <2>1 DEF Types, RaftTypes, RsmTypes, ghostVars
  <2>3. LogInv' /\ CommitInv' /\ LeadInv'
    BY <1>1, <1>2, <2>1 DEF LogInv, CommitInv, LeadInv, extends
  <2>4. WaitInv' /\ WaiterNotLost'
    BY <1>1, <1>2, <2>1 DEF WaitInv, WaiterNotLost, stale
  <2> QED BY <1>5, <2>2, <2>3, <2>4
<1>7. CASE t # 0
  <2>1. /\ termLog' = [termLog EXCEPT ![t] = Append(termLog[t], e)]
        /\ pending' = [pending EXCEPT ![s][index] = h]
        /\ submit' = [submit EXCEPT ![h] = w]
    BY <1>7 DEF Submit
  <2>2. t \in 1 .. Len(termLog) /\ termLog \in Seq(Seq(Entry)) /\ Len(termLog) \in Nat
        /\ handed[s] <= Len(termLog[t]) /\ handed[s] \in Nat
    BY <1>3, <1>7 DEF LeadInv, Types, RaftTypes
  <2>3. Len(termLog[t]) \in Nat /\ Len(termLog[t]) < MaxEvents /\ index \in Index
    <3>1. Len(termLog[t]) \in Nat /\ Len(termLog[t]) < MaxEvents
      BY <2>2, LogLength
    <3>2. MaxEvents \in Nat
      BY KVRaftAssumption
    <3> QED BY <3>1, <3>2 DEF Index
  <2>4. e \in Entry /\ w \in Waiting /\ w # Nil
    BY <1>2, <1>3, <2>3, NilAssumption DEF Entry, Waiting
  <2> PICK q \in Seq(Entry) : q = termLog[t]
    BY <2>2
  <2> DEFINE l == Append(q, e)
  <2>5. l \in Seq(Entry) /\ Len(l) = index /\ l[index] = e /\ \A i \in 1 .. Len(q) : l[i] = q[i]
    BY <2>3, <2>4
  <2>6. /\ termLog' \in Seq(Seq(Entry)) /\ Len(termLog') = Len(termLog)
        /\ \A u \in 1 .. Len(termLog) : termLog'[u] = IF u = t THEN l ELSE termLog[u]
    <3> HIDE DEF l, e
    <3> QED BY <2>1, <2>2, <2>5 DEF l
  <2> HIDE DEF index, id, e, w, l
  <2>7. /\ pending' \in [Server -> [Index -> Waiter]]
        /\ \A p \in Server, i \in Index :
             pending'[p][i] = IF p = s /\ i = index THEN h ELSE pending[p][i]
    BY <1>2, <2>1, <2>3 DEF Types, RsmTypes, Waiter
  <2>8. /\ submit' \in [Handler -> Waiting \cup {Nil}]
        /\ \A x \in Handler : submit'[x] = IF x = h THEN w ELSE submit[x]
    BY <1>2, <2>1, <2>4 DEF Types, RsmTypes
  <2>9. Types'
    BY <1>1, <1>3, <1>4, <2>6, <2>7, <2>8 DEF Types, RaftTypes, RsmTypes, ghostVars
  <2>10. \A u \in 1 .. Len(termLog) :
           /\ Len(termLog[u]) \in Nat /\ Len(termLog'[u]) \in Nat
           /\ Len(termLog[u]) <= Len(termLog'[u])
           /\ \A i \in 1 .. Len(termLog[u]) : termLog'[u][i] = termLog[u][i]
    <3> SUFFICES ASSUME NEW u \in 1 .. Len(termLog)
                 PROVE  /\ Len(termLog[u]) \in Nat /\ Len(termLog'[u]) \in Nat
                        /\ Len(termLog[u]) <= Len(termLog'[u])
                        /\ \A i \in 1 .. Len(termLog[u]) : termLog'[u][i] = termLog[u][i]
      OBVIOUS
    <3>1. Len(termLog[u]) \in Nat
      BY <2>2
    <3>2. CASE u # t
      BY <2>6, <3>1, <3>2
    <3>3. CASE u = t
      <4>1. termLog[u] = q /\ termLog'[u] = l
        BY <2>6, <3>3
      <4> QED BY <2>3, <2>5, <4>1 DEF index
    <3> QED BY <3>2, <3>3
  <2>11. LogInv'
    <3> SUFFICES ASSUME NEW u \in 1 .. Len(termLog)
                 PROVE  /\ \A i \in 1 .. Len(termLog'[u]) : termLog'[u][i].handler \in issued \ net'
                        /\ \A i, j \in 1 .. Len(termLog'[u]) :
                             termLog'[u][i].handler = termLog'[u][j].handler => i = j
      BY <1>2, <2>6 DEF LogInv
    <3>1. /\ \A i \in 1 .. Len(termLog[u]) : termLog[u][i].handler \in issued \ net
          /\ \A i, j \in 1 .. Len(termLog[u]) :
               termLog[u][i].handler = termLog[u][j].handler => i = j
      BY DEF LogInv
    <3>2. CASE u # t
      BY <1>1, <2>6, <3>1, <3>2
    <3>3. CASE u = t
      <4>1. \A i \in 1 .. index : i \in 1 .. Len(q) \/ i = index
        BY <2>3 DEF index
      <4>2. l[index].handler = h /\ h \notin net' /\ h \in net
        BY <1>1, <2>5 DEF e
      <4>3. \A i \in 1 .. Len(q) : l[i].handler \in issued \ net /\ l[i].handler # h
        BY <2>5, <3>1, <3>3
      <4>4. \A i \in 1 .. Len(l) : l[i].handler \in issued \ net'
        BY <1>1, <1>2, <2>5, <4>1, <4>2, <4>3
      <4>5. \A i, j \in 1 .. Len(l) : l[i].handler = l[j].handler => i = j
        BY <2>5, <3>1, <3>3, <4>1, <4>2, <4>3
      <4> QED BY <2>6, <3>3, <4>4, <4>5
    <3> QED BY <3>2, <3>3
  <2>12. CommitInv'
    <3>1. termLog # <<>> /\ termLog' # <<>> /\ Len(clog) \in Nat
      BY <2>2, <2>6 DEF Types, RaftTypes
    <3>2. extends(termLog[Len(termLog)])
      BY <3>1 DEF CommitInv
    <3>3. Len(termLog) \in 1 .. Len(termLog)
      BY <2>2
    <3>4. extends(termLog[Len(termLog)])'
      BY <1>1, <2>6, <2>10, <3>1, <3>2, <3>3 DEF extends
    <3>5. ASSUME NEW u \in 1 .. Len(termLog), NEW i \in 1 .. Len(clog), by[i] <= u
          PROVE  i <= Len(termLog'[u])
      BY <2>10, <3>1, <3>5 DEF CommitInv
    <3> QED BY <1>1, <2>6, <3>1, <3>4, <3>5 DEF CommitInv
  <2>13. LeadInv'
    <3> SUFFICES ASSUME NEW p \in Server, lead[p] # 0
                 PROVE  /\ base[p] <= Len(termLog'[lead[p]])
                        /\ handed[p] <= Len(termLog'[lead[p]])
      BY <1>1, <2>6 DEF LeadInv
    <3>1. lead[p] \in 1 .. Len(termLog) /\ base[p] \in Nat /\ handed[p] \in Nat
      BY <2>2 DEF LeadInv, Types, RaftTypes
    <3> QED BY <2>10, <3>1 DEF LeadInv
  <2>14. WaitInv'
    <3> SUFFICES ASSUME NEW x \in Handler, submit'[x] # Nil
                 PROVE  /\ x \in issued \ net'
                        /\ 1 <= submit'[x].term /\ submit'[x].term <= Len(termLog)
                        /\ submit'[x].index <= Len(termLog'[submit'[x].term])
      BY <1>2, <2>6 DEF WaitInv
    <3>1. CASE x = h
      <4>1. submit'[x].term = t /\ submit'[x].index = index
        BY <2>8, <3>1 DEF w
      <4> QED BY <1>1, <1>2, <2>2, <2>3, <2>5, <2>6, <3>1, <4>1 DEF index
    <3>2. CASE x # h
      <4>1. submit'[x] = submit[x] /\ submit[x] # Nil
        BY <2>8, <3>2
      <4>2. submit[x].term \in 1 .. Len(termLog) /\ submit[x].index <= Len(termLog[submit[x].term])
            /\ x \in issued \ net /\ submit[x].index \in Nat
        BY <4>1, Waits DEF Index
      <4>3. submit[x].index <= Len(termLog'[submit[x].term])
        <5> PICK u \in 1 .. Len(termLog) : u = submit[x].term
          BY <4>2
        <5>1. Len(termLog[u]) \in Nat /\ Len(termLog'[u]) \in Nat /\ Len(termLog[u]) <= Len(termLog'[u])
          BY <2>10
        <5> QED BY <4>2, <5>1
      <4> QED BY <1>1, <2>2, <4>1, <4>2, <4>3
    <3> QED BY <3>1, <3>2
  <2>15. WaiterNotLost'
    <3> SUFFICES ASSUME NEW x \in Handler, submit'[x] # Nil, ~ stale(x)'
                 PROVE  LET p == submit'[x].srv
                        IN \/ /\ pending'[p][submit'[x].index] = x
                              /\ submit'[x].index > handed[p]
                           \/ reader[p] # Nil /\ reader[p].waiter = x
      BY <1>1 DEF WaiterNotLost
    <3>1. CASE x = h
      <4>1. submit'[x].srv = s /\ submit'[x].index = index
        BY <2>8, <3>1 DEF w
      <4>2. index > handed[s]
        BY <2>2, <2>3 DEF index
      <4> QED BY <2>3, <2>7, <3>1, <4>1, <4>2
    <3>2. CASE x # h
      <4>1. submit'[x] = submit[x] /\ submit[x] # Nil /\ ~ stale(x)
        BY <1>1, <2>8, <3>2 DEF stale
      <4>2. submit[x].index <= Len(termLog[submit[x].term]) /\ submit[x].srv \in Server
            /\ submit[x].index \in Index
        BY <4>1, Waits
      <4>3. submit[x].srv = s => submit[x].index # index
        BY <2>3, <4>1, <4>2 DEF stale, index, Index
      <4>4. pending'[submit[x].srv][submit[x].index] = pending[submit[x].srv][submit[x].index]
        BY <2>7, <4>2, <4>3
      <4> QED BY <4>1, <4>4 DEF WaiterNotLost
    <3> QED BY <3>1, <3>2
  <2> QED BY <1>5, <2>9, <2>11, <2>12, <2>13, <2>14, <2>15
<1> QED BY <1>6, <1>7

\* A stale Submit removes its own waiter only.
LEMMA GiveUpInv ==
  ASSUME RsmInv, NEW h \in Handler, giveUp(h)
  PROVE  RsmInv'
<1> USE DEF RsmInv
<1> DEFINE s == submit[h].srv
           i == submit[h].index
<1>1. /\ submit[h] # Nil /\ submit' = [submit EXCEPT ![h] = Nil]
      /\ pending' = [pending EXCEPT ![s][i] = IF pending[s][i] = h THEN Nil ELSE pending[s][i]]
      /\ UNCHANGED <<raftVars, m, reqNum, lastApplied, reader,
                     pc, args, resent, attempt, result, net, ghostVars>>
  BY DEF giveUp, discard
<1>2. s \in Server /\ i \in Index
  BY <1>1, Waits
<1> HIDE DEF s, i
<1>3. /\ pending' \in [Server -> [Index -> Waiter]]
      /\ \A p \in Server, j \in Index : pending[p][j] # h => pending'[p][j] = pending[p][j]
  BY <1>1, <1>2 DEF Types, RsmTypes, Waiter
<1>4. /\ submit' \in [Handler -> Waiting \cup {Nil}] /\ submit'[h] = Nil
      /\ \A x \in Handler : x # h => submit'[x] = submit[x]
  BY <1>1 DEF Types, RsmTypes
<1>5. Types'
  BY <1>1, <1>3, <1>4, CallsKept DEF Types, RaftTypes, RsmTypes, raftVars, ghostVars
<1>6. LogInv' /\ CommitInv' /\ UNCHANGED issued
  BY <1>1, LogsKept DEF raftVars
<1>7. LeadInv' /\ HistoryInv' /\ ReaderInv' /\ StateIsPrefix'
  BY <1>1 DEF LeadInv, HistoryInv, ReaderInv, StateIsPrefix, ranUpTo, raftVars, ghostVars
<1>8. WaitInv'
  BY <1>1, <1>4, <1>6 DEF WaitInv, raftVars
<1>9. WaiterNotLost'
  <2> SUFFICES ASSUME NEW x \in Handler, submit'[x] # Nil, ~ stale(x)'
               PROVE  LET p == submit'[x].srv
                      IN \/ /\ pending'[p][submit'[x].index] = x
                            /\ submit'[x].index > handed[p]
                         \/ reader[p] # Nil /\ reader[p].waiter = x
    BY <1>1 DEF WaiterNotLost, raftVars
  <2>1. x # h /\ submit'[x] = submit[x] /\ submit[x] # Nil
    BY <1>4
  <2>2. ~ stale(x)
    BY <1>1, <2>1 DEF stale, raftVars
  <2>3. submit[x].srv \in Server /\ submit[x].index \in Index
    BY <2>1, Waits
  <2> QED BY <1>3, <2>1, <2>2, <2>3 DEF WaiterNotLost
<1> QED BY <1>5, <1>6, <1>7, <1>8, <1>9

\* The reader takes an index and the waiter registered for it together.
LEMMA TakeCommandInv ==
  ASSUME RsmInv, NEW s \in Server, takeCommand(s)
  PROVE  RsmInv'
<1> USE DEF RsmInv
<1> DEFINE index == handed[s] + 1
           r == [index |-> index, waiter |-> pending[s][index]]
<1>1. /\ reader[s] = Nil /\ ~ offered[s] /\ index <= Len(clog)
      /\ lead[s] # 0 => by[index] <= lead[s]
      /\ handed' = [handed EXCEPT ![s] = index]
      /\ reader' = [reader EXCEPT ![s] = r]
      /\ pending' = [pending EXCEPT ![s][index] = Nil]
      /\ UNCHANGED <<lead, termLog, clog, by, base, snap, offered, restarts,
                     m, reqNum, lastApplied, submit, clerkVars, ghostVars>>
  BY DEF takeCommand, knows
<1>2. index \in Index /\ handed[s] \in Nat /\ index \in 1 .. Len(clog) /\ Len(clog) \in Nat
  BY <1>1, Committed, KVRaftAssumption DEF Types, RaftTypes, Index
<1>3. r \in Reader /\ r # Nil
  BY <1>2, NilAssumption DEF Types, RsmTypes, Reader
<1>4. handed' \in [Server -> Nat]
      /\ \A p \in Server : handed'[p] = IF p = s THEN index ELSE handed[p]
  BY <1>1, <1>2 DEF Types, RaftTypes
<1>5. reader' \in [Server -> Reader \cup {Nil}]
      /\ \A p \in Server : reader'[p] = IF p = s THEN r ELSE reader[p]
  <2> HIDE DEF r
  <2> QED BY <1>1, <1>3 DEF Types, RsmTypes
<1>6. pending' \in [Server -> [Index -> Waiter]]
      /\ \A p \in Server, j \in Index :
           pending'[p][j] = IF p = s /\ j = index THEN Nil ELSE pending[p][j]
  <2> HIDE DEF index
  <2> QED BY <1>1, <1>2 DEF Types, RsmTypes, Waiter
<1> HIDE DEF index, r
<1>7. Types'
  BY <1>1, <1>4, <1>5, <1>6, CallsKept DEF Types, RaftTypes, RsmTypes, clerkVars, ghostVars
<1>8. LogInv' /\ CommitInv' /\ UNCHANGED issued
  BY <1>1, LogsKept DEF clerkVars
<1>9. LeadInv'
  <2>1. ASSUME lead[s] # 0 PROVE index <= Len(termLog[lead[s]])
    <3>1. lead[s] \in 1 .. Len(termLog)
      BY <2>1 DEF LeadInv, Types, RaftTypes
    <3> QED BY <1>1, <1>2, <2>1, <3>1 DEF CommitInv
  <2> QED BY <1>1, <1>4, <2>1 DEF LeadInv
<1>10. HistoryInv' /\ WaitInv'
  BY <1>1, <1>8 DEF HistoryInv, WaitInv, clerkVars, ghostVars
<1>11. \A p \in Server : ranUpTo(p)' = ranUpTo(p)
  <2> SUFFICES ASSUME NEW p \in Server PROVE ranUpTo(p)' = ranUpTo(p)
    OBVIOUS
  <2>1. CASE p = s
    <3>1. reader'[p] # Nil /\ reader'[p].index = index /\ index - 1 = handed[s]
      BY <1>2, <1>3, <1>5, <2>1 DEF r, index
    <3> QED BY <1>1, <2>1, <3>1 DEF ranUpTo
  <2>2. CASE p # s
    BY <1>4, <1>5, <2>2 DEF ranUpTo
  <2> QED BY <2>1, <2>2
<1>12. StateIsPrefix'
  BY <1>1, <1>11 DEF StateIsPrefix, ghostVars
<1>13. ReaderInv'
  <2> SUFFICES ASSUME NEW p \in Server
               PROVE  /\ handed'[p] <= Len(clog)
                      /\ reader'[p] # Nil => reader'[p].index = handed'[p]
                      /\ ranUpTo(p)' < Len(history)
                      /\ lastApplied[p] <= handed'[p]
                      /\ offered[p] => handed'[p] < base[p]
    BY <1>1 DEF ReaderInv, ghostVars
  <2>1. CASE p = s
    <3>1. lastApplied[s] <= index
      BY <1>2 DEF ReaderInv, index, Types, RsmTypes
    <3> QED BY <1>1, <1>4, <1>5, <1>11, <2>1, <3>1 DEF ReaderInv, r
  <2>2. CASE p # s
    BY <1>4, <1>5, <1>11, <2>2 DEF ReaderInv
  <2> QED BY <2>1, <2>2
<1>14. WaiterNotLost'
  <2> SUFFICES ASSUME NEW x \in Handler, submit[x] # Nil, ~ stale(x)'
               PROVE  LET p == submit[x].srv
                      IN \/ /\ pending'[p][submit[x].index] = x
                            /\ submit[x].index > handed'[p]
                         \/ reader'[p] # Nil /\ reader'[p].waiter = x
    BY <1>1 DEF WaiterNotLost
  <2>1. ~ stale(x)
    BY <1>1 DEF stale
  <2>2. submit[x].srv \in Server /\ submit[x].index \in Index /\ submit[x].index \in Nat
    BY Waits DEF Index
  <2>3. CASE submit[x].srv # s
    BY <1>4, <1>5, <1>6, <2>1, <2>2, <2>3 DEF WaiterNotLost
  <2>4. CASE submit[x].srv = s
    <3>1. pending[s][submit[x].index] = x /\ submit[x].index > handed[s]
      BY <1>1, <2>1, <2>4 DEF WaiterNotLost
    <3>2. CASE submit[x].index = index
      BY <1>3, <1>5, <2>4, <3>1, <3>2 DEF r
    <3>3. CASE submit[x].index # index
      <4>1. submit[x].index > index
        BY <1>2, <2>2, <3>1, <3>3 DEF index
      <4> QED BY <1>4, <1>6, <2>2, <2>4, <3>1, <3>3, <4>1
    <3> QED BY <3>2, <3>3
  <2> QED BY <2>3, <2>4
<1> QED BY <1>7, <1>8, <1>9, <1>10, <1>12, <1>13, <1>14

\* After a restart the state is that of the snapshot, and no Submit of the server is left.
LEMMA RestartInv ==
  ASSUME RsmInv, NEW s \in Server, restart(s)
  PROVE  RsmInv'
<1> USE DEF RsmInv
<1>1. /\ events < MaxEvents /\ restarts' = restarts + 1
      /\ lead' = [lead EXCEPT ![s] = 0]
      /\ handed' = [handed EXCEPT ![s] = base[s]]
      /\ offered' = [offered EXCEPT ![s] = FALSE]
      /\ m' = [m EXCEPT ![s] = snap[s]]
      /\ reqNum' = [reqNum EXCEPT ![s] = 0]
      /\ lastApplied' = [lastApplied EXCEPT ![s] = 0]
      /\ pending' = [pending EXCEPT ![s] = [i \in Index |-> Nil]]
      /\ reader' = [reader EXCEPT ![s] = Nil]
      /\ submit' = [h \in Handler |-> IF submit[h] # Nil /\ submit[h].srv = s THEN Nil ELSE submit[h]]
      /\ UNCHANGED <<termLog, clog, by, base, snap, clerkVars, ghostVars>>
  BY DEF restart, restored
<1>2. LogInv' /\ CommitInv' /\ UNCHANGED issued
  BY <1>1, LogsKept DEF clerkVars
<1>3. RaftTypes'
  BY <1>1 DEF Types, RaftTypes
<1>4. RsmTypes'
  BY <1>1 DEF Types, RsmTypes, RaftTypes, Waiter, ghostVars
<1>5. CallTypes'
  <2>1. restarts' + Cardinality(issued) <= MaxEvents
    BY <1>1, IssuedFinite, KVRaftAssumption DEF events, Types, RaftTypes
  <2> QED BY <1>1, <1>2, <2>1 DEF Types, CallTypes, clerkVars
<1>6. \A p \in Server :
        /\ lead'[p] = IF p = s THEN 0 ELSE lead[p]
        /\ handed'[p] = IF p = s THEN base[p] ELSE handed[p]
        /\ m'[p] = IF p = s THEN snap[p] ELSE m[p]
        /\ lastApplied'[p] = IF p = s THEN 0 ELSE lastApplied[p]
        /\ reader'[p] = IF p = s THEN Nil ELSE reader[p]
  BY <1>1 DEF Types, RaftTypes, RsmTypes
<1>7. \A p \in Server : (p = s => ~ offered'[p]) /\ (p # s => offered'[p] = offered[p] /\ pending'[p] = pending[p])
  BY <1>1 DEF Types, RaftTypes, RsmTypes
<1>8. \A x \in Handler : submit'[x] # Nil => submit'[x] = submit[x] /\ submit[x].srv # s
  BY <1>1
<1>9. LeadInv'
  BY <1>1, <1>6 DEF LeadInv, Types, RaftTypes
<1>10. HistoryInv'
  BY <1>1 DEF HistoryInv, clerkVars, ghostVars
<1>11. base[s] \in Nat /\ base[s] < Len(history) /\ base[s] <= Len(clog) /\ snap[s] = history[base[s] + 1]
  <2>1. base[s] \in Nat /\ Len(history) \in Nat /\ Len(clog) \in Nat
    BY DEF Types, RaftTypes, RsmTypes
  <2> QED BY <2>1 DEF StateIsPrefix, HistoryInv
<1>12. \A p \in Server : ranUpTo(p)' = IF p = s THEN base[s] ELSE ranUpTo(p)
  BY <1>6 DEF ranUpTo
<1>13. ReaderInv'
  <2> SUFFICES ASSUME NEW p \in Server
               PROVE  /\ handed'[p] <= Len(clog)
                      /\ reader'[p] # Nil => reader'[p].index = handed'[p]
                      /\ ranUpTo(p)' < Len(history)
                      /\ lastApplied'[p] <= handed'[p]
                      /\ offered'[p] => handed'[p] < base[p]
    BY <1>1 DEF ReaderInv, ghostVars
  <2>1. CASE p = s
    BY <1>6, <1>7, <1>11, <1>12, <2>1
  <2>2. CASE p # s
    BY <1>6, <1>7, <1>12, <2>2 DEF ReaderInv
  <2> QED BY <2>1, <2>2
<1>14. StateIsPrefix'
  BY <1>1, <1>6, <1>11, <1>12 DEF StateIsPrefix, ghostVars
<1>15. WaitInv'
  BY <1>1, <1>2, <1>8 DEF WaitInv, clerkVars
<1>16. WaiterNotLost'
  <2> SUFFICES ASSUME NEW x \in Handler, submit'[x] # Nil, ~ stale(x)'
               PROVE  LET p == submit'[x].srv
                      IN \/ /\ pending'[p][submit'[x].index] = x
                            /\ submit'[x].index > handed'[p]
                         \/ reader'[p] # Nil /\ reader'[p].waiter = x
    BY DEF WaiterNotLost
  <2>1. submit'[x] = submit[x] /\ submit[x].srv # s /\ submit[x] # Nil
    BY <1>8
  <2>2. submit[x].srv \in Server
    BY <2>1, Waits
  <2>3. ~ stale(x)
    BY <1>6, <2>1, <2>2 DEF stale
  <2> QED BY <1>6, <1>7, <2>1, <2>2, <2>3 DEF WaiterNotLost
<1> QED BY <1>2, <1>3, <1>4, <1>5, <1>9, <1>10, <1>13, <1>14, <1>15, <1>16 DEF Types

\* A snapshot moves the state to its index, and wakes the waiters it covers.
LEMMA ApplySnapshotInv ==
  ASSUME RsmInv, NEW s \in Server, applySnapshot(s)
  PROVE  RsmInv'
<1> USE DEF RsmInv
<1> DEFINE gone == overtaken(s)
<1>1. reader[s] = Nil /\ offered[s] /\ handed[s] < base[s] /\ lastApplied[s] <= handed[s]
      /\ base[s] \in Nat /\ handed[s] \in Nat /\ lastApplied[s] \in Nat
  BY DEF applySnapshot, ReaderInv, Types, RaftTypes, RsmTypes
<1>2. /\ offered' = [offered EXCEPT ![s] = FALSE]
      /\ handed' = [handed EXCEPT ![s] = base[s]]
      /\ m' = [m EXCEPT ![s] = snap[s]]
      /\ lastApplied' = [lastApplied EXCEPT ![s] = base[s]]
      /\ pending' = [pending EXCEPT ![s] =
                       [i \in Index |-> IF i <= base[s] THEN Nil ELSE pending[s][i]]]
      /\ submit' = [h \in Handler |-> IF h \in gone THEN Nil ELSE submit[h]]
      /\ UNCHANGED <<lead, termLog, clog, by, base, snap, restarts, reqNum, reader,
                     pc, args, resent, attempt, result, net, ghostVars>>
  BY <1>1 DEF applySnapshot
<1>3. LogInv' /\ CommitInv' /\ UNCHANGED issued
  BY <1>2, LogsKept
<1>4. /\ offered' \in [Server -> BOOLEAN] /\ handed' \in [Server -> Nat]
      /\ m' \in [Server -> Map] /\ lastApplied' \in [Server -> Nat]
  BY <1>1, <1>2 DEF Types, RaftTypes, RsmTypes
<1>5. submit' \in [Handler -> Waiting \cup {Nil}]
  BY <1>2 DEF Types, RsmTypes
<1>6. /\ pending' \in [Server -> [Index -> Waiter]]
      /\ \A p \in Server, i \in Index :
           pending'[p][i] = IF p = s /\ i <= base[s] THEN Nil ELSE pending[p][i]
  <2> DEFINE f == [i \in Index |-> IF i <= base[s] THEN Nil ELSE pending[s][i]]
  <2>1. f \in [Index -> Waiter]
    BY DEF Types, RsmTypes, Waiter
  <2>2. \A i \in Index : f[i] = IF i <= base[s] THEN Nil ELSE pending[s][i]
    OBVIOUS
  <2>3. pending' = [pending EXCEPT ![s] = f]
    BY <1>2
  <2> HIDE DEF f
  <2> QED BY <2>1, <2>2, <2>3 DEF Types, RsmTypes
<1>7. Types'
  BY <1>2, <1>4, <1>5, <1>6, CallsKept DEF Types, RaftTypes, RsmTypes, ghostVars
<1>8. \A p \in Server :
        /\ handed'[p] = IF p = s THEN base[p] ELSE handed[p]
        /\ m'[p] = IF p = s THEN snap[p] ELSE m[p]
        /\ lastApplied'[p] = IF p = s THEN base[p] ELSE lastApplied[p]
        /\ p = s => ~ offered'[p]
        /\ p # s => offered'[p] = offered[p]
  BY <1>2 DEF Types, RaftTypes, RsmTypes
<1>9. \A x \in Handler : submit'[x] # Nil => submit'[x] = submit[x] /\ x \notin gone
  BY <1>2
<1> HIDE DEF gone
<1>10. LeadInv'
  BY <1>2, <1>8 DEF LeadInv
<1>11. HistoryInv'
  BY <1>2 DEF HistoryInv, ghostVars
<1>12. base[s] < Len(history) /\ base[s] <= Len(clog) /\ snap[s] = history[base[s] + 1]
  <2>1. base[s] \in Nat /\ Len(history) \in Nat /\ Len(clog) \in Nat
    BY DEF Types, RaftTypes, RsmTypes
  <2> QED BY <2>1 DEF StateIsPrefix, HistoryInv
<1>13. \A p \in Server : ranUpTo(p)' = IF p = s THEN base[s] ELSE ranUpTo(p)
  BY <1>1, <1>2, <1>8 DEF ranUpTo
<1>14. ReaderInv'
  <2> SUFFICES ASSUME NEW p \in Server
               PROVE  /\ handed'[p] <= Len(clog)
                      /\ reader[p] # Nil => reader[p].index = handed'[p]
                      /\ ranUpTo(p)' < Len(history)
                      /\ lastApplied'[p] <= handed'[p]
                      /\ offered'[p] => handed'[p] < base[p]
    BY <1>2 DEF ReaderInv, ghostVars
  <2>1. CASE p = s
    BY <1>1, <1>8, <1>12, <1>13, <2>1
  <2>2. CASE p # s
    BY <1>8, <1>13, <2>2 DEF ReaderInv
  <2> QED BY <2>1, <2>2
<1>15. StateIsPrefix'
  <2> SUFFICES ASSUME NEW p \in Server
               PROVE  /\ m'[p] = history[ranUpTo(p)' + 1]
                      /\ base[p] < Len(history)
                      /\ snap[p] = history[base[p] + 1]
    BY <1>2 DEF StateIsPrefix, ghostVars
  <2>1. base[p] < Len(history) /\ snap[p] = history[base[p] + 1]
    BY DEF StateIsPrefix
  <2>2. CASE p = s
    BY <1>8, <1>13, <2>1, <2>2
  <2>3. CASE p # s
    <3>1. m'[p] = m[p] /\ ranUpTo(p)' = ranUpTo(p)
      BY <1>8, <1>13, <2>3
    <3>2. m[p] = history[ranUpTo(p) + 1]
      BY DEF StateIsPrefix
    <3> QED BY <2>1, <3>1, <3>2
  <2> QED BY <2>2, <2>3
<1>16. WaitInv'
  BY <1>2, <1>3, <1>9 DEF WaitInv
<1>17. WaiterNotLost'
  <2> SUFFICES ASSUME NEW x \in Handler, submit'[x] # Nil, ~ stale(x)'
               PROVE  LET p == submit'[x].srv
                      IN \/ /\ pending'[p][submit'[x].index] = x
                            /\ submit'[x].index > handed'[p]
                         \/ reader[p] # Nil /\ reader[p].waiter = x
    BY <1>2 DEF WaiterNotLost
  <2>1. submit'[x] = submit[x] /\ submit[x] # Nil /\ x \notin gone
    BY <1>9
  <2>2. submit[x].srv \in Server /\ submit[x].index \in Index /\ submit[x].index \in Nat
    BY <2>1, Waits DEF Index
  <2>3. ~ stale(x)
    BY <1>2, <2>1 DEF stale
  <2>4. CASE submit[x].srv # s
    BY <1>6, <1>8, <2>1, <2>2, <2>3, <2>4 DEF WaiterNotLost
  <2>5. CASE submit[x].srv = s
    <3>1. pending[s][submit[x].index] = x
      BY <1>1, <2>1, <2>3, <2>5 DEF WaiterNotLost
    <3>2. submit[x].index > base[s]
      <4> SUFFICES ASSUME submit[x].index <= base[s] PROVE FALSE
        BY <1>1, <2>2
      <4>1. submit[x].index \in 1 .. base[s]
        BY <1>1, <2>2 DEF Index
      <4>2. x \in gone
        BY <3>1, <4>1 DEF gone, overtaken
      <4> QED BY <2>1, <4>2
    <3>3. ~ (submit[x].index <= base[s])
      BY <1>1, <2>2, <3>2
    <3> QED BY <1>6, <1>8, <2>1, <2>2, <2>5, <3>1, <3>2, <3>3
  <2> QED BY <2>4, <2>5
<1> QED BY <1>3, <1>7, <1>10, <1>11, <1>14, <1>15, <1>16, <1>17

\* A command leaves a state of the right type, wherever it runs.
LEMMA DoOpType ==
  ASSUME NEW mm \in Map, NEW a \in Args
  PROVE  DoOp(mm, a) \in Map
<1>1. a.key \in Key /\ a.value \in Value /\ mm[a.key] \in Node
  BY DEF Map, Args
<1>2. [value |-> a.value, version |-> mm[a.key].version + 1] \in Node
  BY <1>1 DEF Node
<1>3. DoOp(mm, a) = IF performs(mm, a)
                      THEN [mm EXCEPT ![a.key] = [value |-> a.value, version |-> mm[a.key].version + 1]]
                      ELSE mm
  BY DEF DoOp
<1> QED BY <1>1, <1>2, <1>3 DEF Map

\* A command runs on the outcome of those before it, and gives what it gave where it ran
\* first; a snapshot taken now has the index of the command.
LEMMA RunCommandInv ==
  ASSUME RsmInv, NEW s \in Server, runCommand(s)
  PROVE  RsmInv'
<1> USE DEF RsmInv
<1> DEFINE i == reader[s].index
           e == clog[i]
           a == args[e.handler[1]]
           mm == DoOp(m[s], a)
           w == reader[s].waiter
<1>1. /\ reader[s] # Nil /\ reader' = [reader EXCEPT ![s] = Nil] /\ m' = [m EXCEPT ![s] = mm]
      /\ lastApplied' = [lastApplied EXCEPT ![s] = i]
      /\ history' = IF i = Len(history) THEN Append(history, m'[s]) ELSE history
      /\ UNCHANGED <<lead, termLog, clog, by, offered, handed, restarts, reqNum, pending,
                     pc, args, resent, attempt, result, net>>
  BY DEF runCommand, maybeSnapshot
<1>2. \/ UNCHANGED <<base, snap>>
      \/ i > base[s] /\ base' = [base EXCEPT ![s] = i] /\ snap' = [snap EXCEPT ![s] = m'[s]]
  BY DEF runCommand, maybeSnapshot, snapIndex
<1>3. IF w # Nil /\ submit[w] # Nil THEN submit' = [submit EXCEPT ![w] = Nil] ELSE submit' = submit
  BY DEF runCommand
<1>4. reader[s] \in Reader /\ i \in Nat /\ i >= 1 /\ i = handed[s] /\ w \in Waiter
  BY <1>1 DEF Types, RsmTypes, Reader, Index, ReaderInv
<1>5. i \in 1 .. Len(clog) /\ Len(clog) \in Nat /\ Len(history) \in Nat /\ i <= Len(history)
      /\ ranUpTo(s) = i - 1 /\ m[s] = history[i]
  <2>1. ranUpTo(s) = i - 1 /\ Len(history) \in Nat /\ Len(clog) \in Nat
    BY <1>1 DEF ranUpTo, Types, RsmTypes, RaftTypes
  <2> QED BY <1>4, <2>1 DEF ReaderInv, StateIsPrefix
<1>6. mm \in Map
  <2>1. e.handler \in issued
    BY <1>5, Committed
  <2>2. e.handler[1] \in Op /\ attempt[e.handler[1]] > 0
    BY <2>1 DEF issued, Handler, Types, CallTypes
  <2>3. a \in Args
    BY <2>2 DEF Types, CallTypes
  <2>4. m[s] \in Map
    BY DEF Types, RsmTypes
  <2> QED BY <2>3, <2>4, DoOpType
<1> HIDE DEF mm
<1>7. m' \in [Server -> Map] /\ \A p \in Server : m'[p] = IF p = s THEN mm ELSE m[p]
  BY <1>1, <1>6 DEF Types, RsmTypes
<1>8. /\ history' \in Seq(Map) /\ Len(history') \in Nat /\ Len(history) <= Len(history')
      /\ i + 1 <= Len(history') /\ Len(history') <= Len(clog) + 1
      /\ history'[i + 1] = mm
      /\ \A j \in 1 .. Len(history) : history'[j] = history[j]
  <2>0. history \in Seq(Map)
    BY DEF Types, RsmTypes
  <2>1. CASE i = Len(history)
    <3>1. history' = Append(history, mm)
      BY <1>1, <1>7, <2>1
    <3> QED BY <1>5, <1>6, <2>0, <2>1, <3>1
  <2>2. CASE i # Len(history)
    <3>1. i \in 1 .. Len(history) - 1 /\ history' = history
      BY <1>1, <1>4, <1>5, <2>2
    <3>2. history[i + 1] = DoOp(history[i], args[clog[i].handler[1]])
      BY <3>1 DEF HistoryInv
    <3> QED BY <1>5, <2>0, <3>1, <3>2 DEF mm, HistoryInv
  <2> QED BY <2>1, <2>2
<1>9. HistoryInv'
  <2>1. ASSUME NEW j \in 1 .. Len(history') - 1
        PROVE  history'[j + 1] = DoOp(history'[j], args[clog[j].handler[1]])
    <3>1. CASE j < Len(history)
      <4>1. j \in 1 .. Len(history) - 1 /\ j \in 1 .. Len(history) /\ j + 1 \in 1 .. Len(history)
        BY <1>5, <1>8, <3>1
      <4> QED BY <1>8, <4>1 DEF HistoryInv
    <3>2. CASE j >= Len(history)
      <4>1. i = Len(history) /\ Len(history') = i + 1
        <5>1. history \in Seq(Map)
          BY DEF Types, RsmTypes
        <5>2. history' # history
          BY <1>5, <1>8, <3>2
        <5> QED BY <1>1, <1>5, <1>7, <5>1, <5>2
      <4>2. j = i
        BY <1>5, <1>8, <3>2, <4>1
      <4>3. history'[i] = history[i]
        BY <1>4, <1>5, <1>8
      <4> QED BY <1>5, <1>8, <4>2, <4>3 DEF mm
    <3> QED BY <1>5, <1>8, <3>1, <3>2
  <2>2. 1 <= Len(history')
    BY <1>5, <1>8 DEF HistoryInv
  <2> QED BY <1>1, <1>8, <2>1, <2>2 DEF HistoryInv
<1>10. /\ base' \in [Server -> Nat] /\ snap' \in [Server -> Map]
       /\ \A p \in Server : p # s => base'[p] = base[p] /\ snap'[p] = snap[p]
       /\ (base'[s] = base[s] /\ snap'[s] = snap[s]) \/ (base'[s] = i /\ snap'[s] = mm /\ i > base[s])
  BY <1>2, <1>4, <1>6, <1>7 DEF Types, RaftTypes
<1>11. /\ submit' \in [Handler -> Waiting \cup {Nil}]
       /\ \A x \in Handler : submit'[x] # Nil => submit'[x] = submit[x] /\ x # w
  <2>1. w # Nil => w \in Handler
    BY <1>4 DEF Waiter
  <2>2. submit \in [Handler -> Waiting \cup {Nil}]
    BY DEF Types, RsmTypes
  <2>3. CASE w # Nil /\ submit[w] # Nil
    <3>1. submit' = [submit EXCEPT ![w] = Nil] /\ w \in Handler
      BY <1>3, <2>1, <2>3
    <3> HIDE DEF w
    <3> QED BY <2>2, <3>1
  <2>4. CASE ~ (w # Nil /\ submit[w] # Nil)
    <3>1. submit' = submit
      BY <1>3, <2>4
    <3>2. ASSUME NEW x \in Handler, submit[x] # Nil PROVE x # w
      <4>1. CASE w = Nil
        BY <4>1, NilAssumption
      <4>2. CASE submit[w] = Nil
        BY <3>2, <4>2
      <4> QED BY <2>4, <4>1, <4>2
    <3> QED BY <2>2, <3>1, <3>2
  <2> QED BY <2>3, <2>4
<1> HIDE DEF i, w
<1>12. /\ reader' \in [Server -> Reader \cup {Nil}] /\ lastApplied' \in [Server -> Nat]
       /\ \A p \in Server : reader'[p] = IF p = s THEN Nil ELSE reader[p]
       /\ \A p \in Server : lastApplied'[p] = IF p = s THEN i ELSE lastApplied[p]
  BY <1>1, <1>4 DEF Types, RsmTypes
<1>13. Types'
  BY <1>1, <1>7, <1>8, <1>10, <1>11, <1>12, CallsKept DEF Types, RaftTypes, RsmTypes
<1>14. LogInv' /\ CommitInv' /\ UNCHANGED issued
  BY <1>1, LogsKept
<1>15. LeadInv'
  <2>1. lead[s] # 0 => base'[s] <= Len(termLog[lead[s]])
    BY <1>4, <1>10 DEF LeadInv
  <2> QED BY <1>1, <1>10, <2>1 DEF LeadInv
<1>16. \A p \in Server : ranUpTo(p)' = IF p = s THEN i ELSE ranUpTo(p)
  BY <1>1, <1>4, <1>12 DEF ranUpTo
<1>17. ReaderInv'
  <2> SUFFICES ASSUME NEW p \in Server
               PROVE  /\ handed[p] <= Len(clog)
                      /\ reader'[p] # Nil => reader'[p].index = handed[p]
                      /\ ranUpTo(p)' < Len(history')
                      /\ lastApplied'[p] <= handed[p]
                      /\ offered[p] => handed[p] < base'[p]
    BY <1>1 DEF ReaderInv
  <2>1. CASE p = s
    <3>1. offered[s] => handed[s] < base'[s]
      BY <1>4, <1>10 DEF ReaderInv, Types, RaftTypes
    <3>2. ranUpTo(s)' < Len(history') /\ lastApplied'[s] <= handed[s]
      BY <1>4, <1>8, <1>12, <1>16
    <3> QED BY <1>12, <2>1, <3>1, <3>2 DEF ReaderInv
  <2>2. CASE p # s
    <3>1. ranUpTo(p) < Len(history) /\ ranUpTo(p) \in Int
      BY <2>2 DEF ReaderInv, ranUpTo, Types, RaftTypes, RsmTypes, Reader, Index
    <3>2. /\ ranUpTo(p)' = ranUpTo(p) /\ base'[p] = base[p]
          /\ reader'[p] = reader[p] /\ lastApplied'[p] = lastApplied[p]
      BY <1>10, <1>12, <1>16, <2>2
    <3>3. ranUpTo(p)' < Len(history')
      BY <1>5, <1>8, <3>1, <3>2
    <3> QED BY <3>2, <3>3 DEF ReaderInv
  <2> QED BY <2>1, <2>2
<1>18. StateIsPrefix'
  <2> SUFFICES ASSUME NEW p \in Server
               PROVE  /\ m'[p] = history'[ranUpTo(p)' + 1]
                      /\ base'[p] < Len(history')
                      /\ snap'[p] = history'[base'[p] + 1]
    BY DEF StateIsPrefix
  <2>1. base[p] \in Nat /\ base[p] + 1 \in 1 .. Len(history) /\ snap[p] = history[base[p] + 1]
    BY <1>5 DEF StateIsPrefix, Types, RaftTypes
  <2>2. CASE p = s
    <3>1. m'[p] = history'[ranUpTo(p)' + 1]
      BY <1>7, <1>8, <1>16, <2>2
    <3>2. CASE base'[s] = base[s] /\ snap'[s] = snap[s]
      BY <1>5, <1>8, <2>1, <2>2, <3>1, <3>2
    <3>3. CASE base'[s] = i /\ snap'[s] = mm
      BY <1>4, <1>8, <2>2, <3>1, <3>3
    <3> QED BY <1>10, <3>2, <3>3
  <2>3. CASE p # s
    <3>1. ranUpTo(p) \in Nat
      <4>1. reader[p] # Nil => reader[p].index \in Nat /\ reader[p].index >= 1
        BY DEF Types, RsmTypes, Reader, Index
      <4>2. handed[p] \in Nat
        BY DEF Types, RaftTypes
      <4> QED BY <4>1, <4>2 DEF ranUpTo
    <3>2. ranUpTo(p) + 1 \in 1 .. Len(history)
      BY <1>5, <3>1 DEF ReaderInv
    <3>3. m'[p] = m[p] /\ ranUpTo(p)' = ranUpTo(p)
      BY <1>7, <1>16, <2>3
    <3>4. m'[p] = history'[ranUpTo(p)' + 1]
      BY <1>8, <3>2, <3>3 DEF StateIsPrefix
    <3> QED BY <1>5, <1>8, <1>10, <2>1, <2>3, <3>4
  <2> QED BY <2>2, <2>3
<1>19. WaitInv'
  BY <1>1, <1>11, <1>14 DEF WaitInv
<1>20. WaiterNotLost'
  <2> SUFFICES ASSUME NEW x \in Handler, submit'[x] # Nil, ~ stale(x)'
               PROVE  LET p == submit'[x].srv
                      IN \/ /\ pending[p][submit'[x].index] = x
                            /\ submit'[x].index > handed[p]
                         \/ reader'[p] # Nil /\ reader'[p].waiter = x
    BY <1>1 DEF WaiterNotLost
  <2>1. submit'[x] = submit[x] /\ submit[x] # Nil /\ x # w
    BY <1>11
  <2>2. submit[x].srv \in Server /\ ~ stale(x)
    BY <1>1, <2>1, Waits DEF stale
  <2>3. CASE submit[x].srv = s
    BY <2>1, <2>2, <2>3 DEF WaiterNotLost, w
  <2>4. CASE submit[x].srv # s
    BY <1>12, <2>1, <2>2, <2>4 DEF WaiterNotLost
  <2> QED BY <2>3, <2>4
<1> QED BY <1>9, <1>13, <1>14, <1>15, <1>17, <1>18, <1>19, <1>20

-----------------------------------------------------------------------------
\* The theorems

\* The invariant holds initially.
LEMMA InitInv ==
  ASSUME Init
  PROVE  RsmInv
<1> USE KVRaftAssumption DEF Init
<1>1. NoMap \in Map
  BY DEF NoMap, Map, Node
<1>2. issued = {}
  BY DEF issued, Handler
<1>3. Cardinality(issued) = 0
  BY <1>2, FS_EmptySet
<1>4. history \in Seq(Map) /\ Len(history) = 1 /\ history[1] = NoMap
  BY <1>1
<1>5. RaftTypes
  BY <1>1 DEF RaftTypes
<1>6. RsmTypes
  BY <1>1, <1>4 DEF RsmTypes, Waiter
<1>7. CallTypes
  BY <1>2, <1>3 DEF CallTypes
<1>8. LogInv /\ CommitInv /\ LeadInv /\ WaitInv /\ WaiterNotLost
  BY DEF LogInv, CommitInv, LeadInv, WaitInv, WaiterNotLost
<1>9. HistoryInv
  BY <1>4 DEF HistoryInv
<1>10. ReaderInv /\ StateIsPrefix
  <2>1. \A s \in Server : reader[s] = Nil /\ handed[s] = 0 /\ base[s] = 0 /\ m[s] = NoMap
                          /\ snap[s] = NoMap /\ lastApplied[s] = 0 /\ offered[s] = FALSE
    OBVIOUS
  <2>2. Len(clog) = 0
    OBVIOUS
  <2> QED BY <1>4, <2>1, <2>2 DEF ReaderInv, StateIsPrefix, ranUpTo
<1> QED BY <1>5, <1>6, <1>7, <1>8, <1>9, <1>10 DEF RsmInv, Types

\* Every step keeps the invariant.
LEMMA NextInv ==
  ASSUME RsmInv, [Next]_vars
  PROVE  RsmInv'
<1>1. ASSUME NEW o \in Op, NEW k \in Key, Get(o, k) PROVE RsmInv'
  <2>1. [op |-> "Get", key |-> k, value |-> Empty, version |-> 0] \in Args
    BY KVRaftAssumption DEF Args
  <2> QED BY <1>1, <2>1, BeginInv DEF Get
<1>2. ASSUME NEW o \in Op, NEW k \in Key, NEW v \in Value, NEW n \in 0 .. MaxVersion, Put(o, k, v, n)
      PROVE  RsmInv'
  <2>1. [op |-> "Put", key |-> k, value |-> v, version |-> n] \in Args
    BY DEF Args
  <2> QED BY <1>2, <2>1, BeginInv DEF Put
<1>3. ASSUME UNCHANGED vars PROVE RsmInv'
  <2>1. UNCHANGED <<raftVars, rsmVars, history, args, attempt, net, pc, restarts>>
    BY <1>3 DEF vars, raftVars, rsmVars, clerkVars, ghostVars
  <2>2. UNCHANGED issued
    BY <2>1 DEF issued
  <2>3. CallTypes'
    BY <2>1, CallsKept DEF RsmInv, Types
  <2> QED BY <2>1, <2>2, <2>3, ClerkStep
<1> QED BY <1>1, <1>2, <1>3, ElectInv, StepDownInv, CommitStepInv, InstallInv, TakeCommandInv,
           RunCommandInv, ApplySnapshotInv, RestartInv, SubmitInv, GiveUpInv, TryNextInv,
           CallReturnsInv DEF Next

\* The inductive invariant holds in every reachable state.
THEOREM RsmInvariant == Spec => []RsmInv
BY InitInv, NextInv, PTL DEF Spec

\* Memory and snapshots are the outcome of exactly the commands they claim (reader,
\* applySnapshot, maybeSnapshot and MakeRSM in rsm.go).
THEOREM StateTheorem == Spec => []StateIsPrefix
<1>1. RsmInv => StateIsPrefix
  BY DEF RsmInv
<1> QED BY <1>1, RsmInvariant, PTL

\* No Submit waits for what cannot come (Submit and reader in rsm.go).
THEOREM WaiterTheorem == Spec => []WaiterNotLost
<1>1. RsmInv => WaiterNotLost
  BY DEF RsmInv
<1> QED BY <1>1, RsmInvariant, PTL

-----------------------------------------------------------------------------
\* The calls

\* The indexes whose commands have run somewhere, and the call that a command is of
Ran == 1 .. Len(history) - 1
opOf(i) == clog[i].handler[1]
Performed(i) == performs(history[i], args[opOf(i)])

\* What a clerk and the history say of a call
CallStates ==
  /\ resent \in [Op -> BOOLEAN] /\ executed \in [Op -> Nat]
  /\ reply \in [Op -> Reply \cup {Nil}]
  /\ result \in [Op -> Reply \cup {Nil}]
  /\ saw \in [Op -> Reply \cup {Nil}]
  /\ \A o \in Op :
       /\ pc[o] = "idle" => args[o] = Nil /\ executed[o] = 0 /\ saw[o] = Nil
       /\ pc[o] = "done" <=> result[o] # Nil
       /\ reply[o] # Nil => pc[o] = "waiting"
       /\ ~ resent[o] => attempt[o] <= 1

\* A key that is not there is empty, and no Put brings a version from the future
Versions ==
  LET now == Last(history)
  IN /\ \A k \in Key : now[k].version = 0 => now[k].value = Empty
     /\ \A o \in Op : pc[o] # "idle" /\ args[o].op = "Put" =>
          args[o].version <= now[args[o].key].version

\* A Put that has run finds a later version from then on
Passed(i) ==
  LET a == args[opOf(i)]
  IN a.op = "Put" => /\ a.version <= history[i][a.key].version
                     /\ a.version < Last(history)[a.key].version

\* The history of a call says what its command found
Recorded(i) ==
  LET o == opOf(i)
  IN /\ Performed(i) => executed[o] > 0
     /\ awaited(clog[i].handler) /\ ~ Performed(i) => saw[o] = answers(history[i], args[o])

\* A Put that has been performed, and a call that has returned, has a command that has run;
\* an answer is that of the attempt which the clerk waits for
Grounded(o) ==
  /\ executed[o] > 0 => \E i \in Ran : opOf(i) = o /\ Performed(i)
  /\ pc[o] = "done" => \E i \in Ran : opOf(i) = o
  /\ reply[o] # Nil /\ reply[o].err # "ErrWrongLeader" =>
       \E i \in Ran : /\ clog[i].handler = <<o, attempt[o]>>
                      /\ reply[o] = answers(history[i], args[o])

CallInv ==
  /\ CallStates /\ Versions
  /\ \A i \in Ran : Passed(i) /\ Recorded(i)
  /\ \A o \in Op : Grounded(o)

\* The state after the last command that has run.
LEMMA LastState ==
  ASSUME RsmInv
  PROVE  /\ history \in Seq(Map) /\ Len(history) \in Nat /\ 1 <= Len(history)
         /\ Last(history) = history[Len(history)] /\ Last(history) \in Map
         /\ \A k \in Key : Last(history)[k] \in Node
<1>1. history \in Seq(Map) /\ Len(history) \in Nat /\ 1 <= Len(history)
  BY DEF RsmInv, Types, RsmTypes, HistoryInv
<1>2. Last(history) = history[Len(history)] /\ Last(history) \in Map
  BY <1>1 DEF Last
<1> QED BY <1>1, <1>2 DEF Map

\* A committed command is of an attempt of a call that has begun.
LEMMA EntryFacts ==
  ASSUME RsmInv, NEW i \in 1 .. Len(clog)
  PROVE  /\ opOf(i) \in Op /\ pc[opOf(i)] # "idle" /\ args[opOf(i)] \in Args
         /\ clog[i].handler \in Handler
         /\ clog[i].handler = <<opOf(i), clog[i].handler[2]>>
         /\ clog[i].handler[2] \in Nat /\ 1 <= clog[i].handler[2]
         /\ clog[i].handler[2] <= attempt[opOf(i)]
<1>1. clog[i].handler \in issued
  BY Committed DEF RsmInv
<1> PICK o \in Op, n \in 1 .. MaxEvents : clog[i].handler = <<o, n>>
  BY <1>1 DEF issued, Handler
<1>2. opOf(i) = o /\ clog[i].handler[2] = n /\ clog[i].handler \in Handler
  BY <1>1 DEF opOf, issued
<1>3. n \in Nat /\ 1 <= n /\ n <= attempt[o] /\ attempt[o] # 0
  BY <1>1, <1>2, KVRaftAssumption DEF issued, RsmInv, Types, CallTypes
<1>4. pc[o] # "idle" /\ args[o] \in Args
  BY <1>3 DEF RsmInv, Types, CallTypes
<1> QED BY <1>2, <1>3, <1>4

\* An attempt has at most one committed entry.
LEMMA HandlerOnce ==
  ASSUME RsmInv, NEW i \in 1 .. Len(clog), NEW j \in 1 .. Len(clog),
         clog[i].handler = clog[j].handler
  PROVE  i = j
<1> DEFINE T == Len(termLog)
<1>1. termLog \in Seq(Seq(Entry)) /\ Len(clog) \in Nat
  BY DEF RsmInv, Types, RaftTypes
<1>2. termLog # <<>>
  BY <1>1 DEF RsmInv, CommitInv
<1>3. T \in 1 .. Len(termLog) /\ Len(termLog[T]) \in Nat
  BY <1>1, <1>2
<1>4. extends(termLog[T])
  BY <1>2 DEF RsmInv, CommitInv
<1>5. \A x, y \in 1 .. Len(termLog[T]) :
        termLog[T][x].handler = termLog[T][y].handler => x = y
  BY <1>3 DEF RsmInv, LogInv
<1> HIDE DEF T
<1>6. Len(clog) <= Len(termLog[T]) /\ \A x \in 1 .. Len(clog) : termLog[T][x] = clog[x]
  BY <1>4 DEF extends
<1>7. i \in 1 .. Len(termLog[T]) /\ j \in 1 .. Len(termLog[T])
  BY <1>1, <1>3, <1>6
<1>8. termLog[T][i] = clog[i] /\ termLog[T][j] = clog[j]
  BY <1>6
<1> QED BY <1>5, <1>7, <1>8

\* What has run is committed.
LEMMA RanFacts ==
  ASSUME RsmInv, NEW i \in Ran
  PROVE  i \in 1 .. Len(clog) /\ i \in 1 .. Len(history) /\ history[i] \in Map
<1>1. Len(clog) \in Nat /\ Len(history) <= Len(clog) + 1
  BY DEF RsmInv, HistoryInv, Types, RaftTypes
<1> QED BY <1>1, LastState DEF Ran

\* What the server answers to a Get, to a Put that it performs and to one that it refuses.
LEMMA AnswerFacts ==
  ASSUME NEW mm \in Map, NEW a \in Args
  PROVE  /\ answers(mm, a) \in Reply
         /\ a.op = "Get" => /\ ~ performs(mm, a)
                            /\ (mm[a.key].version = 0 => mm[a.key].value = Empty)
                                 => answers(mm, a) = Store!Contents(mm[a.key])
         /\ performs(mm, a) => answers(mm, a) = Store!Error("OK")
         /\ a.op = "Put" /\ ~ performs(mm, a) =>
              /\ mm[a.key].version # a.version
              /\ answers(mm, a) = Store!Refusal(mm[a.key])
<1> DEFINE n == mm[a.key]
<1>1. n \in Node /\ a.op \in {"Get", "Put"} /\ n.version \in Nat /\ n.value \in Value
      /\ Empty \in Value
  BY KVRaftAssumption DEF Map, Args, Node
<1>2. CASE a.op = "Get"
  <2>1. ~ performs(mm, a)
    BY <1>2 DEF performs
  <2>2. CASE n.version > 0
    <3>1. answers(mm, a) = [value |-> n.value, version |-> n.version, err |-> "OK"]
      BY <1>2, <2>1, <2>2 DEF answers
    <3> QED BY <1>1, <1>2, <2>1, <2>2, <3>1 DEF Reply, Store!Contents
  <2>3. CASE ~ (n.version > 0)
    <3>1. answers(mm, a) = Error("ErrNoKey") /\ n.version = 0
      BY <1>1, <1>2, <2>1, <2>3 DEF answers
    <3> QED BY <1>1, <1>2, <2>1, <3>1 DEF Reply, Error, Store!Contents
  <2> QED BY <2>2, <2>3
<1>3. CASE a.op = "Put" /\ performs(mm, a)
  <2>1. answers(mm, a) = Error("OK")
    BY <1>3 DEF answers
  <2> QED BY <1>1, <1>3, <2>1 DEF Reply, Error, Store!Error
<1>4. CASE a.op = "Put" /\ ~ performs(mm, a)
  <2>1. answers(mm, a) = Error(IF n.version = 0 THEN "ErrNoKey" ELSE "ErrVersion")
    BY <1>4 DEF answers
  <2>2. n.version # a.version
    BY <1>4 DEF performs
  <2> QED BY <1>1, <1>4, <2>1, <2>2 DEF Reply, Error, Store!Error, Store!Refusal
<1> QED BY <1>1, <1>2, <1>3, <1>4

\* An attempt that the clerk waits for is answered with what its command found, when that
\* has run, or with ErrWrongLeader.
answered(o) ==
  \/ reply'[o] = reply[o]
  \/ /\ pc[o] = "waiting"
     /\ \/ reply'[o] = Error("ErrWrongLeader")
        \/ \E i \in Ran : /\ clog[i].handler = <<o, attempt[o]>>
                          /\ reply'[o] = answers(history[i], args[o])

\* A step that changes no call but for such an answer, and runs no command for the first
\* time, is invisible to the store.
LEMMA QuietStep ==
  ASSUME RsmInv, CallInv,
         UNCHANGED <<history, pc, args, attempt, resent, result, executed, saw>>,
         \A i \in 1 .. Len(clog) : clog'[i] = clog[i],
         reply' \in [Op -> Reply \cup {Nil}],
         \A o \in Op : answered(o)
  PROVE  CallInv' /\ UNCHANGED Store!storeVars
<1> USE DEF CallInv
<1>1. Ran' = Ran /\ Last(history)' = Last(history)
  BY DEF Ran
<1>2. \A i \in Ran : clog'[i] = clog[i]
  BY RanFacts
<1>3. CallStates'
  <2>1. \A o \in Op : reply'[o] # Nil => pc'[o] = "waiting"
    BY DEF CallStates, answered
  <2> QED BY <2>1 DEF CallStates
<1>4. Versions'
  BY <1>1 DEF Versions
<1>5. ASSUME NEW i \in Ran PROVE opOf(i)' = opOf(i) /\ Performed(i)' = Performed(i)
  BY <1>2 DEF opOf, Performed
<1>6. ASSUME NEW i \in Ran PROVE Passed(i)' /\ Recorded(i)'
  BY <1>1, <1>2, <1>5 DEF Passed, Recorded, awaited
<1>7. ASSUME NEW o \in Op PROVE Grounded(o)'
  <2>1. Grounded(o)
    OBVIOUS
  <2>2. executed'[o] > 0 => \E i \in Ran : opOf(i)' = o /\ Performed(i)'
    BY <1>5, <2>1 DEF Grounded
  <2>3. pc'[o] = "done" => \E i \in Ran : opOf(i)' = o
    BY <1>5, <2>1 DEF Grounded
  <2>4. reply'[o] # Nil /\ reply'[o].err # "ErrWrongLeader" =>
          \E i \in Ran : /\ clog[i].handler = <<o, attempt[o]>>
                         /\ reply'[o] = answers(history[i], args[o])
    <3>1. CASE reply'[o] = reply[o]
      BY <2>1, <3>1 DEF Grounded
    <3>2. CASE reply'[o] = Error("ErrWrongLeader")
      BY <3>2 DEF Error
    <3> QED BY <3>1, <3>2 DEF answered
  <2> QED BY <1>1, <1>2, <2>2, <2>3, <2>4 DEF Grounded
<1>8. UNCHANGED Store!storeVars
  BY <1>1 DEF Store!storeVars, Store!callVars
<1> QED BY <1>1, <1>3, <1>4, <1>6, <1>7, <1>8

\* An answer ErrWrongLeader reaches the clerk or it does not.
LEMMA WrongLeader ==
  ASSUME CallStates, NEW h \in Handler, deliver(h, Error("ErrWrongLeader"))
  PROVE  reply' \in [Op -> Reply \cup {Nil}] /\ \A o \in Op : answered(o)
<1>1. Error("ErrWrongLeader") \in Reply /\ h[1] \in Op
  BY KVRaftAssumption DEF Error, Reply, Handler
<1>2. reply' = IF awaited(h) THEN [reply EXCEPT ![h[1]] = Error("ErrWrongLeader")] ELSE reply
  BY DEF deliver
<1>3. reply \in [Op -> Reply \cup {Nil}]
  BY DEF CallStates
<1>4. awaited(h) => pc[h[1]] = "waiting"
  BY DEF awaited
<1>5. CASE awaited(h)
  BY <1>1, <1>2, <1>3, <1>4, <1>5 DEF answered
<1>6. CASE ~ awaited(h)
  BY <1>2, <1>3, <1>6 DEF answered
<1> QED BY <1>5, <1>6

\* A step that leaves calls and history alone.
LEMMA CallsAlone ==
  ASSUME RsmInv, CallInv, UNCHANGED <<clerkVars, ghostVars>>,
         \A i \in 1 .. Len(clog) : clog'[i] = clog[i]
  PROVE  CallInv' /\ UNCHANGED Store!storeVars
<1>1. /\ UNCHANGED <<history, pc, args, attempt, resent, result, executed, saw, reply>>
      /\ reply' \in [Op -> Reply \cup {Nil}]
  BY DEF clerkVars, ghostVars, CallInv, CallStates
<1>2. \A o \in Op : answered(o)
  BY <1>1 DEF answered
<1> QED BY <1>1, <1>2, QuietStep

\* Raft, the reader's claim and a crash change nothing for the callers.
LEMMA RaftQuiet ==
  ASSUME RsmInv, CallInv, NEW s \in Server,
         \/ elect(s) \/ stepDown(s) \/ commit(s) \/ \E p \in Server : install(s, p)
         \/ takeCommand(s) \/ restart(s)
  PROVE  CallInv' /\ UNCHANGED Store!storeVars
<1>1. UNCHANGED <<clerkVars, ghostVars>>
  BY DEF elect, stepDown, commit, install, takeCommand, restart
<1>2. CASE ~ commit(s)
  <2>1. clog' = clog
    BY <1>2 DEF elect, stepDown, install, takeCommand, restart
  <2> QED BY <1>1, <2>1, CallsAlone
<1>3. CASE commit(s)
  <2> DEFINE T == Len(termLog)
             n == Len(clog)
  <2>1. T \in Nat /\ T # 0 /\ lead[s] = T /\ termLog \in Seq(Seq(Entry)) /\ n \in Nat
    BY <1>3 DEF commit, RsmInv, Types, RaftTypes
  <2>2. termLog # <<>>
    BY <2>1
  <2> PICK q \in Seq(Entry) : q = termLog[T]
    BY <2>1
  <2>3. PICK i \in n + 1 .. Len(q) : clog' = SubSeq(q, 1, i)
    BY <1>3, <2>1 DEF commit
  <2>4. n <= Len(q) /\ \A j \in 1 .. n : q[j] = clog[j]
    BY <2>2 DEF RsmInv, CommitInv, extends
  <2>5. \A j \in 1 .. n : clog'[j] = clog[j]
    <3> HIDE DEF n
    <3> SUFFICES ASSUME NEW j \in 1 .. n PROVE clog'[j] = clog[j]
      OBVIOUS
    <3>1. j \in 1 .. i /\ i \in 1 .. Len(q) /\ Len(q) \in Nat
      BY <2>1, <2>3
    <3> QED BY <2>3, <2>4, <3>1
  <2> QED BY <1>1, <2>5, CallsAlone
<1> QED BY <1>2, <1>3

\* A Submit that finds no leader, or gives up, answers ErrWrongLeader.
LEMMA SubmitQuiet ==
  ASSUME RsmInv, CallInv, NEW h \in Handler, (\E s \in Server : Submit(h, s)) \/ giveUp(h)
  PROVE  CallInv' /\ UNCHANGED Store!storeVars
<1>1. UNCHANGED <<clog, history, pc, args, attempt, resent, result, executed, saw>>
  BY DEF Submit, giveUp, raftVars, ghostVars
<1>2. reply' = reply \/ deliver(h, Error("ErrWrongLeader"))
  BY DEF Submit, giveUp
<1>3. reply' \in [Op -> Reply \cup {Nil}] /\ \A o \in Op : answered(o)
  <2>1. CASE reply' = reply
    BY <2>1 DEF CallInv, CallStates, answered
  <2> QED BY <1>2, <2>1, WrongLeader DEF CallInv
<1> QED BY <1>1, <1>3, QuietStep

\* A snapshot that wakes the waiters it covers answers ErrWrongLeader.
LEMMA SnapshotQuiet ==
  ASSUME RsmInv, CallInv, NEW s \in Server, applySnapshot(s)
  PROVE  CallInv' /\ UNCHANGED Store!storeVars
<1> DEFINE told(o) == \E h \in overtaken(s) : h[1] = o /\ awaited(h)
<1>1. UNCHANGED <<clog, history, pc, args, attempt, resent, result, executed, saw>>
  BY DEF applySnapshot, ghostVars
<1>2. \/ reply' = reply
      \/ reply' = [o \in Op |-> IF told(o) THEN Error("ErrWrongLeader") ELSE reply[o]]
  BY DEF applySnapshot
<1>3. Error("ErrWrongLeader") \in Reply
  BY KVRaftAssumption DEF Error, Reply
<1>4. \A o \in Op : told(o) => pc[o] = "waiting"
  BY DEF awaited
<1>5. reply \in [Op -> Reply \cup {Nil}]
  BY DEF CallInv, CallStates
<1> HIDE DEF told
<1>6. reply' \in [Op -> Reply \cup {Nil}] /\ \A o \in Op : answered(o)
  BY <1>2, <1>3, <1>4, <1>5 DEF answered
<1> QED BY <1>1, <1>6, QuietStep

\* Starting a call is an invocation of the store; no command of the call can have run.
LEMMA BeginCall ==
  ASSUME RsmInv, CallInv, NEW o \in Op, NEW a \in Args, begin(o, a),
         a.op = "Put" => a.version <= Last(history)[a.key].version
  PROVE  CallInv' /\ Store!StoreNext
<1> USE DEF CallInv
<1>1. /\ pc[o] = "idle" /\ pc' = [pc EXCEPT ![o] = "waiting"]
      /\ args' = [args EXCEPT ![o] = a] /\ send(o)
      /\ UNCHANGED <<clog, resent, reply, result, history, executed, saw>>
  BY DEF begin, raftVars, ghostVars
<1>2. /\ args[o] = Nil /\ executed[o] = 0 /\ saw[o] = Nil /\ result[o] = Nil
      /\ reply[o] = Nil /\ attempt[o] = 0 /\ o \in DOMAIN args
  BY <1>1 DEF CallStates, RsmInv, Types, CallTypes
<1>3. \A q \in Op : /\ pc'[q] = IF q = o THEN "waiting" ELSE pc[q]
                    /\ args'[q] = IF q = o THEN a ELSE args[q]
                    /\ attempt'[q] = IF q = o THEN 1 ELSE attempt[q]
  BY <1>1, <1>2 DEF send, RsmInv, Types, CallTypes
<1>4. Ran' = Ran /\ Last(history)' = Last(history)
  BY <1>1 DEF Ran
<1>5. ASSUME NEW i \in Ran
      PROVE  /\ opOf(i) \in Op /\ opOf(i) # o /\ clog[i].handler[1] = opOf(i)
             /\ opOf(i)' = opOf(i) /\ Performed(i)' = Performed(i)
             /\ args'[opOf(i)] = args[opOf(i)]
  <2>1. i \in 1 .. Len(clog)
    BY RanFacts
  <2>2. opOf(i) \in Op /\ opOf(i) # o
    BY <1>1, <2>1, EntryFacts
  <2> QED BY <1>1, <1>3, <2>2 DEF opOf, Performed
<1>6. CallStates'
  BY <1>1, <1>2, <1>3 DEF CallStates
<1>7. Versions'
  BY <1>3, <1>4 DEF Versions
<1>8. ASSUME NEW i \in Ran PROVE Passed(i)' /\ Recorded(i)'
  <2>1. Passed(i) /\ Recorded(i)
    OBVIOUS
  <2>2. Passed(i)'
    BY <1>1, <1>4, <1>5, <2>1 DEF Passed
  <2>3. awaited(clog[i].handler)' = awaited(clog[i].handler)
    BY <1>1, <1>3, <1>5 DEF awaited
  <2> QED BY <1>1, <1>5, <2>1, <2>2, <2>3 DEF Recorded
<1>9. ASSUME NEW q \in Op PROVE Grounded(q)'
  <2>1. Grounded(q)
    OBVIOUS
  <2>2. CASE q = o
    BY <1>1, <1>2, <1>3, <2>2 DEF Grounded
  <2>3. CASE q # o
    <3>1. UNCHANGED <<pc[q], attempt[q], args[q], executed, reply, history, clog>>
      BY <1>1, <1>3, <2>3
    <3> QED BY <1>4, <1>5, <2>1, <3>1 DEF Grounded
  <2> QED BY <2>2, <2>3
<1>10. [[q \in Op |-> executed[q] > 0] EXCEPT ![o] = FALSE] = [q \in Op |-> executed[q] > 0]
  <2>1. (executed[o] > 0) = FALSE
    BY <1>2
  <2> QED BY <2>1, Zenon
<1>11. [saw EXCEPT ![o] = Nil] = saw /\ [result EXCEPT ![o] = Nil] = result
  BY <1>2 DEF CallStates
<1>12. args'[o] \in Store!Args /\ args' = [args EXCEPT ![o] = args'[o]]
  BY <1>1, <1>3 DEF Args, Store!Args
<1>13. Store!Invoke(o, args'[o])
  BY <1>1, <1>2, <1>4, <1>10, <1>11, <1>12 DEF Store!Invoke, Store!Busy
<1>14. Store!StoreNext
  BY <1>12, <1>13 DEF Store!StoreNext, Store!Invoke
<1> QED BY <1>4, <1>6, <1>7, <1>8, <1>9, <1>14

\* After the next request is sent, the clerk waits for none of the earlier attempts.
LEMMA TryNextCall ==
  ASSUME RsmInv, CallInv, NEW o \in Op, tryNext(o)
  PROVE  CallInv' /\ UNCHANGED Store!storeVars
<1> USE DEF CallInv
<1>1. /\ pc[o] = "waiting" /\ send(o)
      /\ resent' = [resent EXCEPT ![o] = TRUE] /\ reply' = [reply EXCEPT ![o] = Nil]
      /\ UNCHANGED <<clog, pc, args, result, history, executed, saw>>
  BY DEF tryNext, resentAfter, raftVars, ghostVars
<1>2. /\ attempt[o] \in Nat
      /\ \A q \in Op : /\ attempt'[q] = IF q = o THEN attempt[o] + 1 ELSE attempt[q]
                       /\ reply'[q] = IF q = o THEN Nil ELSE reply[q]
                       /\ resent'[q] = IF q = o THEN TRUE ELSE resent[q]
  BY <1>1 DEF send, RsmInv, Types, CallTypes, CallStates
<1>3. Ran' = Ran /\ Last(history)' = Last(history)
  BY <1>1 DEF Ran
<1>4. ASSUME NEW i \in Ran
      PROVE  /\ opOf(i)' = opOf(i) /\ Performed(i)' = Performed(i)
             /\ awaited(clog[i].handler)' => awaited(clog[i].handler)
  <2>1. i \in 1 .. Len(clog)
    BY RanFacts
  <2>2. opOf(i) \in Op /\ clog[i].handler[1] = opOf(i) /\ clog[i].handler[2] \in Nat
        /\ clog[i].handler[2] <= attempt[opOf(i)]
    BY <2>1, EntryFacts DEF opOf
  <2>3. attempt'[opOf(i)] = clog[i].handler[2] => opOf(i) # o
    <3> SUFFICES ASSUME opOf(i) = o PROVE attempt'[o] # clog[i].handler[2]
      OBVIOUS
    <3>1. attempt'[o] = attempt[o] + 1
      BY <1>2
    <3>2. clog[i].handler[2] <= attempt[o]
      BY <2>2
    <3> QED BY <1>2, <2>2, <3>1, <3>2
  <2> QED BY <1>1, <1>2, <2>2, <2>3 DEF opOf, Performed, awaited
<1>5. CallStates'
  <2>1. resent' \in [Op -> BOOLEAN] /\ reply' \in [Op -> Reply \cup {Nil}]
    BY <1>1 DEF CallStates
  <2> QED BY <1>1, <1>2, <2>1 DEF CallStates
<1>6. Versions'
  BY <1>1, <1>3 DEF Versions
<1>7. ASSUME NEW i \in Ran PROVE Passed(i)' /\ Recorded(i)'
  <2>1. Passed(i) /\ Recorded(i)
    OBVIOUS
  <2> QED BY <1>1, <1>3, <1>4, <2>1 DEF Passed, Recorded
<1>8. ASSUME NEW q \in Op PROVE Grounded(q)'
  <2>1. Grounded(q)
    OBVIOUS
  <2>2. /\ executed'[q] > 0 => \E i \in Ran : opOf(i)' = q /\ Performed(i)'
        /\ pc'[q] = "done" => \E i \in Ran : opOf(i)' = q
    BY <1>1, <1>4, <2>1 DEF Grounded
  <2>3. CASE q = o
    BY <1>2, <1>3, <2>2, <2>3 DEF Grounded
  <2>4. CASE q # o
    <3>1. UNCHANGED <<attempt[q], args, reply[q], history, clog>>
      BY <1>1, <1>2, <2>4
    <3> QED BY <1>3, <2>1, <2>2, <3>1 DEF Grounded
  <2> QED BY <2>3, <2>4
<1>9. UNCHANGED Store!storeVars
  BY <1>1, <1>3 DEF Store!storeVars, Store!callVars
<1> QED BY <1>3, <1>5, <1>6, <1>7, <1>8, <1>9

\* What a call returns is one of the answers that the store allows: that of the attempt it
\* waited for, which has run, or ErrMaybe if an earlier one may have been performed.
LEMMA ReturnedAllowed ==
  ASSUME RsmInv, CallInv, NEW o \in Op, callReturns(o)
  PROVE  /\ returned(o) \in Store!Answers(o) /\ returned(o) \in Reply
         /\ \E i \in Ran : opOf(i) = o
<1> USE DEF CallInv
<1>1. pc[o] = "waiting" /\ reply[o] # Nil /\ reply[o].err # "ErrWrongLeader"
  BY DEF callReturns
<1>2. PICK i \in Ran : clog[i].handler = <<o, attempt[o]>>
                       /\ reply[o] = answers(history[i], args[o])
  BY <1>1 DEF Grounded
<1>3. i \in 1 .. Len(clog) /\ i \in 1 .. Len(history) /\ history[i] \in Map
  BY RanFacts
<1>4. opOf(i) = o /\ args[o] \in Args /\ awaited(clog[i].handler) /\ attempt[o] \in Nat
  BY <1>1, <1>2, <1>3, EntryFacts DEF opOf, awaited
<1>5. Passed(i) /\ Recorded(i)
  OBVIOUS
<1> DEFINE a == args[o]
           n == history[i][a.key]
<1>6. a.op \in {"Get", "Put"} /\ a.key \in Key /\ a.version \in Nat /\ n \in Node
      /\ n.version \in Nat
  BY <1>3, <1>4 DEF Args, Map, Node
<1>7. saw[o] \in Reply \cup {Nil} /\ executed[o] \in Nat /\ resent[o] \in BOOLEAN
      /\ reply[o] \in Reply
  BY <1>1 DEF CallStates
<1>8. ~ performs(history[i], a) => saw[o] = reply[o]
  BY <1>2, <1>4, <1>5 DEF Recorded, Performed
<1>9. returned(o) \in Store!Answers(o) /\ returned(o) \in Reply
  <2>1. CASE a.op = "Get"
    <3>1. ~ performs(history[i], a)
      BY <2>1 DEF performs
    <3> QED BY <1>1, <1>7, <1>8, <2>1, <3>1 DEF returned, Store!Answers
  <2>2. CASE a.op = "Put" /\ performs(history[i], a)
    <3>1. reply[o] = Store!Error("OK")
      BY <1>2, <1>3, <1>4, <2>2, AnswerFacts
    <3>2. [q \in Op |-> executed[q] > 0][o]
      <4>1. executed[o] > 0
        BY <1>4, <1>5, <2>2 DEF Recorded, Performed
      <4> QED BY <4>1, Zenon
    <3>3. returned(o) = Store!Error("OK")
      BY <3>1 DEF returned, Store!Error
    <3> QED BY <1>7, <2>2, <3>1, <3>2, <3>3 DEF Store!Answers
  <2>3. CASE a.op = "Put" /\ ~ performs(history[i], a)
    <3>1. n.version # a.version /\ reply[o] = Store!Refusal(n)
      BY <1>2, <1>3, <1>4, <2>3, AnswerFacts
    <3>2. n.version # 0
      BY <1>4, <1>5, <1>6, <2>3, <3>1 DEF Passed
    <3>3. reply[o] = Store!Error("ErrVersion") /\ saw[o] = reply[o]
      BY <1>8, <2>3, <3>1, <3>2 DEF Store!Refusal
    <3>4. CASE resent[o]
      <4>1. returned(o) = Store!Error("ErrMaybe")
        BY <2>3, <3>3, <3>4 DEF returned, Error, Store!Error
      <4>2. Store!Error("ErrMaybe") \in Reply
        BY KVRaftAssumption DEF Store!Error, Reply
      <4> QED BY <2>3, <3>3, <4>1, <4>2 DEF Store!Answers
    <3>5. CASE ~ resent[o]
      <4>1. ~ (executed[o] > 0)
        <5> SUFFICES ASSUME executed[o] > 0 PROVE FALSE
          OBVIOUS
        <5>1. PICK j \in Ran : opOf(j) = o /\ Performed(j)
          BY DEF Grounded
        <5>2. j \in 1 .. Len(clog)
          BY RanFacts
        <5>3. clog[j].handler = <<o, clog[j].handler[2]>> /\ clog[j].handler[2] \in Nat
              /\ 1 <= clog[j].handler[2] /\ clog[j].handler[2] <= attempt[o]
          BY <5>1, <5>2, EntryFacts
        <5>4. clog[i].handler[2] = attempt[o] /\ 1 <= attempt[o] /\ attempt[o] <= 1
          BY <1>2, <1>3, <1>4, <3>5, EntryFacts DEF CallStates
        <5>5. clog[j].handler[2] = attempt[o]
          BY <1>4, <5>3, <5>4
        <5>6. i = j
          BY <1>2, <1>3, <5>2, <5>3, <5>5, HandlerOnce
        <5> QED BY <1>4, <2>3, <5>1, <5>6 DEF Performed
      <4>2. ~ [q \in Op |-> executed[q] > 0][o]
        BY <4>1, Zenon
      <4>3. returned(o) = reply[o]
        BY <3>5 DEF returned
      <4>4. saw[o] # Nil
        BY <1>1, <3>3
      <4> QED BY <1>7, <2>3, <3>3, <4>2, <4>3, <4>4 DEF Store!Answers
    <3> QED BY <3>4, <3>5
  <2> QED BY <1>6, <2>1, <2>2, <2>3
<1> QED BY <1>4, <1>9

\* A call that returns.
LEMMA ReturnCall ==
  ASSUME RsmInv, CallInv, NEW o \in Op, callReturns(o)
  PROVE  CallInv' /\ Store!StoreNext
<1> USE DEF CallInv
<1>1. /\ pc[o] = "waiting" /\ pc' = [pc EXCEPT ![o] = "done"]
      /\ result' = [result EXCEPT ![o] = returned(o)] /\ reply' = [reply EXCEPT ![o] = Nil]
      /\ UNCHANGED <<clog, args, resent, attempt, history, executed, saw>>
  BY DEF callReturns, raftVars, ghostVars
<1>2. /\ returned(o) \in Store!Answers(o) /\ returned(o) \in Reply
      /\ \E i \in Ran : opOf(i) = o
  BY ReturnedAllowed
<1>3. returned(o) # Nil
  BY <1>2, NilAssumption
<1>4. Ran' = Ran /\ Last(history)' = Last(history)
  BY <1>1 DEF Ran
<1>5. \A q \in Op : /\ pc'[q] = IF q = o THEN "done" ELSE pc[q]
                    /\ result'[q] = IF q = o THEN returned(o) ELSE result[q]
                    /\ reply'[q] = IF q = o THEN Nil ELSE reply[q]
  BY <1>1 DEF RsmInv, Types, CallTypes, CallStates
<1>6. ASSUME NEW i \in Ran
      PROVE  /\ opOf(i)' = opOf(i) /\ Performed(i)' = Performed(i)
             /\ awaited(clog[i].handler)' => awaited(clog[i].handler)
  <2>1. i \in 1 .. Len(clog)
    BY RanFacts
  <2>2. opOf(i) \in Op /\ clog[i].handler[1] = opOf(i)
    BY <2>1, EntryFacts DEF opOf
  <2> QED BY <1>1, <1>5, <2>2 DEF opOf, Performed, awaited
<1>7. CallStates'
  <2>1. reply' \in [Op -> Reply \cup {Nil}] /\ result' \in [Op -> Reply \cup {Nil}]
    BY <1>1, <1>2 DEF CallStates
  <2>2. \A q \in Op : /\ pc'[q] = "idle" => pc[q] = "idle"
                      /\ pc'[q] = "done" <=> result'[q] # Nil
                      /\ reply'[q] # Nil => pc'[q] = "waiting"
    BY <1>1, <1>3, <1>5 DEF CallStates
  <2> QED BY <1>1, <2>1, <2>2 DEF CallStates
<1>8. Versions'
  <2>1. \A q \in Op : pc'[q] # "idle" => pc[q] # "idle"
    BY <1>1, <1>5
  <2> QED BY <1>1, <1>4, <2>1 DEF Versions
<1>9. ASSUME NEW i \in Ran PROVE Passed(i)' /\ Recorded(i)'
  <2>1. Passed(i) /\ Recorded(i)
    OBVIOUS
  <2> QED BY <1>1, <1>4, <1>6, <2>1 DEF Passed, Recorded
<1>10. ASSUME NEW q \in Op PROVE Grounded(q)'
  <2>1. Grounded(q)
    OBVIOUS
  <2>2. executed'[q] > 0 => \E i \in Ran : opOf(i)' = q /\ Performed(i)'
    BY <1>1, <1>6, <2>1 DEF Grounded
  <2>3. pc'[q] = "done" => \E i \in Ran : opOf(i)' = q
    BY <1>2, <1>5, <1>6, <2>1 DEF Grounded
  <2>4. reply'[q] # Nil => reply'[q] = reply[q]
    BY <1>5
  <2> QED BY <1>1, <1>4, <2>1, <2>2, <2>3, <2>4 DEF Grounded
<1>11. args[o] # Nil /\ result[o] = Nil
  BY <1>1, NilAssumption DEF CallStates, RsmInv, Types, CallTypes
<1>12. Store!Respond(o)
  BY <1>1, <1>2, <1>4, <1>11 DEF Store!Respond, Store!Busy
<1>13. Store!StoreNext
  BY <1>12 DEF Store!StoreNext
<1> QED BY <1>4, <1>7, <1>8, <1>9, <1>10, <1>13

\* The command that the reader has: it finds the outcome of those before it.
LEMMA ReaderFacts ==
  ASSUME RsmInv, NEW s \in Server, reader[s] # Nil
  PROVE  LET i == reader[s].index
         IN /\ i \in Nat /\ 1 <= i /\ i \in 1 .. Len(clog) /\ i <= Len(history)
            /\ i # Len(history) => i \in Ran
            /\ m[s] = history[i] /\ m[s] \in Map
            /\ reader[s].waiter \in Waiter
<1> DEFINE i == reader[s].index
<1>1. reader[s] \in Reader /\ i \in Nat /\ 1 <= i /\ reader[s].waiter \in Waiter /\ i = handed[s]
      /\ m[s] \in Map
  BY DEF RsmInv, Types, RsmTypes, Reader, Index, ReaderInv
<1>2. i <= Len(clog) /\ Len(clog) \in Nat
  BY <1>1 DEF RsmInv, ReaderInv, Types, RaftTypes
<1>3. ranUpTo(s) = i - 1
  BY DEF ranUpTo
<1>4. i - 1 < Len(history) /\ m[s] = history[i]
  BY <1>1, <1>3 DEF RsmInv, ReaderInv, StateIsPrefix
<1>5. Len(history) \in Nat
  BY LastState
<1> HIDE DEF i
<1>6. i <= Len(history) /\ (i # Len(history) => i \in Ran) /\ i \in 1 .. Len(clog)
  BY <1>1, <1>2, <1>4, <1>5 DEF Ran
<1> QED BY <1>1, <1>4, <1>6 DEF i

\* The reader answers the attempt whose command it has run, provided that the server and its
\* number name that attempt.
LEMMA RunAnswers ==
  ASSUME RsmInv, CallInv, RequestNamed, NEW s \in Server, runCommand(s)
  PROVE  /\ reply' \in [Op -> Reply \cup {Nil}]
         /\ \A o \in Op :
              \/ reply'[o] = reply[o]
              \/ /\ pc[o] = "waiting"
                 /\ \/ reply'[o] = Error("ErrWrongLeader")
                    \/ /\ clog[reader[s].index].handler = <<o, attempt[o]>>
                       /\ reply'[o] = answers(history[reader[s].index], args[o])
<1> DEFINE i == reader[s].index
           e == clog[i]
           o == e.handler[1]
           rep == answers(m[s], args[o])
           w == reader[s].waiter
           r == IF own(s, e, w) THEN rep ELSE Error("ErrWrongLeader")
<1>1. reader[s] # Nil
  BY DEF runCommand
<1>2. \/ w # Nil /\ submit[w] # Nil /\ deliver(w, r)
      \/ reply' = reply
  BY DEF runCommand
<1>3. i \in 1 .. Len(clog) /\ m[s] = history[i] /\ m[s] \in Map /\ w \in Waiter
  BY <1>1, ReaderFacts
<1>4. o \in Op /\ args[o] \in Args /\ e.handler = <<o, e.handler[2]>>
  BY <1>3, EntryFacts DEF opOf
<1>5. rep \in Reply /\ Error("ErrWrongLeader") \in Reply
  BY <1>3, <1>4, AnswerFacts, KVRaftAssumption DEF Error, Reply
<1>6. reply \in [Op -> Reply \cup {Nil}]
  BY DEF CallInv, CallStates
<1>7. CASE reply' = reply
  BY <1>6, <1>7
<1>8. CASE w # Nil /\ submit[w] # Nil /\ deliver(w, r)
  <2>1. w \in Handler /\ w[1] \in Op /\ w = <<w[1], w[2]>>
    BY <1>3, <1>8 DEF Waiter, Handler
  <2>2. own(s, e, w) => e.handler = w
    BY <1>1, <1>8 DEF RequestNamed
  <2>3. reply' = IF awaited(w) THEN [reply EXCEPT ![w[1]] = r] ELSE reply
    BY <1>8 DEF deliver
  <2>4. r \in Reply
    BY <1>5
  <2>5. awaited(w) => pc[w[1]] = "waiting" /\ w = <<w[1], attempt[w[1]]>>
    BY <2>1 DEF awaited
  <2>6. r = Error("ErrWrongLeader") \/ (e.handler = w /\ r = answers(history[i], args[w[1]]))
    BY <1>3, <2>2
  <2> HIDE DEF r, e, o, rep, w
  <2>7. CASE awaited(w)
    <3>1. reply' \in [Op -> Reply \cup {Nil}]
      BY <1>6, <2>1, <2>3, <2>4, <2>7
    <3>2. reply'[w[1]] = r /\ \A q \in Op : q # w[1] => reply'[q] = reply[q]
      BY <1>6, <2>1, <2>3, <2>7
    <3>3. clog[i].handler = e.handler
      BY DEF e
    <3> QED BY <2>5, <2>6, <2>7, <3>1, <3>2, <3>3
  <2>8. CASE ~ awaited(w)
    BY <1>6, <2>3, <2>8
  <2> QED BY <2>7, <2>8
<1> QED BY <1>2, <1>7, <1>8

\* Where a command has run before, it only answers.
LEMMA RunAgain ==
  ASSUME RsmInv, CallInv, RequestNamed, NEW s \in Server, runCommand(s),
         reader[s].index # Len(history)
  PROVE  CallInv' /\ UNCHANGED Store!storeVars
<1>1. UNCHANGED <<clog, history, pc, args, attempt, resent, result, executed, saw>>
  BY DEF runCommand
<1>2. reader[s].index \in Ran
  BY ReaderFacts DEF runCommand
<1>3. reply' \in [Op -> Reply \cup {Nil}] /\ \A o \in Op : answered(o)
  BY <1>2, RunAnswers DEF answered
<1> QED BY <1>1, <1>3, QuietStep

\* A command that runs for the first time is the moment at which its call takes effect: the
\* Put is performed, or the call sees what the key contains, or nobody looks any more.
LEMMA RunFirst ==
  ASSUME RsmInv, CallInv, RequestNamed, NEW s \in Server, runCommand(s),
         reader[s].index = Len(history)
  PROVE  CallInv' /\ [Store!StoreNext]_(Store!storeVars)
<1> USE DEF CallInv
<1> DEFINE n == Len(history)
           now == Last(history)
           h == clog[n].handler
           o == h[1]
           a == args[o]
           rep == answers(now, a)
           mm == DoOp(now, a)
<1>1. n \in Nat /\ 1 <= n /\ n \in 1 .. Len(clog) /\ now = history[n] /\ m[s] = now /\ now \in Map
      /\ history \in Seq(Map) /\ \A k \in Key : now[k] \in Node
  BY ReaderFacts, LastState DEF runCommand
<1>2. /\ o \in Op /\ pc[o] # "idle" /\ a \in Args /\ h = <<o, h[2]>> /\ h[2] <= attempt[o]
      /\ opOf(n) = o /\ h[2] \in Nat
  BY <1>1, EntryFacts DEF opOf
<1>3. a.op \in {"Get", "Put"} /\ a.key \in Key /\ a.version \in Nat /\ a.value \in Value
      /\ a # Nil /\ now[a.key] \in Node
  BY <1>1, <1>2, NilAssumption DEF Args
<1>4. mm \in Map
  BY <1>1, <1>2, DoOpType
<1>5. /\ m' = [m EXCEPT ![s] = mm]
      /\ history' = Append(history, m'[s])
      /\ executed' = IF performs(now, a) THEN [executed EXCEPT ![o] = @ + 1] ELSE executed
      /\ saw' = IF awaited(h) /\ ~ performs(now, a) THEN [saw EXCEPT ![o] = rep] ELSE saw
      /\ UNCHANGED <<clog, pc, args, resent, attempt, result>>
  BY <1>1 DEF runCommand
<1>6. /\ history' = Append(history, mm) /\ Len(history') = n + 1
      /\ \A i \in 1 .. n : history'[i] = history[i]
      /\ Last(history') = mm
  <2>1. m'[s] = mm
    BY <1>5 DEF RsmInv, Types, RsmTypes
  <2>2. history' = Append(history, mm)
    BY <1>5, <2>1
  <2> HIDE DEF mm, now
  <2>3. history' \in Seq(Map) /\ Len(history') = n + 1 /\ history'[n + 1] = mm
        /\ \A i \in 1 .. n : history'[i] = history[i]
    BY <1>1, <1>4, <2>2
  <2> QED BY <2>2, <2>3 DEF Last
<1>7. Ran' = 1 .. n /\ Ran = 1 .. n - 1
  BY <1>1, <1>6 DEF Ran
<1>8. \A i \in 1 .. n : i \in Ran \/ i = n
  BY <1>1, <1>7
<1>9. /\ \A q \in Op : executed'[q] = IF q = o /\ performs(now, a) THEN executed[q] + 1 ELSE executed[q]
      /\ executed' \in [Op -> Nat]
      /\ \A q \in Op : executed[q] \in Nat
  BY <1>2, <1>5 DEF CallStates
<1>10. rep \in Reply
  BY <1>1, <1>2, AnswerFacts
<1>11. /\ \A q \in Op : saw'[q] = IF q = o /\ awaited(h) /\ ~ performs(now, a) THEN rep ELSE saw[q]
       /\ saw' \in [Op -> Reply \cup {Nil}]
  <2> HIDE DEF rep, now, a, h, o
  <2> QED BY <1>2, <1>5, <1>10 DEF CallStates
<1>12. /\ performs(now, a) => mm[a.key].version = now[a.key].version + 1
       /\ \A k \in Key : mm[k] = now[k] \/ (performs(now, a) /\ k = a.key)
  <2>1. CASE performs(now, a)
    <3>1. mm = [now EXCEPT ![a.key] = [value |-> a.value, version |-> now[a.key].version + 1]]
      BY <2>1 DEF DoOp
    <3> HIDE DEF mm, now, a
    <3> QED BY <1>1, <1>3, <2>1, <3>1 DEF Map
  <2>2. CASE ~ performs(now, a)
    BY <2>2 DEF DoOp
  <2> QED BY <2>1, <2>2
<1>13. \A k \in Key : now[k].version \in Nat /\ mm[k].version \in Nat /\ now[k].version <= mm[k].version
  <2> HIDE DEF mm, now, a
  <2> SUFFICES ASSUME NEW k \in Key
               PROVE  now[k].version \in Nat /\ mm[k].version \in Nat
                      /\ now[k].version <= mm[k].version
    OBVIOUS
  <2>1. now[k].version \in Nat
    BY <1>1 DEF Node
  <2>2. mm[k].version = now[k].version + 1 \/ mm[k].version = now[k].version
    BY <1>12, <2>1
  <2> QED BY <2>1, <2>2
<1>14. /\ reply' \in [Op -> Reply \cup {Nil}]
       /\ \A q \in Op :
            \/ reply'[q] = reply[q]
            \/ /\ pc[q] = "waiting"
               /\ \/ reply'[q] = Error("ErrWrongLeader")
                  \/ /\ h = <<q, attempt[q]>>
                     /\ reply'[q] = answers(history[n], args[q])
  BY RunAnswers
\* The invariant
<1>15. CallStates'
  <2>1. \A q \in Op : reply'[q] # Nil => pc[q] = "waiting"
    BY <1>14 DEF CallStates
  <2>2. \A q \in Op : pc[q] = "idle" => executed'[q] = 0 /\ saw'[q] = Nil
    BY <1>2, <1>9, <1>11 DEF CallStates
  <2> QED BY <1>5, <1>9, <1>11, <1>14, <2>1, <2>2 DEF CallStates
<1>16. Versions'
  <2>1. ASSUME NEW k \in Key, mm[k].version = 0 PROVE mm[k].value = Empty
    <3>1. mm[k] = now[k]
      <4> HIDE DEF mm, now, a
      <4>1. now[k].version \in Nat
        BY <1>13
      <4>2. ~ (performs(now, a) /\ k = a.key)
        <5> SUFFICES ASSUME performs(now, a) /\ k = a.key PROVE FALSE
          OBVIOUS
        <5>1. mm[k].version = now[k].version + 1
          BY <1>12, <4>1
        <5> QED BY <2>1, <4>1, <5>1
      <4> QED BY <1>12, <4>2
    <3> QED BY <2>1, <3>1 DEF Versions
  <2>2. ASSUME NEW q \in Op, pc[q] # "idle", args[q].op = "Put"
        PROVE  args[q].version <= mm[args[q].key].version
    <3>1. args[q].key \in Key /\ args[q].version \in Nat
      BY <2>2 DEF RsmInv, Types, CallTypes, Args
    <3>2. args[q].version <= now[args[q].key].version
      BY <2>2 DEF Versions
    <3> QED BY <1>13, <3>1, <3>2
  <2> HIDE DEF mm, now
  <2> QED BY <1>5, <1>6, <2>1, <2>2 DEF Versions
<1>17. \A i \in 1 .. n : opOf(i)' = opOf(i) /\ Performed(i)' = Performed(i)
  BY <1>5, <1>6 DEF opOf, Performed
<1>18. ASSUME NEW i \in 1 .. n PROVE Passed(i)'
  <2>1. CASE i \in Ran
    <3>1. opOf(i) \in Op /\ args[opOf(i)] \in Args
      BY <2>1, RanFacts, EntryFacts
    <3>2. args[opOf(i)].key \in Key /\ args[opOf(i)].version \in Nat
      BY <3>1 DEF Args
    <3>3. Passed(i)
      BY <2>1
    <3> HIDE DEF mm, now
    <3>4. args[opOf(i)].op = "Put" =>
            args[opOf(i)].version < mm[args[opOf(i)].key].version
      BY <1>13, <3>2, <3>3 DEF Passed, now
    <3> QED BY <1>5, <1>6, <1>17, <3>3, <3>4 DEF Passed
  <2>2. CASE i = n
    <3>1. a.op = "Put" => a.version <= now[a.key].version
      BY <1>2 DEF Versions
    <3>2. a.op = "Put" => a.version < mm[a.key].version
      <4>0. now[a.key].version \in Nat
        BY <1>3, <1>13
      <4> HIDE DEF mm, now, a
      <4>1. CASE performs(now, a)
        <5>1. mm[a.key].version = now[a.key].version + 1 /\ a.version = now[a.key].version
          BY <1>3, <1>12, <4>0, <4>1 DEF performs
        <5> QED BY <4>0, <5>1
      <4>2. CASE ~ performs(now, a)
        <5>1. mm[a.key] = now[a.key] /\ (a.op = "Put" => a.version # now[a.key].version)
          BY <1>3, <1>12, <4>2 DEF performs
        <5> QED BY <1>3, <3>1, <4>0, <5>1
      <4> QED BY <4>1, <4>2
    <3> HIDE DEF mm, now
    <3> QED BY <1>1, <1>2, <1>5, <1>6, <1>17, <2>2, <3>1, <3>2 DEF Passed
  <2> QED BY <1>8, <2>1, <2>2
<1>19. ASSUME NEW i \in 1 .. n PROVE Recorded(i)'
  <2>1. CASE i \in Ran
    <3>1. i \in 1 .. Len(clog) /\ opOf(i) \in Op /\ clog[i].handler = <<opOf(i), clog[i].handler[2]>>
      BY <2>1, RanFacts, EntryFacts
    <3>2. Recorded(i)
      BY <2>1
    <3>3. executed[opOf(i)] > 0 => executed'[opOf(i)] > 0
      BY <1>9, <3>1
    <3>4. awaited(clog[i].handler) => saw'[opOf(i)] = saw[opOf(i)]
      <4> SUFFICES ASSUME awaited(clog[i].handler), opOf(i) = o, awaited(h) PROVE FALSE
        BY <1>11, <3>1
      <4>1. clog[i].handler = h
        BY <1>2, <3>1 DEF awaited, opOf
      <4>2. i = n
        BY <1>1, <3>1, <4>1, HandlerOnce
      <4> QED BY <1>1, <1>7, <2>1, <4>2
    <3>5. awaited(clog[i].handler)' = awaited(clog[i].handler)
      BY <1>5 DEF awaited
    <3> QED BY <1>5, <1>6, <1>17, <3>2, <3>3, <3>4, <3>5 DEF Recorded
  <2>2. CASE i = n
    <3>1. Performed(n) = performs(now, a)
      BY <1>1, <1>2 DEF Performed
    <3>2. performs(now, a) => executed'[o] > 0
      BY <1>2, <1>9
    <3>3. awaited(h) /\ ~ performs(now, a) => saw'[o] = answers(history[n], a)
      BY <1>1, <1>2, <1>11
    <3>4. awaited(clog[n].handler) = awaited(h)
      OBVIOUS
    <3>5. UNCHANGED awaited(clog[i].handler) /\ history'[n] = history[n]
      <4> HIDE DEF mm, now, n
      <4> QED BY <1>1, <1>5, <1>6 DEF awaited
    <3> HIDE DEF now, mm, rep
    <3> QED BY <1>2, <1>5, <1>17, <2>2, <3>1, <3>2, <3>3, <3>4, <3>5 DEF Recorded
  <2> QED BY <1>8, <2>1, <2>2
<1>20. ASSUME NEW q \in Op PROVE Grounded(q)'
  <2>1. Grounded(q)
    OBVIOUS
  <2>2. \A i \in Ran : i \in 1 .. n
    BY <1>1, <1>7
  <2>3. ASSUME executed'[q] > 0 PROVE \E i \in 1 .. n : opOf(i) = q /\ Performed(i)
    <3>1. CASE q = o /\ performs(now, a)
      <4>1. opOf(n) = q /\ Performed(n) /\ n \in 1 .. n
        BY <1>1, <1>2, <3>1 DEF Performed
      <4> QED BY <4>1
    <3>2. CASE ~ (q = o /\ performs(now, a))
      BY <1>9, <2>1, <2>2, <2>3, <3>2 DEF Grounded
    <3> QED BY <3>1, <3>2
  <2>4. pc[q] = "done" => \E i \in 1 .. n : opOf(i) = q
    BY <2>1, <2>2 DEF Grounded
  <2>5. ASSUME reply'[q] # Nil, reply'[q].err # "ErrWrongLeader"
        PROVE  \E i \in 1 .. n : /\ clog[i].handler = <<q, attempt[q]>>
                                 /\ reply'[q] = answers(history[i], args[q])
    <3>1. CASE reply'[q] = reply[q]
      BY <2>1, <2>2, <2>5, <3>1 DEF Grounded
    <3>2. CASE reply'[q] = Error("ErrWrongLeader")
      BY <2>5, <3>2 DEF Error
    <3>3. CASE h = <<q, attempt[q]>> /\ reply'[q] = answers(history[n], args[q])
      <4>1. n \in 1 .. n /\ clog[n].handler = h
        BY <1>1
      <4> QED BY <3>3, <4>1
    <3> QED BY <1>14, <3>1, <3>2, <3>3
  <2> HIDE DEF h, now, a, o
  <2> QED BY <1>5, <1>6, <1>7, <1>17, <2>3, <2>4, <2>5 DEF Grounded
<1>21. CallInv'
  BY <1>7, <1>15, <1>16, <1>18, <1>19, <1>20
\* The step of the store
<1>22. Last(history)' = mm /\ UNCHANGED <<args, result>>
  BY <1>5, <1>6
<1>23. CASE performs(now, a)
  <2>1. a.op = "Put" /\ now[a.key].version = a.version
    BY <1>23 DEF performs
  <2>2. \A i \in Ran : opOf(i) # o
    BY <1>3, <2>1 DEF Passed
  <2>3. pc[o] # "done" /\ ~ (executed[o] > 0)
    BY <1>2, <2>2 DEF Grounded
  <2>4. Store!Busy(o)
    BY <1>2, <1>3, <2>3 DEF Store!Busy, CallStates
  <2>5. [q \in Op |-> executed'[q] > 0] = [[q \in Op |-> executed[q] > 0] EXCEPT ![o] = TRUE]
    <3>1. executed'[o] > 0 /\ \A q \in Op \ {o} : executed'[q] = executed[q]
      BY <1>2, <1>9, <1>23
    <3> QED BY <1>2, <3>1, Zenon
  <2>6. mm = [now EXCEPT ![a.key] = [value |-> a.value, version |-> a.version + 1]]
    BY <1>1, <1>3, <1>23, <2>1 DEF DoOp, Map
  <2>7. saw' = saw
    BY <1>5, <1>23
  <2>8. ~ [q \in Op |-> executed[q] > 0][o]
    BY <1>2, <2>3, Zenon
  <2>8b. o \in Op
    BY <1>2
  <2> HIDE DEF mm
  <2>9. Store!Apply(o)
    BY <1>22, <2>1, <2>4, <2>5, <2>6, <2>7, <2>8 DEF Store!Apply
  <2>10. Store!StoreNext
    <3> HIDE DEF o, h, a, now
    <3> QED BY <2>8b, <2>9 DEF Store!StoreNext, Store!Apply
  <2> QED BY <1>21, <2>10
<1>24. CASE ~ performs(now, a) /\ awaited(h)
  <2>1. mm = now /\ executed' = executed /\ saw' = [saw EXCEPT ![o] = rep]
    BY <1>5, <1>24 DEF DoOp
  <2>2. Store!Busy(o)
    BY <1>2, <1>3, <1>24 DEF Store!Busy, CallStates, awaited
  <2>3. a.op = "Get" => rep = Store!Contents(now[a.key])
    BY <1>1, <1>2, <1>3, AnswerFacts DEF Versions
  <2>4. a.op = "Put" => now[a.key].version # a.version /\ rep = Store!Refusal(now[a.key])
    BY <1>1, <1>2, <1>24, AnswerFacts
  <2> HIDE DEF mm, rep
  <2>5. Store!Observe(o)
    BY <1>3, <1>22, <2>1, <2>2, <2>3, <2>4 DEF Store!Observe
  <2>6. Store!StoreNext
    BY <1>2, <2>5 DEF Store!StoreNext
  <2> QED BY <1>21, <2>6
<1>25. CASE ~ performs(now, a) /\ ~ awaited(h)
  <2>1. mm = now /\ UNCHANGED <<executed, saw>>
    BY <1>5, <1>25 DEF DoOp
  <2> QED BY <1>21, <1>22, <2>1 DEF Store!storeVars, Store!callVars
<1> QED BY <1>23, <1>24, <1>25

-----------------------------------------------------------------------------
\* The names of the requests

\* The entry e is in the log of some leader
inLogs(e) == \E t \in 1 .. Len(termLog) : \E i \in 1 .. Len(termLog[t]) : termLog[t][i] = e

\* Server s has the Submit of h registered, or its reader is about to answer it
claims(s, h) ==
  \/ \E i \in Index : pending[s][i] = h
  \/ reader[s] # Nil /\ reader[s].waiter = h

\* A waiter is that of an attempt which reached this very server
Claims ==
  \A s \in Server, h \in Handler : claims(s, h) =>
    h \in issued \ net /\ (submit[h] # Nil => submit[h].srv = s)

\* No server has given a number twice: a number belongs to one entry and to its Submit
Numbers ==
  /\ \A e \in Entry : inLogs(e) =>
       /\ e.id <= reqNum[e.me]
       /\ \A h \in Handler :
            submit[h] # Nil /\ submit[h].srv = e.me /\ submit[h].id = e.id => e.handler = h
  /\ \A h \in Handler : submit[h] # Nil => submit[h].id <= reqNum[submit[h].srv]

NameInv == Claims /\ (restarts = 0 => Numbers)

\* A step that submits nothing keeps the names.
LEMMA NamesKept ==
  ASSUME RsmInv, NameInv, restarts' = 0 => restarts = 0,
         \A e \in Entry : inLogs(e)' => inLogs(e),
         \A s \in Server, h \in Handler : claims(s, h)' => claims(s, h),
         \A h \in Handler : submit'[h] # Nil => submit'[h] = submit[h],
         issued \ net \subseteq (issued \ net)',
         restarts' = 0 => \A s \in Server : reqNum[s] <= reqNum'[s] /\ reqNum'[s] \in Nat
  PROVE  NameInv'
<1>1. Claims'
  BY DEF NameInv, Claims
<1>2. ASSUME restarts' = 0 PROVE Numbers'
  <2>1. Numbers
    BY <1>2 DEF NameInv
  <2>2. reqNum \in [Server -> Nat] /\ submit \in [Handler -> Waiting \cup {Nil}]
    BY DEF RsmInv, Types, RsmTypes
  <2>3. ASSUME NEW e \in Entry, inLogs(e)'
        PROVE  /\ e.id <= reqNum'[e.me]
               /\ \A h \in Handler : submit'[h] # Nil /\ submit'[h].srv = e.me
                                     /\ submit'[h].id = e.id => e.handler = h
    <3>1. e.me \in Server /\ e.id \in Nat
      BY DEF Entry
    <3>2. inLogs(e)
      BY <2>3
    <3>3. e.id <= reqNum[e.me] /\ reqNum[e.me] <= reqNum'[e.me] /\ reqNum'[e.me] \in Nat
          /\ reqNum[e.me] \in Nat
      BY <1>2, <2>1, <2>2, <3>1, <3>2 DEF Numbers
    <3>4. \A h \in Handler : submit[h] # Nil /\ submit[h].srv = e.me /\ submit[h].id = e.id
                               => e.handler = h
      BY <2>1, <3>2 DEF Numbers
    <3> QED BY <3>1, <3>3, <3>4
  <2>4. ASSUME NEW h \in Handler, submit'[h] # Nil PROVE submit'[h].id <= reqNum'[submit'[h].srv]
    <3>1. submit'[h] = submit[h] /\ submit[h] # Nil
      BY <2>4
    <3>2. submit[h].srv \in Server /\ submit[h].id \in Nat
      BY <2>2, <3>1 DEF Waiting
    <3>3. submit[h].id <= reqNum[submit[h].srv]
      BY <2>1, <3>1 DEF Numbers
    <3> QED BY <1>2, <2>2, <3>1, <3>2, <3>3
  <2> QED BY <2>3, <2>4 DEF Numbers
<1> QED BY <1>1, <1>2 DEF NameInv

\* What a step of the clerks, of Raft or of the reader leaves alone.
LEMMA NamesAlone ==
  ASSUME RsmInv, NameInv, restarts' = restarts, UNCHANGED <<reqNum, submit>>,
         \A e \in Entry : inLogs(e)' => inLogs(e),
         \A s \in Server, h \in Handler : claims(s, h)' => claims(s, h),
         issued \ net \subseteq (issued \ net)'
  PROVE  NameInv'
<1>1. \A s \in Server : reqNum[s] <= reqNum'[s] /\ reqNum'[s] \in Nat
  BY DEF RsmInv, Types, RsmTypes
<1> QED BY <1>1, NamesKept

\* A clerk that sends a request uses a new attempt.
LEMMA ClerkNames ==
  ASSUME RsmInv, NameInv, NEW o \in Op,
         (\E a \in Args : begin(o, a)) \/ tryNext(o) \/ callReturns(o)
  PROVE  NameInv'
<1>1. UNCHANGED <<raftVars, rsmVars>>
  BY DEF begin, tryNext, callReturns
<1>2. restarts' = restarts /\ UNCHANGED <<reqNum, submit, termLog, pending, reader>>
  BY <1>1 DEF raftVars, rsmVars
<1>3. issued \ net \subseteq (issued \ net)'
  <2>1. CASE send(o)
    BY <1>2, <2>1, SendFacts DEF RsmInv
  <2>2. CASE ~ send(o)
    <3>1. UNCHANGED <<attempt, net>>
      BY <2>2 DEF begin, tryNext, callReturns
    <3> QED BY <3>1 DEF issued
  <2> QED BY <2>1, <2>2
<1>4. \A e \in Entry : inLogs(e)' => inLogs(e)
  BY <1>2 DEF inLogs
<1>5. \A s \in Server, h \in Handler : claims(s, h)' => claims(s, h)
  BY <1>2 DEF claims
<1> QED BY <1>2, <1>3, <1>4, <1>5, NamesAlone

\* A new leader's log has no entry that is not in the log of an earlier one.
LEMMA ElectNames ==
  ASSUME RsmInv, NameInv, NEW s \in Server, elect(s)
  PROVE  NameInv'
<1>1. PICK l \in electable : termLog' = Append(termLog, l)
  BY DEF elect
<1>2. /\ restarts' = restarts /\ UNCHANGED <<reqNum, submit, pending, reader, attempt, net>>
  BY DEF elect, rsmVars, clerkVars
<1>3. termLog \in Seq(Seq(Entry)) /\ Len(termLog) \in Nat
  BY DEF RsmInv, Types, RaftTypes
<1>4. l \in Seq(Entry)
  BY Electable DEF RsmInv, proper
<1>5. \A i \in 1 .. Len(l) : inLogs(l[i])
  <2>1. CASE l = <<>>
    BY <2>1
  <2>2. CASE l # <<>>
    <3>1. PICK t \in DOMAIN termLog : l \in Prefixes(termLog[t])
      BY <2>2 DEF electable
    <3>2. PICK k \in 0 .. Len(termLog[t]) : l = SubSeq(termLog[t], 1, k)
      BY <3>1 DEF Prefixes
    <3>3. t \in 1 .. Len(termLog) /\ termLog[t] \in Seq(Entry)
      BY <1>3, <3>1
    <3> PICK q \in Seq(Entry) : q = termLog[t]
      BY <3>3
    <3>4. k \in 0 .. Len(q) /\ Len(q) \in Nat /\ l = SubSeq(q, 1, k)
      BY <3>2
    <3>5. Len(l) = k /\ \A i \in 1 .. k : l[i] = q[i] /\ i \in 1 .. Len(q)
      BY <3>4
    <3> QED BY <3>3, <3>5 DEF inLogs
  <2> QED BY <2>1, <2>2
<1>6. ASSUME NEW e \in Entry, inLogs(e)' PROVE inLogs(e)
  <2>1. /\ Len(termLog') = Len(termLog) + 1 /\ termLog'[Len(termLog) + 1] = l
        /\ \A t \in 1 .. Len(termLog) : termLog'[t] = termLog[t]
    BY <1>1, <1>3, <1>4
  <2>2. PICK t \in 1 .. Len(termLog) + 1 : \E i \in 1 .. Len(termLog'[t]) : termLog'[t][i] = e
    BY <1>6, <2>1 DEF inLogs
  <2>3. CASE t = Len(termLog) + 1
    BY <1>5, <2>1, <2>2, <2>3
  <2>4. CASE t \in 1 .. Len(termLog)
    BY <2>1, <2>2, <2>4 DEF inLogs
  <2> QED BY <1>3, <2>3, <2>4
<1>7. issued \ net \subseteq (issued \ net)'
  BY <1>2 DEF issued
<1>8. \A p \in Server, h \in Handler : claims(p, h)' => claims(p, h)
  BY <1>2 DEF claims
<1> QED BY <1>2, <1>6, <1>7, <1>8, NamesAlone

\* Raft's other steps submit and claim nothing.
LEMMA RaftNames ==
  ASSUME RsmInv, NameInv, NEW s \in Server,
         stepDown(s) \/ commit(s) \/ \E p \in Server : install(s, p)
  PROVE  NameInv'
<1>1. /\ restarts' = restarts
      /\ UNCHANGED <<reqNum, submit, pending, reader, attempt, net, termLog>>
  BY DEF stepDown, commit, install, rsmVars, clerkVars
<1>2. issued \ net \subseteq (issued \ net)'
  BY <1>1 DEF issued
<1>3. \A q \in Server, h \in Handler : claims(q, h)' => claims(q, h)
  BY <1>1 DEF claims
<1>4. \A e \in Entry : inLogs(e)' => inLogs(e)
  BY <1>1 DEF inLogs
<1> QED BY <1>1, <1>2, <1>3, <1>4, NamesAlone

\* The reader claims a waiter that was registered.
LEMMA TakeNames ==
  ASSUME RsmInv, NameInv, NEW s \in Server, takeCommand(s)
  PROVE  NameInv'
<1> DEFINE i == handed[s] + 1
           r == [index |-> i, waiter |-> pending[s][i]]
<1>1. /\ restarts' = restarts /\ reader' = [reader EXCEPT ![s] = r]
      /\ pending' = [pending EXCEPT ![s][i] = Nil]
      /\ UNCHANGED <<reqNum, submit, attempt, net, termLog>>
  BY DEF takeCommand, clerkVars
<1>2. i \in Index
  BY Committed, KVRaftAssumption DEF takeCommand, knows, RsmInv, Types, RaftTypes, Index
<1>3. reader \in [Server -> Reader \cup {Nil}] /\ pending \in [Server -> [Index -> Waiter]]
  BY DEF RsmInv, Types, RsmTypes
<1>4. ASSUME NEW p \in Server, NEW h \in Handler, claims(p, h)' PROVE claims(p, h)
  <2> HIDE DEF i
  <2>1. h # Nil
    BY NilAssumption
  <2>2. ASSUME NEW j \in Index, pending'[p][j] = h PROVE pending[p][j] = h
    BY <1>1, <1>2, <1>3, <2>1, <2>2
  <2>3. ASSUME reader'[p] # Nil, reader'[p].waiter = h PROVE claims(p, h)
    <3>1. CASE p = s
      BY <1>1, <1>2, <1>3, <2>3, <3>1 DEF claims
    <3>2. CASE p # s
      BY <1>1, <1>3, <2>3, <3>2 DEF claims
    <3> QED BY <3>1, <3>2
  <2> QED BY <1>4, <2>2, <2>3 DEF claims
<1>5. issued \ net \subseteq (issued \ net)'
  BY <1>1 DEF issued
<1>6. \A e \in Entry : inLogs(e)' => inLogs(e)
  BY <1>1 DEF inLogs
<1> QED BY <1>1, <1>4, <1>5, <1>6, NamesAlone

\* A Submit that returns has no name any more.
LEMMA WakeNames ==
  ASSUME RsmInv, NameInv,
         \/ \E s \in Server : runCommand(s) \/ applySnapshot(s)
         \/ \E h \in Handler : giveUp(h)
  PROVE  NameInv'
<1>1. restarts' = restarts /\ UNCHANGED <<reqNum, attempt, net, termLog>>
  BY DEF runCommand, applySnapshot, giveUp, raftVars
<1>2. submit \in [Handler -> Waiting \cup {Nil}] /\ pending \in [Server -> [Index -> Waiter]]
      /\ reader \in [Server -> Reader \cup {Nil}] /\ \A x \in Handler : x # Nil
  BY NilAssumption DEF RsmInv, Types, RsmTypes
<1>3. ASSUME NEW x \in Handler, submit'[x] # Nil PROVE submit'[x] = submit[x]
  <2>1. ASSUME NEW s \in Server, runCommand(s) PROVE submit'[x] = submit[x]
    <3> DEFINE w == reader[s].waiter
    <3>1. w \in Handler \cup {Nil}
      BY <2>1, ReaderFacts DEF runCommand, Waiter
    <3>2. \/ w # Nil /\ submit' = [submit EXCEPT ![w] = Nil]
          \/ submit' = submit
      BY <2>1 DEF runCommand
    <3> HIDE DEF w
    <3> QED BY <1>2, <1>3, <3>1, <3>2
  <2>2. ASSUME NEW s \in Server, applySnapshot(s) PROVE submit'[x] = submit[x]
    BY <1>2, <1>3, <2>2 DEF applySnapshot
  <2>3. ASSUME NEW h \in Handler, giveUp(h) PROVE submit'[x] = submit[x]
    BY <1>2, <1>3, <2>3 DEF giveUp
  <2> QED BY <2>1, <2>2, <2>3
<1>4. ASSUME NEW p \in Server, NEW x \in Handler, claims(p, x)' PROVE claims(p, x)
  <2>1. reader'[p] # Nil => reader'[p] = reader[p]
    BY <1>2 DEF runCommand, applySnapshot, giveUp
  <2>2. ASSUME NEW j \in Index, pending'[p][j] = x PROVE pending[p][j] = x
    <3>1. ASSUME NEW s \in Server, runCommand(s) PROVE pending[p][j] = x
      BY <2>2, <3>1 DEF runCommand
    <3>2. ASSUME NEW s \in Server, applySnapshot(s) PROVE pending[p][j] = x
      BY <1>2, <2>2, <3>2 DEF applySnapshot
    <3>3. ASSUME NEW h \in Handler, giveUp(h) PROVE pending[p][j] = x
      <4> DEFINE q == submit[h].srv
                 i == submit[h].index
      <4>1. submit[h] # Nil
        BY <3>3 DEF giveUp
      <4>2. q \in Server /\ i \in Index
        BY <4>1, Waits
      <4>3. pending' = [pending EXCEPT ![q][i] = IF pending[q][i] = h THEN Nil ELSE pending[q][i]]
        BY <3>3 DEF giveUp, discard
      <4> HIDE DEF q, i
      <4> QED BY <1>2, <2>2, <4>2, <4>3
    <3> QED BY <3>1, <3>2, <3>3
  <2> QED BY <1>4, <2>1, <2>2 DEF claims
<1>5. issued \ net \subseteq (issued \ net)'
  BY <1>1 DEF issued
<1>6. \A e \in Entry : inLogs(e)' => inLogs(e)
  BY <1>1 DEF inLogs
<1>7. \A p \in Server : reqNum[p] <= reqNum'[p] /\ reqNum'[p] \in Nat
  BY <1>1 DEF RsmInv, Types, RsmTypes
<1> QED BY <1>1, <1>3, <1>4, <1>5, <1>6, <1>7, NamesKept

\* A server that restarts has no Submit, and starts again with its numbers.
LEMMA RestartNames ==
  ASSUME RsmInv, NameInv, NEW s \in Server, restart(s)
  PROVE  NameInv'
<1>1. /\ restarts' = restarts + 1
      /\ pending' = [pending EXCEPT ![s] = [i \in Index |-> Nil]]
      /\ reader' = [reader EXCEPT ![s] = Nil]
      /\ submit' = [x \in Handler |-> IF submit[x] # Nil /\ submit[x].srv = s THEN Nil ELSE submit[x]]
      /\ UNCHANGED <<termLog, attempt, net>>
  BY DEF restart, clerkVars
<1>2. restarts' # 0
  BY <1>1 DEF RsmInv, Types, RaftTypes
<1>3. \A x \in Handler : submit'[x] # Nil => submit'[x] = submit[x]
  BY <1>1
<1>4. ASSUME NEW p \in Server, NEW x \in Handler, claims(p, x)' PROVE claims(p, x)
  <2>1. x # Nil /\ pending \in [Server -> [Index -> Waiter]] /\ reader \in [Server -> Reader \cup {Nil}]
    BY NilAssumption DEF RsmInv, Types, RsmTypes
  <2>2. CASE p = s
    BY <1>1, <1>4, <2>1, <2>2 DEF claims
  <2>3. CASE p # s
    BY <1>1, <1>4, <2>1, <2>3 DEF claims
  <2> QED BY <2>2, <2>3
<1>5. issued \ net \subseteq (issued \ net)'
  BY <1>1 DEF issued
<1>6. \A e \in Entry : inLogs(e)' => inLogs(e)
  BY <1>1 DEF inLogs
<1> QED BY <1>2, <1>3, <1>4, <1>5, <1>6, NamesKept

\* A Submit that has to wait takes a number that no entry of its server has.
LEMMA SubmitNames ==
  ASSUME RsmInv, NameInv, NEW h \in net, NEW s \in Server, Submit(h, s)
  PROVE  NameInv'
<1> DEFINE t == lead[s]
           index == Len(termLog[t]) + 1
           id == reqNum[s] + 1
           e0 == [term |-> t, me |-> s, id |-> id, handler |-> h]
           w0 == [srv |-> s, index |-> index, term |-> t, id |-> id]
<1>1. /\ net' = net \ {h} /\ reqNum' = [reqNum EXCEPT ![s] = id]
      /\ UNCHANGED <<restarts, reader, attempt>>
  BY DEF Submit
<1>2. /\ h \in issued /\ h \in Handler /\ net \subseteq issued
      /\ reqNum \in [Server -> Nat] /\ submit \in [Handler -> Waiting \cup {Nil}]
      /\ pending \in [Server -> [Index -> Waiter]] /\ termLog \in Seq(Seq(Entry))
      /\ lead \in [Server -> Nat]
  BY DEF RsmInv, Types, RsmTypes, CallTypes, RaftTypes, issued
<1>3. issued \ net \subseteq (issued \ net)' /\ h \in (issued \ net)'
  BY <1>1, <1>2 DEF issued
<1>4. \A p \in Server : /\ reqNum'[p] = IF p = s THEN id ELSE reqNum[p]
                        /\ reqNum[p] <= reqNum'[p] /\ reqNum'[p] \in Nat
  BY <1>1, <1>2
<1>5. CASE t = 0
  <2>1. UNCHANGED <<termLog, pending, submit>>
    BY <1>5 DEF Submit
  <2>2. \A e \in Entry : inLogs(e)' => inLogs(e)
    BY <2>1 DEF inLogs
  <2>3. \A p \in Server, x \in Handler : claims(p, x)' => claims(p, x)
    BY <1>1, <2>1 DEF claims
  <2> QED BY <1>1, <1>3, <1>4, <2>1, <2>2, <2>3, NamesKept
<1>6. CASE t # 0
  <2>1. /\ termLog' = [termLog EXCEPT ![t] = Append(termLog[t], e0)]
        /\ pending' = [pending EXCEPT ![s][index] = h]
        /\ submit' = [submit EXCEPT ![h] = w0]
    BY <1>6 DEF Submit
  <2>2. t \in 1 .. Len(termLog) /\ Len(termLog) \in Nat
    BY <1>2, <1>6 DEF RsmInv, LeadInv
  <2> PICK q \in Seq(Entry) : q = termLog[t]
    BY <1>2, <2>2
  <2>3. Len(q) \in Nat /\ Len(q) < MaxEvents /\ index \in Index /\ MaxEvents \in Nat
    <3>1. Len(termLog[t]) < MaxEvents
      BY <2>2, LogLength DEF RsmInv
    <3> QED BY <3>1, KVRaftAssumption DEF Index
  <2>4. e0 \in Entry /\ e0.me = s /\ e0.id = id /\ e0.handler = h /\ w0.srv = s /\ w0.id = id
    BY <1>2, <1>4 DEF Entry
  <2> HIDE DEF e0, w0, index, id
  <2>5. ASSUME NEW e \in Entry, inLogs(e)' PROVE inLogs(e) \/ e = e0
    <3>1. /\ Len(termLog') = Len(termLog)
          /\ \A u \in 1 .. Len(termLog) : u # t => termLog'[u] = termLog[u]
          /\ termLog'[t] = Append(q, e0)
      BY <1>2, <2>1, <2>2, <2>4
    <3>2. PICK u \in 1 .. Len(termLog) : \E i \in 1 .. Len(termLog'[u]) : termLog'[u][i] = e
      BY <2>5, <3>1 DEF inLogs
    <3>3. CASE u = t
      <4> DEFINE q2 == Append(q, e0)
      <4>0. Len(q2) = Len(q) + 1 /\ termLog'[u] = q2
        BY <2>4, <3>1, <3>3
      <4> HIDE DEF q2
      <4>1. PICK i \in 1 .. Len(q) + 1 : q2[i] = e
        BY <3>2, <4>0
      <4> USE DEF q2
      <4>2. i \in 1 .. Len(q) => termLog[t][i] = e
        BY <2>4, <4>1
      <4>3. i = Len(q) + 1 => e = e0
        BY <2>4, <4>1
      <4> QED BY <2>2, <2>3, <4>1, <4>2, <4>3 DEF inLogs
    <3>4. CASE u # t
      BY <3>1, <3>2, <3>4 DEF inLogs
    <3> QED BY <3>3, <3>4
  <2>6. \A x \in Handler : submit'[x] = IF x = h THEN w0 ELSE submit[x]
    BY <1>2, <2>1
  <2>7. ASSUME NEW p \in Server, NEW x \in Handler, claims(p, x)'
        PROVE  claims(p, x) \/ (p = s /\ x = h)
    <3>1. \A j \in Index : pending'[p][j] = IF p = s /\ j = index THEN h ELSE pending[p][j]
      BY <1>2, <2>1, <2>3
    <3> QED BY <1>1, <2>7, <3>1 DEF claims
  <2>8. Claims'
    <3> SUFFICES ASSUME NEW p \in Server, NEW x \in Handler, claims(p, x)'
                 PROVE  x \in (issued \ net)' /\ (submit'[x] # Nil => submit'[x].srv = p)
      BY DEF Claims
    <3>1. CASE claims(p, x)
      <4>1. x \in issued \ net /\ (submit[x] # Nil => submit[x].srv = p)
        BY <3>1 DEF NameInv, Claims
      <4> QED BY <1>3, <2>6, <4>1
    <3>2. CASE p = s /\ x = h
      BY <1>3, <2>4, <2>6, <3>2
    <3> QED BY <2>7, <3>1, <3>2
  <2>9. ASSUME restarts' = 0 PROVE Numbers'
    <3>1. Numbers
      BY <1>1, <2>9 DEF NameInv
    <3>2. id = reqNum[s] + 1 /\ reqNum[s] \in Nat
      BY <1>2 DEF id
    <3>3. ASSUME NEW x \in Handler, submit'[x] # Nil
          PROVE  /\ x # h => submit'[x] = submit[x] /\ submit[x].srv \in Server
                             /\ submit[x].id \in Nat /\ submit[x].id <= reqNum[submit[x].srv]
                 /\ submit'[x].id <= reqNum'[submit'[x].srv]
      <4>1. CASE x = h
        BY <1>4, <2>4, <2>6, <3>2, <4>1
      <4>2. CASE x # h
        <5>1. submit'[x] = submit[x] /\ submit[x].srv \in Server /\ submit[x].id \in Nat
          BY <1>2, <2>6, <3>3, <4>2 DEF Waiting
        <5>2. submit[x].id <= reqNum[submit[x].srv] /\ reqNum[submit[x].srv] \in Nat
          BY <1>2, <3>1, <3>3, <5>1 DEF Numbers
        <5>3. submit'[x].id <= reqNum'[submit'[x].srv]
          BY <1>4, <5>1, <5>2
        <5> QED BY <4>2, <5>1, <5>2, <5>3
      <4> QED BY <4>1, <4>2
    <3>4. ASSUME NEW e \in Entry, inLogs(e)'
          PROVE  /\ e.id <= reqNum'[e.me]
                 /\ \A x \in Handler : submit'[x] # Nil /\ submit'[x].srv = e.me
                                       /\ submit'[x].id = e.id => e.handler = x
      <4>0. e.me \in Server /\ e.id \in Nat
        BY DEF Entry
      <4>1. CASE inLogs(e)
        <5>1. /\ e.id <= reqNum[e.me] /\ reqNum[e.me] \in Nat
              /\ \A x \in Handler : submit[x] # Nil /\ submit[x].srv = e.me
                                    /\ submit[x].id = e.id => e.handler = x
          BY <1>2, <3>1, <4>0, <4>1 DEF Numbers
        <5>2. e.id <= reqNum'[e.me]
          BY <1>4, <4>0, <5>1
        <5>3. ~ (e.me = s /\ e.id = id)
          BY <3>2, <4>0, <5>1
        <5>4. ASSUME NEW x \in Handler, submit'[x] # Nil, submit'[x].srv = e.me, submit'[x].id = e.id
              PROVE  e.handler = x
          <6>1. x # h
            BY <2>4, <2>6, <5>3, <5>4
          <6> QED BY <2>6, <5>1, <5>4, <6>1
        <5> QED BY <5>2, <5>4
      <4>2. CASE e = e0
        <5>1. e.id <= reqNum'[e.me]
          BY <1>4, <2>4, <3>2, <4>2
        <5>2. ASSUME NEW x \in Handler, submit'[x] # Nil, submit'[x].srv = e.me,
                     submit'[x].id = e.id, x # h
              PROVE  FALSE
          <6>1. submit'[x] = submit[x] /\ submit[x].id <= reqNum[submit[x].srv]
            BY <3>3, <5>2
          <6>2. submit[x].srv = s /\ submit[x].id = id
            BY <2>4, <4>2, <5>2, <6>1
          <6>3. id <= reqNum[s]
            BY <6>1, <6>2
          <6> QED BY <3>2, <6>3
        <5> QED BY <2>4, <4>2, <5>1, <5>2
      <4> QED BY <2>5, <3>4, <4>1, <4>2
    <3> QED BY <3>3, <3>4 DEF Numbers
  <2> QED BY <2>8, <2>9 DEF NameInv
<1> QED BY <1>5, <1>6

\* Every step keeps the names.
LEMMA NextNames == RsmInv /\ NameInv /\ [Next]_vars => NameInv'
<1> SUFFICES ASSUME RsmInv, NameInv, [Next]_vars PROVE NameInv'
  OBVIOUS
<1>1. ASSUME NEW o \in Op, NEW k \in Key, Get(o, k) PROVE NameInv'
  <2>1. [op |-> "Get", key |-> k, value |-> Empty, version |-> 0] \in Args
    BY KVRaftAssumption DEF Args
  <2> QED BY <1>1, <2>1, ClerkNames DEF Get
<1>2. ASSUME NEW o \in Op, NEW k \in Key, NEW v \in Value, NEW n \in 0 .. MaxVersion, Put(o, k, v, n)
      PROVE  NameInv'
  <2>1. [op |-> "Put", key |-> k, value |-> v, version |-> n] \in Args
    BY DEF Args
  <2> QED BY <1>2, <2>1, ClerkNames DEF Put
<1>3. ASSUME NEW o \in Op, tryNext(o) \/ callReturns(o) PROVE NameInv'
  BY <1>3, ClerkNames
<1>4. ASSUME NEW s \in Server, \/ runCommand(s) \/ applySnapshot(s)
                               \/ elect(s) \/ takeCommand(s) \/ restart(s)
      PROVE  NameInv'
  BY <1>4, WakeNames, ElectNames, TakeNames, RestartNames
<1>5. CASE UNCHANGED vars
  <2>1. UNCHANGED <<restarts, reqNum, submit, pending, reader, attempt, net, termLog>>
    BY <1>5 DEF vars, raftVars, rsmVars, clerkVars
  <2>2. issued \ net \subseteq (issued \ net)'
    BY <2>1 DEF issued
  <2>3. \A q \in Server, h \in Handler : claims(q, h)' => claims(q, h)
    BY <2>1 DEF claims
  <2>4. \A e \in Entry : inLogs(e)' => inLogs(e)
    BY <2>1 DEF inLogs
  <2> QED BY <2>1, <2>2, <2>3, <2>4, NamesAlone
<1>6. ASSUME NEW s \in Server, stepDown(s) \/ commit(s) \/ \E p \in Server : install(s, p)
      PROVE  NameInv'
  BY <1>6, RaftNames
<1>7. ASSUME NEW h \in net, NEW s \in Server, Submit(h, s) PROVE NameInv'
  BY <1>7, SubmitNames
<1>8. ASSUME NEW h \in Handler, giveUp(h) PROVE NameInv'
  BY <1>8, WakeNames
<1> QED BY <1>1, <1>2, <1>3, <1>4, <1>5, <1>6, <1>7, <1>8 DEF Next

\* At first there are no names.
LEMMA InitNames == Init => NameInv
<1> SUFFICES ASSUME Init PROVE NameInv
  OBVIOUS
<1>1. Claims
  BY NilAssumption DEF Init, Claims, claims
<1>2. Numbers
  BY DEF Init, Numbers, inLogs
<1> QED BY <1>1, <1>2 DEF NameInv

\* The reader's waiter is of this server, and the entry that it has run is in a leader's log.
LEMMA NamesImply == RsmInv /\ NameInv => NamedUntilRestart
<1> SUFFICES ASSUME RsmInv, NameInv, restarts = 0, NEW s \in Server, reader[s] # Nil,
                    reader[s].waiter # Nil, submit[reader[s].waiter] # Nil,
                    own(s, clog[reader[s].index], reader[s].waiter)
             PROVE  clog[reader[s].index].handler = reader[s].waiter
  BY DEF NamedUntilRestart, RequestNamed
<1> DEFINE i == reader[s].index
           w == reader[s].waiter
           e == clog[i]
<1>1. i \in 1 .. Len(clog) /\ w \in Handler
  BY ReaderFacts DEF Waiter
<1>2. e \in Entry
  BY <1>1, Committed DEF RsmInv
<1>3. inLogs(e)
  <2> DEFINE T == Len(termLog)
  <2>1. termLog \in Seq(Seq(Entry)) /\ Len(clog) \in Nat
    BY DEF RsmInv, Types, RaftTypes
  <2>2. termLog # <<>>
    BY <1>1, <2>1 DEF RsmInv, CommitInv
  <2>3. T \in 1 .. Len(termLog) /\ Len(termLog[T]) \in Nat
    BY <2>1, <2>2
  <2>4. Len(clog) <= Len(termLog[T]) /\ \A x \in 1 .. Len(clog) : termLog[T][x] = clog[x]
    BY <2>2 DEF RsmInv, CommitInv, extends
  <2> HIDE DEF i, T
  <2>5. i \in 1 .. Len(termLog[T]) /\ termLog[T][i] = e
    BY <1>1, <2>1, <2>3, <2>4
  <2> QED BY <2>3, <2>5 DEF inLogs
<1>4. submit[w].srv = s
  <2>1. claims(s, w)
    BY DEF claims
  <2> QED BY <1>1, <2>1 DEF NameInv, Claims
<1>5. e.me = s /\ e.id = submit[w].id
  BY DEF own
<1> QED BY <1>1, <1>2, <1>3, <1>4, <1>5 DEF NameInv, Numbers

\* The pair of server and number names a request until a server starts its numbers again
\* (rsm.go:19-24): the reader then answers no Submit with what another's command found.
THEOREM Named == Spec => []NamedUntilRestart
<1>1. Init => RsmInv /\ NameInv
  BY InitInv, InitNames
<1>2. RsmInv /\ NameInv /\ [Next]_vars => (RsmInv /\ NameInv)'
  BY NextInv, NextNames
<1>3. RsmInv /\ NameInv => NamedUntilRestart
  BY NamesImply
<1> QED BY <1>1, <1>2, <1>3, PTL DEF Spec

-----------------------------------------------------------------------------
\* The refinement

\* At first the store is empty and there are no calls.
LEMMA InitCalls == Init => CallInv /\ Store!StoreInit
<1> SUFFICES ASSUME Init PROVE CallInv /\ Store!StoreInit
  OBVIOUS
<1>1. history = <<NoMap>> /\ Last(history) = NoMap /\ Ran = {}
  BY DEF Init, Ran, Last
<1>2. CallStates
  BY DEF Init, CallStates
<1>3. Versions
  BY <1>1 DEF Init, Versions, NoMap
<1>4. \A o \in Op : Grounded(o)
  BY DEF Init, Grounded
<1>5. Store!StoreInit
  <2>1. \A o \in Op : (executed[o] > 0) = FALSE
    BY DEF Init
  <2>2. [o \in Op |-> executed[o] > 0] = [o \in Op |-> FALSE]
    BY <2>1, Zenon
  <2>3. Last(history) = [k \in Key |-> Store!NoNode]
    BY <1>1 DEF NoMap, Store!NoNode
  <2> QED BY <2>2, <2>3, Zenon DEF Init, Store!StoreInit
<1> QED BY <1>1, <1>2, <1>3, <1>4, <1>5 DEF CallInv

\* Every step is a step of the store or none, and keeps what is known of the calls.
LEMMA NextCalls ==
  ASSUME RsmInv, CallInv, RequestNamed, [Next]_vars
  PROVE  CallInv' /\ [Store!StoreNext]_(Store!storeVars)
<1>1. ASSUME NEW o \in Op, NEW k \in Key, Get(o, k) PROVE CallInv' /\ Store!StoreNext
  <2>1. [op |-> "Get", key |-> k, value |-> Empty, version |-> 0] \in Args
    BY KVRaftAssumption DEF Args
  <2> QED BY <1>1, <2>1, BeginCall DEF Get
<1>2. ASSUME NEW o \in Op, NEW k \in Key, NEW v \in Value, NEW n \in 0 .. MaxVersion, Put(o, k, v, n)
      PROVE  CallInv' /\ Store!StoreNext
  <2>1. [op |-> "Put", key |-> k, value |-> v, version |-> n] \in Args
    BY DEF Args
  <2>2. n <= Last(history)[k].version
    BY <1>2 DEF Put
  <2> QED BY <1>2, <2>1, <2>2, BeginCall DEF Put
<1>3. CASE UNCHANGED vars
  BY <1>3, CallsAlone DEF vars, raftVars
<1>4. ASSUME NEW s \in Server, runCommand(s)
      PROVE  CallInv' /\ [Store!StoreNext]_(Store!storeVars)
  BY <1>4, RunAgain, RunFirst
<1>5. ASSUME NEW s \in Server,
             \/ elect(s) \/ stepDown(s) \/ commit(s) \/ \E p \in Server : install(s, p)
             \/ takeCommand(s) \/ restart(s)
      PROVE  CallInv' /\ UNCHANGED Store!storeVars
  BY <1>5, RaftQuiet
<1>6. ASSUME NEW s \in Server, applySnapshot(s) PROVE CallInv' /\ UNCHANGED Store!storeVars
  BY <1>6, SnapshotQuiet
<1>7. ASSUME NEW h \in net, NEW s \in Server, Submit(h, s)
      PROVE  CallInv' /\ UNCHANGED Store!storeVars
  <2>1. h \in Handler
    BY DEF RsmInv, Types, CallTypes, issued
  <2> QED BY <1>7, <2>1, SubmitQuiet
<1>8. ASSUME NEW h \in Handler, giveUp(h) PROVE CallInv' /\ UNCHANGED Store!storeVars
  BY <1>8, SubmitQuiet
<1>9. ASSUME NEW o \in Op, tryNext(o) PROVE CallInv' /\ UNCHANGED Store!storeVars
  BY <1>9, TryNextCall
<1>10. ASSUME NEW o \in Op, callReturns(o) PROVE CallInv' /\ Store!StoreNext
  BY <1>10, ReturnCall
<1> QED BY <1>1, <1>2, <1>3, <1>4, <1>5, <1>6, <1>7, <1>8, <1>9, <1>10 DEF Next

\* Clerks, servers, state machines and Raft together implement the store, for any number of
\* servers, calls, terms, crashes and snapshots: every call takes effect once, between
\* invocation and answer, as long as server and number name the request that the reader
\* answers (rsm.go:19-24, 119-126, client.go:65-90).
THEOREM NamedLinearizable == Spec /\ []RequestNamed => Linearizable
<1>1. Init => CallInv /\ Store!StoreInit
  BY InitCalls
<1>2. RsmInv /\ CallInv /\ RequestNamed /\ [Next]_vars
        => CallInv' /\ [Store!StoreNext]_(Store!storeVars)
  BY NextCalls
<1> QED BY <1>1, <1>2, RsmInvariant, PTL DEF Spec, Linearizable, Store!StoreSpec

\* Without restarts nothing is left to assume: elections, deposed leaders, snapshots and
\* repeated requests do not disturb the store.
THEOREM LinearizableUntilRestart == Spec /\ [](restarts = 0) => Linearizable
<1>1. NamedUntilRestart /\ restarts = 0 => RequestNamed
  BY DEF NamedUntilRestart
<1> QED BY <1>1, Named, NamedLinearizable, PTL

=============================================================================
