-------------------------- MODULE KVServiceProofs --------------------------
(***************************************************************************)
(* The key/value service tells its callers the truth about their Puts and  *)
(* implements the abstract store, for every set of calls, keys and values. *)
(*                                                                         *)
(* PutTruthful alone is not inductive: that a refused Put never happens    *)
(* later depends on which copies of its request are still on their way,    *)
(* and that it is performed once depends on the version having moved on.   *)
(***************************************************************************)
EXTENDS KVService, TLAPS

\* A Put that has been performed left a newer version behind, so that no copy of its
\* request matches again
Once(o) ==
  /\ executed[o] <= 1
  /\ executed[o] = 1 => /\ pc[o] # "idle"
                        /\ args[o].op = "Put"
                        /\ m[args[o].key].version > args[o].version

\* As long as no Call has failed there is one request; resent records the opposite
Attempts(o) ==
  /\ pc[o] = "idle" => attempt[o] = 0 /\ ~ resent[o]
  /\ ~ resent[o] => attempt[o] = IF pc[o] \in {"idle", "calling"} THEN 0 ELSE 1

\* Requests on their way were sent; the one that was answered is not among them
InFlight ==
  \A r \in net :
    /\ pc[r.op] # "idle"
    /\ r.attempt \in 1 .. attempt[r.op]
    /\ pc[r.op] \in {"waiting", "done"} /\ reply[r.op] # Nil => r.attempt # attempt[r.op]

\* What the reply on its way back says
Replied(o) ==
  /\ pc[o] \in {"idle", "calling"} => reply[o] = Nil
  /\ pc[o] = "done" => reply[o] # Nil
  /\ ~ resent[o] /\ reply[o] = Nil => executed[o] = 0
  /\ reply[o] # Nil => reply[o].err # "ErrMaybe"
  /\ args[o] # Nil /\ args[o].op = "Put" /\ reply[o] # Nil =>
       /\ reply[o] = PutReply(reply[o].err)
       /\ reply[o].err = "OK" => executed[o] = 1
       /\ reply[o].err = "ErrVersion" /\ ~ resent[o] => executed[o] = 0

\* What the call returned comes from the reply
Returned(o) ==
  /\ pc[o] # "done" => result[o] = Nil
  /\ pc[o] = "done" => result[o] = returned(o)

ServiceInv ==
  /\ TypeOK
  /\ InFlight
  /\ \A o \in Op : Once(o) /\ Attempts(o) /\ Replied(o) /\ Returned(o)

-----------------------------------------------------------------------------

\* The initial state satisfies the invariant.
LEMMA ServiceInit == Init => ServiceInv
BY ServiceAssumption
   DEF Init, ServiceInv, TypeOK, InFlight, Once, Attempts, Replied, Returned, Node, Request

\* The types are preserved: requests, replies and versions stay within theirs.
LEMMA ServiceType == TypeOK /\ InFlight /\ [Next]_vars => TypeOK'
<1> SUFFICES ASSUME TypeOK, InFlight, [Next]_vars PROVE TypeOK'
  OBVIOUS
<1> USE ServiceAssumption
<1>1. ASSUME NEW o \in Op, NEW a \in Args, begin(o, a)
      PROVE  TypeOK'
  BY <1>1 DEF TypeOK, begin, Args
<1>2. ASSUME NEW o \in Op, NEW k \in Key, Get(o, k)
      PROVE  TypeOK'
  <2>1. [op |-> "Get", key |-> k, value |-> Empty, version |-> 0] \in Args
    BY DEF Args
  <2> QED BY <1>1, <1>2, <2>1 DEF Get
<1>3. ASSUME NEW o \in Op, NEW k \in Key, NEW v \in Value, NEW n \in 0 .. MaxVersion,
             Put(o, k, v, n)
      PROVE  TypeOK'
  <2>1. [op |-> "Put", key |-> k, value |-> v, version |-> n] \in Args
    BY DEF Args
  <2> QED BY <1>1, <1>3, <2>1 DEF Put
<1>4. ASSUME NEW o \in Op, Call(o) PROVE TypeOK'
  BY <1>4 DEF TypeOK, Call, Request
<1>5. ASSUME NEW o \in Op, callFails(o) PROVE TypeOK'
  BY <1>5 DEF TypeOK, callFails
<1>6. ASSUME NEW o \in Op, callReturns(o) PROVE TypeOK'
  <2>1. returned(o) \in Reply
    BY <1>6 DEF TypeOK, callReturns, returned, PutReply, Reply
  <2> QED BY <1>6, <2>1 DEF TypeOK, callReturns
<1>7. ASSUME NEW r \in net, handle(r) PROVE TypeOK'
  <2> DEFINE a == args[r.op]
             rep == IF a.op = "Get" THEN getReply(a) ELSE putReply(a)
  <2>1. r.op \in Op
    BY DEF TypeOK, Request
  <2>2. a \in Args
    BY <2>1 DEF TypeOK, InFlight
  <2>3. a.key \in Key /\ a.value \in Value
    BY <2>2 DEF Args
  <2>4. m[a.key] \in Node
    BY <2>3 DEF TypeOK
  <2>5. rep \in Reply
    BY <2>4 DEF getReply, putReply, PutReply, Reply, Node
  <2>6. m' \in [Key -> Node]
    BY <1>7, <2>3, <2>4 DEF handle, TypeOK, Node
  <2> QED BY <1>7, <2>1, <2>5, <2>6 DEF handle, TypeOK
<1>8. CASE UNCHANGED vars
  BY <1>8 DEF TypeOK, vars
<1> QED BY <1>2, <1>3, <1>4, <1>5, <1>6, <1>7, <1>8 DEF Next


-----------------------------------------------------------------------------
\* A new call starts with no request sent and nothing known.
LEMMA BeginInv ==
  ASSUME ServiceInv, TypeOK', NEW p \in Op, NEW a \in Args, begin(p, a)
  PROVE  ServiceInv'
<1> USE ServiceAssumption DEF ServiceInv
<1>1. InFlight'
  BY DEF begin, InFlight, TypeOK, Request
<1>2. ASSUME NEW o \in Op PROVE (Once(o) /\ Attempts(o) /\ Replied(o) /\ Returned(o))'
  <2>1. CASE o = p
    <3>1. pc[p] = "idle" /\ pc'[p] = "calling" /\ executed[p] = 0
      BY DEF begin, Once, TypeOK
    <3> QED BY <2>1, <3>1 DEF begin, Once, Attempts, Replied, Returned, TypeOK
  <2>2. CASE o # p
    BY <2>2 DEF begin, Once, Attempts, Replied, Returned, TypeOK, returned
  <2> QED BY <2>1, <2>2
<1> QED BY <1>1, <1>2

\* Sending a request: it is the newest, and the others keep their place.
LEMMA CallInv ==
  ASSUME ServiceInv, TypeOK', NEW p \in Op, Call(p)
  PROVE  ServiceInv'
<1> USE DEF ServiceInv
<1>1. InFlight'
  BY DEF Call, InFlight, TypeOK, Request, Replied
<1>2. ASSUME NEW o \in Op PROVE (Once(o) /\ Attempts(o) /\ Replied(o) /\ Returned(o))'
  BY DEF Call, Once, Attempts, Replied, Returned, TypeOK, returned
<1> QED BY <1>1, <1>2

\* A failed Call leaves its request, if anything, on its way and remembers that
\* there may be more than one.
LEMMA CallFailsInv ==
  ASSUME ServiceInv, TypeOK', NEW p \in Op, callFails(p)
  PROVE  ServiceInv'
<1> USE DEF ServiceInv
<1>1. InFlight'
  BY DEF callFails, InFlight, TypeOK, Request
<1>2. ASSUME NEW o \in Op PROVE (Once(o) /\ Attempts(o) /\ Replied(o) /\ Returned(o))'
  BY DEF callFails, Once, Attempts, Replied, Returned, TypeOK, returned
<1> QED BY <1>1, <1>2

\* The call returns what it makes of the reply.
LEMMA CallReturnsInv ==
  ASSUME ServiceInv, TypeOK', NEW p \in Op, callReturns(p)
  PROVE  ServiceInv'
<1> USE DEF ServiceInv
<1>1. InFlight'
  BY DEF callReturns, InFlight, TypeOK, Request
<1>2. ASSUME NEW o \in Op PROVE (Once(o) /\ Attempts(o) /\ Replied(o))'
  BY DEF callReturns, Once, Attempts, Replied, TypeOK
<1>3. ASSUME NEW o \in Op PROVE Returned(o)'
  BY DEF callReturns, Returned, TypeOK, returned
<1> QED BY <1>1, <1>2, <1>3

\* Only versions move, and only forward, when the server executes a request.
LEMMA VersionsGrow ==
  ASSUME ServiceInv, NEW r \in net, handle(r), NEW k \in Key
  PROVE  m'[k].version \in Nat /\ m'[k].version >= m[k].version
<1>1. r.op \in Op /\ args[r.op] \in Args
  BY DEF ServiceInv, TypeOK, InFlight, Request
<1>2. args[r.op].key \in Key
  BY <1>1 DEF Args
<1> QED BY <1>1, <1>2 DEF ServiceInv, TypeOK, Node, handle

\* The server executes a request: a Put that has been performed finds a newer
\* version; the reply reaches the caller only if it is the newest request.
LEMMA HandleInv ==
  ASSUME ServiceInv, TypeOK', NEW r \in net, handle(r)
  PROVE  ServiceInv'
<1> USE ServiceAssumption DEF ServiceInv
<1> DEFINE p == r.op
           a == args[p]
           rep == IF a.op = "Get" THEN getReply(a) ELSE putReply(a)
           awaited == pc[p] = "waiting" /\ attempt[p] = r.attempt
<1>1. p \in Op /\ r.attempt \in Nat
  BY DEF TypeOK, Request
<1>2. pc[p] # "idle" /\ a \in Args
  BY <1>1 DEF TypeOK, InFlight
<1>3. a.key \in Key /\ a.version \in Nat /\ a.op \in {"Get", "Put"} /\ m[a.key] \in Node
  BY <1>2 DEF Args, TypeOK
<1>4. rep \in Reply /\ rep.err # "ErrMaybe" /\ rep # Nil
  BY <1>3 DEF getReply, putReply, PutReply, Reply, Node
<1>5. a.op = "Put" => rep = PutReply(rep.err) /\ (rep.err = "OK" <=> performs(a))
  BY <1>3 DEF putReply, PutReply, performs
<1>6. performs(a) => executed[p] = 0 /\ executed'[p] = 1
                       /\ a.op = "Put" /\ m'[a.key].version > a.version
  <2> SUFFICES ASSUME performs(a) PROVE
        executed[p] = 0 /\ executed'[p] = 1 /\ a.op = "Put" /\ m'[a.key].version > a.version
    OBVIOUS
  <2>1. a.op = "Put" /\ a.version = m[a.key].version
    BY DEF performs
  <2>2. executed[p] = 0
    <3>1. ~ (m[a.key].version > a.version)
      BY <1>3, <2>1
    <3>2. executed[p] \in Nat /\ executed[p] <= 1 /\ executed[p] # 1
      BY <1>1, <3>1 DEF Once, TypeOK
    <3> QED BY <3>2
  <2>3. executed' = [executed EXCEPT ![p] = @ + 1]
    BY DEF handle
  <2>4. m' = [m EXCEPT ![a.key] = [value |-> a.value, version |-> @.version + 1]]
    BY DEF handle
  <2>5. m'[a.key].version = a.version + 1
    BY <1>3, <2>1, <2>4 DEF TypeOK
  <2> QED BY <1>1, <1>3, <2>1, <2>2, <2>3, <2>5 DEF TypeOK
<1>7. ~ performs(a) => executed' = executed
  BY DEF handle
<1>8. reply' = IF awaited THEN [reply EXCEPT ![p] = rep] ELSE reply
  BY DEF handle
<1>9. UNCHANGED <<pc, args, resent, attempt, result>> /\ net' = net \ {r}
  BY DEF handle
<1>10. InFlight'
  <2> SUFFICES ASSUME NEW q \in net' PROVE
        /\ pc'[q.op] # "idle"
        /\ q.attempt \in 1 .. attempt'[q.op]
        /\ pc'[q.op] \in {"waiting", "done"} /\ reply'[q.op] # Nil => q.attempt # attempt'[q.op]
    BY DEF InFlight
  <2>1. q \in net /\ q # r /\ q \in Request /\ r \in Request
    BY <1>9 DEF TypeOK
  <2>2. q.op = p => q.attempt # r.attempt
    BY <2>1 DEF Request
  <2> QED BY <1>1, <1>8, <1>9, <2>1, <2>2 DEF InFlight, TypeOK
\* As long as nothing was sent again, the request is the only one and awaited
<1>11. ~ resent[p] => awaited /\ reply[p] = Nil /\ executed[p] = 0
  BY <1>1, <1>2 DEF Attempts, Replied, InFlight, TypeOK
<1>12. ASSUME NEW o \in Op PROVE Once(o)'
  <2>1. executed'[o] = IF o = p /\ performs(a) THEN 1 ELSE executed[o]
    BY <1>1, <1>6 DEF handle, TypeOK
  <2>2. CASE o = p /\ performs(a)
    BY <1>2, <1>6, <1>9, <2>1, <2>2 DEF Once
  <2>3. CASE ~ (o = p /\ performs(a)) /\ executed[o] = 1
    <3>1. pc[o] # "idle" /\ args[o].op = "Put" /\ m[args[o].key].version > args[o].version
      BY <2>3 DEF Once
    <3>2. args[o] \in Args
      BY <3>1 DEF TypeOK
    <3>3. args[o].key \in Key /\ args[o].version \in Nat
      BY <3>2 DEF Args
    <3>4. m[args[o].key].version \in Nat
      BY <3>3 DEF TypeOK, Node
    <3> QED BY <1>9, <2>1, <2>3, <3>1, <3>3, <3>4, VersionsGrow DEF Once
  <2>4. CASE ~ (o = p /\ performs(a)) /\ executed[o] # 1
    BY <2>1, <2>4 DEF Once, TypeOK
  <2> QED BY <2>2, <2>3, <2>4
<1>13. ASSUME NEW o \in Op PROVE Attempts(o)'
  BY <1>9 DEF Attempts
<1>14. ASSUME NEW o \in Op PROVE Replied(o)'
  <2>1. CASE o # p
    BY <1>1, <1>8, <1>9, <2>1 DEF Replied, handle, TypeOK
  <2>2. CASE o = p /\ awaited
    <3>1. reply'[o] = rep
      BY <1>1, <1>8, <2>2 DEF TypeOK
    <3>2. a # Nil /\ pc[o] = "waiting"
      BY <1>2, <2>2, ServiceAssumption DEF Args
    <3> QED BY <1>1, <1>4, <1>5, <1>6, <1>7, <1>9, <1>11, <2>2, <3>1, <3>2 DEF Replied, PutReply
  <2>3. CASE o = p /\ ~ awaited
    <3>1. reply' = reply /\ resent[o]
      BY <1>8, <1>11, <2>3
    <3>2. executed[o] = 1 => executed'[o] = 1
      BY <1>6, <1>7, <2>3
    <3> QED BY <1>9, <2>3, <3>1, <3>2 DEF Replied
  <2> QED BY <2>1, <2>2, <2>3
<1>15. ASSUME NEW o \in Op PROVE Returned(o)'
  <2>1. pc[o] = "done" => reply'[o] = reply[o]
    BY <1>1, <1>8 DEF TypeOK
  <2> QED BY <1>9, <2>1 DEF Returned, returned
<1> QED BY <1>10, <1>12, <1>13, <1>14, <1>15

\* The invariant holds in every reachable state of the service.
THEOREM ServiceInvariance == Spec => []ServiceInv
<1>1. ServiceInv /\ [Next]_vars => ServiceInv'
  <2> SUFFICES ASSUME ServiceInv, [Next]_vars PROVE ServiceInv'
    OBVIOUS
  <2> USE ServiceAssumption
  <2>1. TypeOK'
    BY ServiceType DEF ServiceInv
  <2>2. ASSUME NEW o \in Op, NEW k \in Key, Get(o, k) PROVE ServiceInv'
    <3>1. [op |-> "Get", key |-> k, value |-> Empty, version |-> 0] \in Args
      BY DEF Args
    <3> QED BY <2>1, <2>2, <3>1, BeginInv DEF Get
  <2>3. ASSUME NEW o \in Op, NEW k \in Key, NEW v \in Value, NEW n \in 0 .. MaxVersion,
               Put(o, k, v, n)
        PROVE  ServiceInv'
    <3>1. [op |-> "Put", key |-> k, value |-> v, version |-> n] \in Args
      BY DEF Args
    <3> QED BY <2>1, <2>3, <3>1, BeginInv DEF Put
  <2>4. CASE UNCHANGED vars
    BY <2>4 DEF vars, ServiceInv, TypeOK, InFlight, Once, Attempts, Replied, Returned, returned
  <2> QED BY <2>1, <2>2, <2>3, <2>4, CallInv, CallFailsInv, CallReturnsInv, HandleInv DEF Next
<1> QED BY <1>1, ServiceInit, PTL DEF Spec

\* The answer of a Put is true for every number of calls, keys, values and repetitions,
\* whatever versions callers pass: at most one copy of a request is performed, one if it
\* returned OK, none, then or later, if it returned ErrVersion (Clerk.Put, KVServer.Put).
THEOREM PutsTruthful == Spec => []PutTruthful
<1>1. ServiceInv => PutTruthful
  <2> SUFFICES ASSUME ServiceInv, NEW o \in Op, pc[o] # "idle", args[o].op = "Put" PROVE
        /\ executed[o] <= 1
        /\ result[o] = PutReply("OK") => executed[o] = 1
        /\ result[o] = PutReply("ErrVersion") => executed[o] = 0
    BY DEF PutTruthful
  <2>1. executed[o] <= 1
    BY DEF ServiceInv, Once
  <2>2. PutReply("OK") # Nil /\ PutReply("ErrVersion") # Nil
    BY ServiceAssumption DEF PutReply, Reply
  <2>3. ASSUME NEW e \in {"OK", "ErrVersion"}, result[o] = PutReply(e)
        PROVE  reply[o] # Nil /\ reply[o].err = e /\ (e = "ErrVersion" => ~ resent[o])
    <3>1. pc[o] = "done" /\ result[o] = returned(o) /\ reply[o] # Nil
      BY <2>2, <2>3 DEF ServiceInv, Returned, Replied
    <3> QED BY <2>3, <3>1 DEF returned, PutReply
  <2>4. args[o] # Nil
    BY DEF ServiceInv, TypeOK
  <2> QED BY <2>1, <2>3, <2>4 DEF ServiceInv, Replied
<1> QED BY <1>1, ServiceInvariance, PTL

-----------------------------------------------------------------------------
(***************************************************************************)
(* Refinement.  When callers pass versions that the key has had, a Put     *)
(* that has been answered can no longer match, so late copies of its       *)
(* request are no steps of the store.                                      *)
(***************************************************************************)

\* A key that does not exist has the zero value
Zero == \A k \in Key : m[k].version = 0 => m[k].value = Empty

\* Versions of started Puts are not from the future
Passed(o) ==
  args[o] # Nil /\ args[o].op = "Put" =>
    /\ args[o].version <= m[args[o].key].version
    /\ reply[o] # Nil => /\ args[o].version < m[args[o].key].version
                         /\ reply[o].err # "ErrNoKey"

\* The reply says what the abstract store was seen to contain
Seen(o) ==
  /\ pc[o] = "idle" => saw[o] = Nil
  /\ args[o] # Nil /\ reply[o] # Nil /\ (args[o].op = "Get" \/ reply[o].err # "OK")
       => saw[o] = reply[o]

RefineInv == ServiceInv /\ Zero /\ \A o \in Op : Passed(o) /\ Seen(o)

\* Steps of the clerk other than the start of a call keep the refinement invariant.
LEMMA ClerkRefineInv ==
  ASSUME RefineInv, TypeOK', NEW p \in Op, Call(p) \/ callFails(p) \/ callReturns(p)
  PROVE  Zero' /\ \A o \in Op : (Passed(o) /\ Seen(o))'
<1> USE DEF RefineInv, ServiceInv
<1>1. UNCHANGED <<m, args, saw>>
  BY DEF Call, callFails, callReturns
<1>2. \A o \in Op : /\ reply'[o] # Nil => reply'[o] = reply[o]
                    /\ pc'[o] = "idle" => pc[o] = "idle"
  BY DEF Call, callFails, callReturns, TypeOK
<1> QED BY <1>1, <1>2 DEF Zero, Passed, Seen

\* A new call brings a version that the key has had.
LEMMA BeginRefineInv ==
  ASSUME RefineInv, TypeOK', NEW p \in Op, NEW a \in Args, begin(p, a),
         a.op = "Put" => a.version <= m[a.key].version
  PROVE  Zero' /\ \A o \in Op : (Passed(o) /\ Seen(o))'
<1> USE DEF RefineInv, ServiceInv
<1>1. reply[p] = Nil /\ args'[p] = a /\ pc'[p] = "calling"
  BY DEF begin, Replied, TypeOK
<1>2. \A o \in Op \ {p} : args'[o] = args[o] /\ pc'[o] = pc[o]
  BY DEF begin, TypeOK
<1>3. UNCHANGED <<m, reply, saw>>
  BY DEF begin
<1> QED BY <1>1, <1>2, <1>3 DEF Zero, Passed, Seen

\* The server keeps the refinement invariant.
LEMMA HandleRefineInv ==
  ASSUME RefineInv, TypeOK', NEW r \in net, handle(r)
  PROVE  Zero' /\ \A o \in Op : (Passed(o) /\ Seen(o))'
<1> USE ServiceAssumption DEF RefineInv, ServiceInv
<1> DEFINE p == r.op
           a == args[p]
           rep == IF a.op = "Get" THEN getReply(a) ELSE putReply(a)
           awaited == pc[p] = "waiting" /\ attempt[p] = r.attempt
<1>1. p \in Op
  BY DEF TypeOK, Request
<1>2. pc[p] # "idle" /\ a \in Args /\ a # Nil
  BY <1>1 DEF TypeOK, InFlight, Args
<1>3. a.key \in Key /\ a.version \in Nat /\ a.op \in {"Get", "Put"} /\ m[a.key] \in Node
  BY <1>2 DEF Args, TypeOK
<1>4. m' = IF performs(a)
             THEN [m EXCEPT ![a.key] = [value |-> a.value, version |-> @.version + 1]] ELSE m
  BY DEF handle
<1>5. reply' = IF awaited THEN [reply EXCEPT ![p] = rep] ELSE reply
  BY DEF handle
<1>6. saw' = IF awaited /\ ~ performs(a) THEN [saw EXCEPT ![p] = rep] ELSE saw
  BY DEF handle
<1>7. UNCHANGED <<pc, args>>
  BY DEF handle
<1>8. Zero'
  <2> SUFFICES ASSUME NEW k \in Key, m'[k].version = 0 PROVE m'[k].value = Empty
    BY DEF Zero
  <2>1. CASE performs(a) /\ k = a.key
    <3>1. m'[k].version = m[k].version + 1
      BY <1>3, <1>4, <2>1 DEF TypeOK
    <3> QED BY <3>1, <1>3, <2>1 DEF Node
  <2>2. CASE ~ (performs(a) /\ k = a.key)
    BY <1>3, <1>4, <2>2 DEF TypeOK, Zero
  <2> QED BY <2>1, <2>2
<1>9. ASSUME NEW o \in Op PROVE Passed(o)'
  <2> SUFFICES ASSUME args[o] # Nil, args[o].op = "Put" PROVE
        /\ args[o].version <= m'[args[o].key].version
        /\ reply'[o] # Nil => /\ args[o].version < m'[args[o].key].version
                              /\ reply'[o].err # "ErrNoKey"
    BY <1>7 DEF Passed
  <2>1. args[o] \in Args
    BY DEF TypeOK
  <2>2. args[o].key \in Key /\ args[o].version \in Nat /\ m[args[o].key].version \in Nat
    BY <2>1 DEF Args, TypeOK, Node
  <2>3. m'[args[o].key].version \in Nat
        /\ m'[args[o].key].version >= m[args[o].key].version
    BY <2>2, VersionsGrow
  <2>4. args[o].version <= m[args[o].key].version
    BY DEF Passed
  <2>5. CASE o = p /\ awaited
    <3>1. reply'[o] = putReply(a)
      BY <1>1, <1>5, <2>5 DEF TypeOK
    <3>2. CASE performs(a)
      <4>1. m'[a.key].version = m[a.key].version + 1
        BY <1>3, <1>4, <3>2 DEF TypeOK
      <4> QED BY <2>2, <2>3, <2>4, <2>5, <3>1, <3>2, <4>1 DEF putReply, PutReply
    <3>3. CASE ~ performs(a)
      <4>1. a.version # m[a.key].version
        BY <2>5, <3>3 DEF performs
      <4>2. m[a.key].version # 0 /\ a.version < m[a.key].version
        BY <2>2, <2>4, <2>5, <4>1
      <4> QED BY <2>2, <2>3, <2>5, <3>1, <3>3, <4>2 DEF putReply, PutReply
    <3> QED BY <3>2, <3>3
  <2>6. CASE ~ (o = p /\ awaited)
    <3>1. reply'[o] = reply[o]
      BY <1>1, <1>5, <2>6 DEF TypeOK
    <3> QED BY <2>2, <2>3, <2>4, <3>1 DEF Passed
  <2> QED BY <2>5, <2>6
<1>10. ASSUME NEW o \in Op PROVE Seen(o)'
  <2>1. CASE o = p /\ awaited
    <3>1. reply'[o] = rep
      BY <1>1, <1>5, <2>1 DEF TypeOK
    <3>2. a.op = "Get" => ~ performs(a)
      BY DEF performs
    <3>3. ~ performs(a) => saw'[o] = rep
      BY <1>1, <1>6, <2>1 DEF TypeOK
    <3>4. performs(a) => rep.err = "OK"
      BY <3>2 DEF putReply, PutReply
    <3> QED BY <1>2, <1>7, <2>1, <3>1, <3>2, <3>3, <3>4 DEF Seen
  <2>2. CASE ~ (o = p /\ awaited)
    BY <1>1, <1>5, <1>6, <1>7, <2>2 DEF Seen, TypeOK
  <2> QED BY <2>1, <2>2
<1> QED BY <1>8, <1>9, <1>10

\* With versions that the key has had, the refinement invariant always holds.
THEOREM RefineInvariance ==
  ASSUME Blind = FALSE
  PROVE  Spec => []RefineInv
<1>1. Init => RefineInv
  BY ServiceInit, ServiceAssumption DEF Init, RefineInv, Zero, Passed, Seen
<1>2. ServiceInv' /\ RefineInv /\ [Next]_vars => RefineInv'
  <2> SUFFICES ASSUME ServiceInv', RefineInv, [Next]_vars
               PROVE  Zero' /\ \A o \in Op : (Passed(o) /\ Seen(o))'
    BY DEF RefineInv
  <2> USE ServiceAssumption
  <2>1. TypeOK'
    BY DEF ServiceInv
  <2>2. ASSUME NEW o \in Op, NEW k \in Key, Get(o, k)
        PROVE  Zero' /\ \A q \in Op : (Passed(q) /\ Seen(q))'
    <3>1. [op |-> "Get", key |-> k, value |-> Empty, version |-> 0] \in Args
      BY DEF Args
    <3> QED BY <2>1, <2>2, <3>1, BeginRefineInv DEF Get
  <2>3. ASSUME NEW o \in Op, NEW k \in Key, NEW v \in Value, NEW n \in 0 .. MaxVersion,
               Put(o, k, v, n)
        PROVE  Zero' /\ \A q \in Op : (Passed(q) /\ Seen(q))'
    <3>1. [op |-> "Put", key |-> k, value |-> v, version |-> n] \in Args
      BY DEF Args
    <3>2. n <= m[k].version
      BY <2>3 DEF Put
    <3> QED BY <2>1, <2>3, <3>1, <3>2, BeginRefineInv DEF Put
  <2>4. CASE UNCHANGED vars
    BY <2>4 DEF vars, RefineInv, Zero, Passed, Seen
  <2> QED BY <2>1, <2>2, <2>3, <2>4, ClerkRefineInv, HandleRefineInv DEF Next
<1> QED BY <1>1, <1>2, ServiceInvariance, PTL DEF Spec

\* A step of the server is a step of the store on behalf of the call, or none.
LEMMA HandleRefines ==
  ASSUME RefineInv, TypeOK', NEW r \in net, handle(r)
  PROVE  [Store!StoreNext]_(Store!storeVars)
<1> USE ServiceAssumption DEF RefineInv, ServiceInv
<1> DEFINE p == r.op
           a == args[p]
           rep == IF a.op = "Get" THEN getReply(a) ELSE putReply(a)
           awaited == pc[p] = "waiting" /\ attempt[p] = r.attempt
<1>1. p \in Op
  BY DEF TypeOK, Request
<1>2. pc[p] # "idle" /\ a \in Args /\ a # Nil
  BY <1>1 DEF TypeOK, InFlight, Args
<1>3. a.key \in Key /\ a.version \in Nat /\ a.op \in {"Get", "Put"} /\ m[a.key] \in Node
  BY <1>2 DEF Args, TypeOK
<1>4. UNCHANGED <<args, result>>
  BY DEF handle
<1>5. CASE performs(a)
  <2>1. a.op = "Put" /\ m[a.key].version = a.version
    BY <1>5 DEF performs
  <2>2. reply[p] = Nil
    BY <1>1, <1>2, <1>3, <2>1 DEF Passed
  <2>3. Store!Busy(p)
    BY <1>1, <1>2, <2>2 DEF Store!Busy, Replied, Returned
  <2>4. executed[p] = 0
    <3>1. ~ (m[a.key].version > a.version)
      BY <1>3, <2>1
    <3>2. executed[p] \in Nat /\ executed[p] <= 1 /\ executed[p] # 1
      BY <1>1, <3>1 DEF Once, TypeOK
    <3> QED BY <3>2
  <2>5. [o \in Op |-> executed'[o] > 0] = [[o \in Op |-> executed[o] > 0] EXCEPT ![p] = TRUE]
    <3>1. executed' = [executed EXCEPT ![p] = @ + 1]
      BY <1>5 DEF handle
    <3>2. executed'[p] > 0 /\ \A o \in Op \ {p} : executed'[o] = executed[o]
      BY <1>1, <2>4, <3>1 DEF TypeOK
    <3> QED BY <1>1, <3>2, Zenon
  <2>6. m' = [m EXCEPT ![a.key] = [value |-> a.value, version |-> a.version + 1]]
    BY <1>3, <1>5, <2>1 DEF handle
  <2>7. saw' = saw
    BY <1>5 DEF handle
  <2>8. ~ [o \in Op |-> executed[o] > 0][p]
    <3>1. ~ (executed[p] > 0)
      BY <2>4
    <3> QED BY <1>1, <3>1, Zenon
  <2>9. Store!Apply(p)
    BY <1>4, <2>1, <2>3, <2>5, <2>6, <2>7, <2>8 DEF Store!Apply
  <2> QED BY <1>1, <2>9 DEF Store!StoreNext
<1>6. CASE ~ performs(a) /\ awaited
  <2>1. m' = m /\ executed' = executed /\ saw' = [saw EXCEPT ![p] = rep]
    BY <1>6 DEF handle
  <2>2. Store!Busy(p)
    BY <1>1, <1>2, <1>6 DEF Store!Busy, Returned
  <2>3. a.op = "Get" => rep = Store!Contents(m[a.key])
    BY <1>3 DEF getReply, Store!Contents, Zero
  <2>4. a.op = "Put" => m[a.key].version # a.version /\ rep = Store!Refusal(m[a.key])
    BY <1>6 DEF performs, putReply, PutReply, Store!Refusal, Store!Error
  <2>5. Store!Observe(p)
    BY <1>3, <1>4, <2>1, <2>2, <2>3, <2>4 DEF Store!Observe
  <2> QED BY <1>1, <2>5 DEF Store!StoreNext
<1>7. CASE ~ performs(a) /\ ~ awaited
  <2>1. UNCHANGED <<m, executed, saw>>
    BY <1>7 DEF handle
  <2> QED BY <1>4, <2>1 DEF Store!storeVars, Store!callVars
<1> QED BY <1>5, <1>6, <1>7

\* Starting a call is an invocation of the store.
LEMMA BeginRefines ==
  ASSUME RefineInv, NEW p \in Op, NEW a \in Args, begin(p, a)
  PROVE  Store!StoreNext
<1> USE ServiceAssumption DEF RefineInv, ServiceInv
<1>1. pc[p] = "idle" /\ args[p] = Nil /\ result[p] = Nil /\ saw[p] = Nil /\ executed[p] = 0
  <2>1. pc[p] = "idle"
    BY DEF begin
  <2>2. executed[p] \in Nat /\ executed[p] <= 1 /\ executed[p] # 1
    BY <2>1 DEF Once, TypeOK
  <2>3. executed[p] = 0
    BY <2>2
  <2> QED BY <2>1, <2>3 DEF TypeOK, Returned, Seen
<1>2. args' = [args EXCEPT ![p] = a] /\ UNCHANGED <<m, result, executed, saw>>
  BY DEF begin
<1>3. args'[p] = a /\ args'[p] \in Store!Args
  BY <1>2 DEF TypeOK, Args, Store!Args
<1>4. [[o \in Op |-> executed[o] > 0] EXCEPT ![p] = FALSE] = [o \in Op |-> executed[o] > 0]
  <2>1. (executed[p] > 0) = FALSE
    BY <1>1
  <2> QED BY <2>1, Zenon
<1>5. [saw EXCEPT ![p] = Nil] = saw /\ [result EXCEPT ![p] = Nil] = result
  BY <1>1 DEF TypeOK
<1> QED BY <1>1, <1>2, <1>3, <1>4, <1>5 DEF Store!StoreNext, Store!Invoke, Store!Busy

\* What a call returns is one of the answers that the store allows.
LEMMA ReturnRefines ==
  ASSUME RefineInv, NEW p \in Op, callReturns(p)
  PROVE  Store!StoreNext
<1> USE ServiceAssumption DEF RefineInv, ServiceInv
<1>1. pc[p] = "waiting" /\ reply[p] # Nil /\ result[p] = Nil /\ args[p] # Nil /\ args[p] \in Args
  BY DEF callReturns, TypeOK, Returned
<1>2. args[p].op \in {"Get", "Put"} /\ reply[p] \in Reply
  BY <1>1 DEF Args, TypeOK
<1>3. returned(p) \in Store!Answers(p)
  <2>1. CASE args[p].op = "Get"
    BY <1>1, <2>1 DEF Seen, returned, Store!Answers
  <2>2. CASE args[p].op = "Put" /\ reply[p].err = "OK"
    <3>1. executed[p] = 1 /\ reply[p] = Store!Error("OK")
      BY <1>1, <2>2 DEF Replied, PutReply, Store!Error
    <3>2. [o \in Op |-> executed[o] > 0][p]
      <4>1. executed[p] > 0
        BY <3>1
      <4> QED BY <4>1, Zenon
    <3> QED BY <2>2, <3>1, <3>2 DEF returned, Store!Answers
  <2>3. CASE args[p].op = "Put" /\ reply[p].err = "ErrVersion"
    <3>1. saw[p] = reply[p] /\ reply[p] = Store!Error("ErrVersion")
      BY <1>1, <2>3 DEF Seen, Replied, PutReply, Store!Error
    <3>2. CASE resent[p]
      BY <2>3, <3>1, <3>2 DEF returned, Store!Answers, PutReply, Store!Error
    <3>3. CASE ~ resent[p]
      <4>1. executed[p] = 0
        BY <1>1, <2>3, <3>3 DEF Replied
      <4>2. ~ [o \in Op |-> executed[o] > 0][p]
        <5>1. ~ (executed[p] > 0)
          BY <4>1
        <5> QED BY <5>1, Zenon
      <4> QED BY <1>1, <2>3, <3>1, <3>3, <4>2 DEF returned, Store!Answers
    <3> QED BY <3>2, <3>3
  <2>4. args[p].op = "Put" => reply[p].err \in {"OK", "ErrVersion"}
    BY <1>1, <1>2 DEF Passed, Replied, Reply
  <2> QED BY <1>2, <2>1, <2>2, <2>3, <2>4
<1>4. result' = [result EXCEPT ![p] = returned(p)] /\ UNCHANGED <<m, args, executed, saw>>
  BY DEF callReturns
<1>5. Store!Respond(p)
  BY <1>1, <1>3, <1>4 DEF Store!Respond, Store!Busy
<1> QED BY <1>5 DEF Store!StoreNext

\* Server, clerk and network implement the abstract store for every set of calls, keys and
\* values and any number of repetitions: each call takes effect once, between invocation
\* and answer, provided that callers pass versions the key has had.
THEOREM ServiceRefinesStore ==
  ASSUME Blind = FALSE
  PROVE  Spec => Linearizable
<1>1. Init => Store!StoreInit
  <2> SUFFICES ASSUME Init PROVE Store!StoreInit
    OBVIOUS
  <2>1. \A o \in Op : (executed[o] > 0) = FALSE
    BY DEF Init
  <2>2. [o \in Op |-> executed[o] > 0] = [o \in Op |-> FALSE]
    BY <2>1, Zenon
  <2> QED BY <2>2, Zenon DEF Init, Store!StoreInit, Store!NoNode
<1>2. RefineInv /\ RefineInv' /\ [Next]_vars => [Store!StoreNext]_(Store!storeVars)
  <2> SUFFICES ASSUME RefineInv, RefineInv', [Next]_vars
               PROVE  [Store!StoreNext]_(Store!storeVars)
    OBVIOUS
  <2> USE ServiceAssumption
  <2>1. ASSUME NEW o \in Op, NEW k \in Key, Get(o, k) PROVE Store!StoreNext
    <3>1. [op |-> "Get", key |-> k, value |-> Empty, version |-> 0] \in Args
      BY DEF Args
    <3> QED BY <2>1, <3>1, BeginRefines DEF Get
  <2>2. ASSUME NEW o \in Op, NEW k \in Key, NEW v \in Value, NEW n \in 0 .. MaxVersion,
               Put(o, k, v, n)
        PROVE  Store!StoreNext
    <3>1. [op |-> "Put", key |-> k, value |-> v, version |-> n] \in Args
      BY DEF Args
    <3> QED BY <2>2, <3>1, BeginRefines DEF Put
  <2>3. ASSUME NEW o \in Op, Call(o) \/ callFails(o)
        PROVE  UNCHANGED Store!storeVars
    <3>1. UNCHANGED <<m, args, executed, saw, result>>
      BY <2>3 DEF Call, callFails
    <3> QED BY <3>1 DEF Store!storeVars, Store!callVars
  <2>4. CASE UNCHANGED vars
    BY <2>4 DEF vars, Store!storeVars, Store!callVars
  <2>5. TypeOK'
    BY DEF RefineInv, ServiceInv
  <2> QED BY <2>1, <2>2, <2>3, <2>4, <2>5, HandleRefines, ReturnRefines DEF Next
<1> QED BY <1>1, <1>2, RefineInvariance, PTL DEF Spec, Linearizable, Store!StoreSpec

=============================================================================
