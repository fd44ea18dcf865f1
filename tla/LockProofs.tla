----------------------------- MODULE LockProofs -----------------------------
(***************************************************************************)
(* The lock excludes for any number of clients, and its holder always      *)
(* knows the version that its Release will need.                           *)
(*                                                                         *)
(* The argument is about who may write the key.  Only a Put whose version  *)
(* is the current one changes it, an Acquire only passes versions at which *)
(* it saw the key free, and equal versions mean equal values.  So while    *)
(* the key holds a client's id nobody but that client writes it.           *)
(***************************************************************************)
EXTENDS Lock, TLAPS

\* A call that was seen to contain something contained it at that version
Known(c) ==
  args[c] # Nil /\ args[c].op = "Get" =>
    /\ answer[c] # Nil => answer[c] = saw[c]
    /\ saw[c] # Nil =>
         /\ saw[c].err = IF saw[c].version = 0 THEN "ErrNoKey" ELSE "OK"
         /\ saw[c].version <= store[name].version
         /\ saw[c].version = store[name].version => saw[c].value = store[name].value

\* What a Put is answered
PutKnown(c) ==
  args[c] # Nil /\ args[c].op = "Put" =>
    /\ saw[c] # Nil => saw[c].err \in {"ErrNoKey", "ErrVersion"}
    /\ answer[c] # Nil /\ answer[c].err = "OK" => applied[c]

\* Which call a client makes at each place of its program
Calls(c) ==
  /\ pc[c] \in {"out", "held"} => ~ Busy(c)
  /\ pc[c] \in {"acquireGet", "releaseGet"} => args[c] = GetArgs(name)
  /\ pc[c] = "acquirePut" => args[c] = PutArgs(name, c, args[c].version) /\ args[c] # Nil
  /\ pc[c] = "releasePut" => args[c] = PutArgs(name, Empty, args[c].version)

Owns(c, n) == store[name] = [value |-> c, version |-> n]

\* An Acquire claims the key only at a version at which it is free, and finds its id
\* only if it has not been touched since
Acquiring(c) ==
  /\ pc[c] = "acquirePut" =>
       /\ args[c].version <= store[name].version
       /\ ~ applied[c] /\ args[c].version = store[name].version => store[name].value = Empty
       /\ applied[c] => Owns(c, args[c].version + 1)
  /\ pc[c] = "acquireGet" /\ saw[c] # Nil /\ saw[c].value = c => Owns(c, saw[c].version)

\* A Release finds the key as the holder left it
Releasing(c) ==
  /\ pc[c] = "held" => Owns(c, version[c])
  /\ pc[c] = "releasePut" =>
       /\ ~ applied[c] => Owns(c, args[c].version) /\ saw[c] = Nil /\ answer[c] = Nil
       /\ applied[c] => store[name].value # c
       /\ answer[c] # Nil => answer[c].err \in {"OK", "ErrMaybe"}
  /\ pc[c] = "releaseGet" =>
       store[name].value # c /\ (saw[c] # Nil => saw[c].value # c)

ClientInv(c) ==
  Known(c) /\ PutKnown(c) /\ Calls(c) /\ Acquiring(c) /\ Releasing(c)

LockInv ==
  /\ LockTypeOK
  /\ store[name].version = 0 => store[name].value = Empty
  /\ \A c \in Clerk : ClientInv(c)

-----------------------------------------------------------------------------
\* The variables of client c that its invariant reads
mine(c) == <<args[c], applied[c], saw[c], answer[c], pc[c], version[c]>>

\* A step leaves the invariant of a client alone that it does not touch, nor the store.
LEMMA Untouched ==
  ASSUME NEW c \in Clerk, ClientInv(c), UNCHANGED <<store, mine(c)>>
  PROVE  ClientInv(c)'
BY DEF ClientInv, Known, PutKnown, Calls, Acquiring, Releasing, Owns, mine, Busy

\* The initial state satisfies the invariant.
LEMMA LockInit == Init => LockInv
BY StoreAssumption, LockAssumption
   DEF Init, StoreInit, LockInv, LockTypeOK, ClientInv, Known, PutKnown, Calls, Acquiring,
       Releasing, NoNode, Node, Busy

\* The calls have their types.
LEMMA CallTypes ==
  /\ GetArgs(name) \in Args
  /\ \A v \in Value, n \in Nat : PutArgs(name, v, n) \in Args
BY StoreAssumption, LockAssumption DEF GetArgs, PutArgs, Args

\* Types are preserved.
LEMMA LockType ==
  ASSUME LockInv, [Next]_vars
  PROVE  LockTypeOK'
<1> USE StoreAssumption, LockAssumption DEF LockInv
<1>1. ASSUME NEW c \in Clerk, NEW a \in Args, Invoke(c, a),
             pc' \in [Clerk -> {"out", "acquireGet", "acquirePut", "held", "releasePut", "releaseGet"}],
             version' \in [Clerk -> Nat]
      PROVE  LockTypeOK'
  BY <1>1 DEF Invoke, LockTypeOK
<1>2. ASSUME NEW c \in Clerk, answer[c] # Nil
      PROVE  answer[c].version \in Nat
  BY <1>2 DEF LockTypeOK, Answer
<1>3. ASSUME NEW c \in Clerk, args[c] # Nil
      PROVE  args[c] \in Args /\ args[c].version \in Nat /\ args[c].key \in Key
             /\ args[c].value \in Value
  BY <1>3 DEF LockTypeOK, Args
<1>4. ASSUME NEW c \in Clerk, Acquire(c) PROVE LockTypeOK'
  BY <1>1, <1>4, CallTypes DEF Acquire, goto, LockTypeOK
<1>5. ASSUME NEW c \in Clerk, acquireGot(c) PROVE LockTypeOK'
  <2>1. answer[c].version \in Nat
    BY <1>2, <1>5 DEF acquireGot, returned
  <2>2. PutArgs(name, c, answer[c].version) \in Args
    BY <2>1, CallTypes
  <2>3. CASE UNCHANGED storeVars /\ goto(c, "held")
                /\ version' = [version EXCEPT ![c] = answer[c].version]
    BY <2>1, <2>3 DEF storeVars, callVars, goto, LockTypeOK
  <2>4. CASE Invoke(c, PutArgs(name, c, answer[c].version)) /\ goto(c, "acquirePut")
                /\ UNCHANGED version
    BY <1>1, <2>2, <2>4 DEF goto, LockTypeOK
  <2>5. CASE Invoke(c, GetArgs(name)) /\ UNCHANGED <<pc, version>>
    BY <1>1, <2>5, CallTypes DEF LockTypeOK
  <2> QED BY <1>5, <2>3, <2>4, <2>5 DEF acquireGot
<1>6. ASSUME NEW c \in Clerk, acquirePutDone(c) PROVE LockTypeOK'
  <2>1. claimedVersion(c) \in Nat
    BY <1>3, <1>6 DEF acquirePutDone, returned, claimedVersion
  <2>2. CASE UNCHANGED storeVars
    BY <1>6, <2>1, <2>2, StoreAssumption
       DEF acquirePutDone, storeVars, callVars, goto, LockTypeOK, Invoke, returned
  <2>3. CASE Invoke(c, GetArgs(name)) /\ goto(c, "acquireGet") /\ UNCHANGED version
    BY <1>1, <2>3, CallTypes DEF goto, LockTypeOK
  <2> QED BY <1>6, <2>2, <2>3 DEF acquirePutDone
<1>7. ASSUME NEW c \in Clerk, Release(c) PROVE LockTypeOK'
  <2>1. PutArgs(name, Empty, version[c]) \in Args
    BY CallTypes DEF LockTypeOK
  <2> QED BY <1>1, <1>7, <2>1 DEF Release, goto, LockTypeOK
<1>8. ASSUME NEW c \in Clerk, releasePutDone(c) PROVE LockTypeOK'
  <2>1. CASE goto(c, "out") /\ UNCHANGED <<storeVars, version>>
    BY <2>1 DEF storeVars, callVars, goto, LockTypeOK
  <2>2. CASE Invoke(c, GetArgs(name)) /\ goto(c, "releaseGet") /\ UNCHANGED version
    BY <1>1, <2>2, CallTypes DEF goto, LockTypeOK
  <2> QED BY <1>8, <2>1, <2>2 DEF releasePutDone
<1>9. ASSUME NEW c \in Clerk, releaseGot(c) PROVE LockTypeOK'
  <2>1. PutArgs(name, Empty, answer[c].version) \in Args
    BY <1>2, <1>9, CallTypes DEF releaseGot, returned
  <2>2. CASE goto(c, "out") /\ UNCHANGED <<storeVars, version>>
    BY <2>2 DEF storeVars, callVars, goto, LockTypeOK
  <2>3. CASE Invoke(c, PutArgs(name, Empty, answer[c].version)) /\ goto(c, "releasePut")
                /\ UNCHANGED version
    BY <1>1, <2>1, <2>3 DEF goto, LockTypeOK
  <2> QED BY <1>9, <2>2, <2>3 DEF releaseGot
<1>10. ASSUME NEW c \in Clerk, Apply(c), UNCHANGED <<pc, version>> PROVE LockTypeOK'
  <2>1. [value |-> args[c].value, version |-> args[c].version + 1] \in Node
    BY <1>3, <1>10 DEF Apply, Busy, Node
  <2> QED BY <1>3, <1>10, <2>1 DEF Apply, Busy, LockTypeOK
<1>11. ASSUME NEW c \in Clerk, Observe(c), UNCHANGED <<pc, version>> PROVE LockTypeOK'
  <2>1. store[args[c].key] \in Node
    BY <1>3, <1>11 DEF Observe, Busy, LockTypeOK
  <2>2. Contents(store[args[c].key]) \in Answer /\ Refusal(store[args[c].key]) \in Answer
    BY <2>1 DEF Contents, Refusal, Error, Answer, Node
  <2> QED BY <1>11, <2>2 DEF Observe, LockTypeOK
<1>12. ASSUME NEW c \in Clerk, Respond(c), UNCHANGED <<pc, version>> PROVE LockTypeOK'
  <2>1. \A r \in Answers(c) : r \in Answer
    BY DEF Answers, LockTypeOK, Error, Answer
  <2> QED BY <1>12, <2>1 DEF Respond, LockTypeOK
<1>13. CASE UNCHANGED vars
  BY <1>13 DEF vars, storeVars, callVars, LockTypeOK
<1> QED
  BY <1>4, <1>5, <1>6, <1>7, <1>8, <1>9, <1>10, <1>11, <1>12, <1>13
     DEF Next, clientStep, storeStep

-----------------------------------------------------------------------------
\* A client that starts a call knows nothing of its outcome; the others do not notice.
LEMMA InvokeInv ==
  ASSUME LockInv, LockTypeOK', NEW c \in Clerk, NEW a \in Args, NEW l, Invoke(c, a),
         pc' = [pc EXCEPT ![c] = l], version' = version,
         \/ l \in {"acquireGet", "releaseGet"} /\ a = GetArgs(name)
         \/ /\ l = "acquirePut" /\ a = PutArgs(name, c, a.version)
            /\ a.version <= store[name].version
            /\ a.version = store[name].version => store[name].value = Empty
         \/ l = "releasePut" /\ a = PutArgs(name, Empty, a.version) /\ Owns(c, a.version),
         l = "releaseGet" => store[name].value # c
  PROVE  LockInv'
<1> USE StoreAssumption, LockAssumption DEF LockInv
<1>1. /\ args'[c] = a /\ answer'[c] = Nil /\ saw'[c] = Nil /\ applied'[c] = FALSE
      /\ pc'[c] = l /\ store' = store /\ version'[c] = version[c]
  BY DEF Invoke, LockTypeOK
<1>2. ClientInv(c)'
  <2>1. Known(c)' /\ PutKnown(c)'
    BY <1>1 DEF Known, PutKnown
  <2>2. Calls(c)'
    <3>1. a # Nil
      BY DEF Args
    <3> QED BY <1>1, <3>1 DEF Calls
  <2>3. Acquiring(c)'
    BY <1>1 DEF Acquiring, Owns
  <2>4. Releasing(c)'
    BY <1>1 DEF Releasing, Owns
  <2> QED BY <2>1, <2>2, <2>3, <2>4 DEF ClientInv
<1>3. \A d \in Clerk \ {c} : ClientInv(d)'
  <2> SUFFICES ASSUME NEW d \in Clerk \ {c} PROVE ClientInv(d)'
    OBVIOUS
  <2>1. UNCHANGED <<store, mine(d)>>
    BY DEF Invoke, mine, LockTypeOK
  <2> QED BY <2>1, Untouched
<1> QED BY <1>1, <1>2, <1>3

\* A client that goes on without a call.
LEMMA MoveInv ==
  ASSUME LockInv, LockTypeOK', NEW c \in Clerk, NEW l \in {"out", "held"}, returned(c),
         UNCHANGED storeVars, pc' = [pc EXCEPT ![c] = l],
         \A d \in Clerk \ {c} : version'[d] = version[d],
         l = "held" => Owns(c, version'[c])
  PROVE  LockInv'
<1> USE DEF LockInv
<1>1. UNCHANGED <<store, args, applied, saw, answer>> /\ pc'[c] = l
  BY DEF storeVars, callVars, LockTypeOK
<1>2. ClientInv(c)'
  BY <1>1 DEF ClientInv, Known, PutKnown, Calls, Acquiring, Releasing, Owns, Busy, returned
<1>3. \A d \in Clerk \ {c} : ClientInv(d)'
  <2> SUFFICES ASSUME NEW d \in Clerk \ {c} PROVE ClientInv(d)'
    OBVIOUS
  <2>1. UNCHANGED <<store, mine(d)>>
    BY <1>1 DEF mine, LockTypeOK
  <2> QED BY <2>1, Untouched
<1> QED BY <1>1, <1>2, <1>3

\* The steps of a client keep the invariant.
LEMMA ClientStepInv ==
  ASSUME LockInv, LockTypeOK', NEW c \in Clerk, Acquire(c) \/ clientStep(c)
  PROVE  LockInv'
<1> USE StoreAssumption, LockAssumption
<1>0. LockTypeOK /\ ClientInv(c) /\ (store[name].version = 0 => store[name].value = Empty)
  BY DEF LockInv
<1>1. store[name] \in Node /\ store[name].version \in Nat
  BY <1>0 DEF LockTypeOK, Node
<1>2. answer[c] # Nil => answer[c].version \in Nat
  BY <1>0 DEF LockTypeOK, Answer
<1>3. args[c] # Nil => args[c].version \in Nat
  BY <1>0 DEF LockTypeOK, Args
<1>4. CASE Acquire(c)
  BY <1>4, CallTypes, InvokeInv DEF Acquire, goto
<1>5. CASE acquireGot(c)
  <2>1. pc[c] = "acquireGet" /\ args[c] = GetArgs(name) /\ answer[c] # Nil /\ answer[c] = saw[c]
    BY <1>0, <1>5 DEF acquireGot, returned, ClientInv, Calls, Known, GetArgs
  <2>2. CASE owns(c) /\ goto(c, "held") /\ version' = [version EXCEPT ![c] = answer[c].version]
             /\ UNCHANGED storeVars
    <3>1. Owns(c, answer[c].version)
      BY <1>0, <2>1, <2>2 DEF owns, ClientInv, Acquiring
    <3>2. version'[c] = answer[c].version /\ \A d \in Clerk \ {c} : version'[d] = version[d]
      BY <1>0, <2>2 DEF LockTypeOK
    <3>3. returned(c) /\ pc' = [pc EXCEPT ![c] = "held"]
      BY <1>5, <2>2 DEF acquireGot, goto
    <3> QED BY <2>2, <3>1, <3>2, <3>3, MoveInv
  <2>3. CASE claimable(c) /\ Invoke(c, PutArgs(name, c, answer[c].version))
             /\ goto(c, "acquirePut") /\ UNCHANGED version
    <3>1. answer[c].version <= store[name].version
      BY <1>0, <2>1 DEF ClientInv, Known, GetArgs
    <3>2. answer[c].version = store[name].version => store[name].value = Empty
      BY <1>0, <2>1, <2>3 DEF ClientInv, Known, GetArgs, claimable
    <3>3. PutArgs(name, c, answer[c].version) \in Args
          /\ PutArgs(name, c, answer[c].version).version = answer[c].version
      BY <1>2, <2>1, CallTypes DEF PutArgs
    <3> QED BY <2>3, <3>1, <3>2, <3>3, InvokeInv DEF goto
  <2>4. CASE Invoke(c, GetArgs(name)) /\ UNCHANGED <<pc, version>>
    <3>1. pc' = [pc EXCEPT ![c] = "acquireGet"]
      BY <1>0, <2>1, <2>4 DEF LockTypeOK
    <3> QED BY <2>4, <3>1, CallTypes, InvokeInv
  <2> QED BY <1>5, <2>2, <2>3, <2>4 DEF acquireGot
<1>6. CASE acquirePutDone(c)
  <2>1. pc[c] = "acquirePut" /\ answer[c] # Nil /\ args[c] # Nil /\ args[c].op = "Put"
    BY <1>0, <1>6 DEF acquirePutDone, returned, ClientInv, Calls, PutArgs
  <2>2. CASE claimed(c) /\ goto(c, "held") /\ UNCHANGED storeVars
             /\ version' = [version EXCEPT ![c] = claimedVersion(c)]
    <3>1. Owns(c, claimedVersion(c))
      BY <1>0, <2>1, <2>2 DEF claimed, claimedVersion, ClientInv, Acquiring, PutKnown
    <3>2. version'[c] = claimedVersion(c) /\ \A d \in Clerk \ {c} : version'[d] = version[d]
      BY <1>0, <2>2 DEF LockTypeOK
    <3>3. returned(c) /\ pc' = [pc EXCEPT ![c] = "held"]
      BY <1>6, <2>2 DEF acquirePutDone, goto
    <3> QED BY <2>2, <3>1, <3>2, <3>3, MoveInv
  <2>3. CASE Invoke(c, GetArgs(name)) /\ goto(c, "acquireGet") /\ UNCHANGED version
    BY <2>3, CallTypes, InvokeInv DEF goto
  <2> QED BY <1>6, <2>2, <2>3 DEF acquirePutDone
<1>7. CASE Release(c)
  <2>1. Owns(c, version[c])
    BY <1>0, <1>7 DEF Release, ClientInv, Releasing
  <2>2. PutArgs(name, Empty, version[c]) \in Args
        /\ PutArgs(name, Empty, version[c]).version = version[c]
    BY <1>0, CallTypes DEF LockTypeOK, PutArgs
  <2> QED BY <1>7, <2>1, <2>2, InvokeInv DEF Release, goto
<1>8. CASE releasePutDone(c)
  <2>1. CASE goto(c, "out") /\ UNCHANGED <<storeVars, version>>
    BY <1>8, <2>1, MoveInv DEF releasePutDone, goto
  <2>2. CASE Invoke(c, GetArgs(name)) /\ goto(c, "releaseGet") /\ UNCHANGED version
    <3>1. store[name].value # c
      BY <1>0, <1>8 DEF releasePutDone, returned, ClientInv, Releasing, LockTypeOK
    <3> QED BY <2>2, <3>1, CallTypes, InvokeInv DEF goto
  <2> QED BY <1>8, <2>1, <2>2 DEF releasePutDone
<1>9. CASE releaseGot(c)
  <2>1. ~ owns(c)
    BY <1>0, <1>9 DEF releaseGot, returned, owns, ClientInv, Releasing, Calls, Known, GetArgs
  <2> QED BY <1>9, <2>1, MoveInv DEF releaseGot, goto
<1> QED BY <1>4, <1>5, <1>6, <1>7, <1>8, <1>9 DEF clientStep

\* While a client owns the key, nobody else's Put is performed.
LEMMA OwnerAlone ==
  ASSUME LockInv, NEW c \in Clerk, NEW d \in Clerk, Apply(d), store[name].value = c
  PROVE  d = c /\ pc[c] = "releasePut"
<1> USE LockAssumption
<1>1. args[d] # Nil /\ args[d].op = "Put" /\ ~ applied[d] /\ answer[d] = Nil
      /\ store[args[d].key].version = args[d].version
  BY DEF Apply, Busy
<1>2. pc[d] \in {"acquirePut", "releasePut"} /\ args[d].key = name
  BY <1>1 DEF LockInv, ClientInv, Calls, Busy, GetArgs, PutArgs, LockTypeOK
<1>3. pc[d] # "acquirePut"
  BY <1>1, <1>2 DEF LockInv, ClientInv, Acquiring
<1>4. pc[d] = "releasePut" /\ Owns(d, args[d].version)
  BY <1>1, <1>2, <1>3 DEF LockInv, ClientInv, Releasing
<1>5. store[name].value = d
  BY <1>4 DEF Owns
<1> QED BY <1>4, <1>5

\* A Put is performed: the versions move on, and only the writer is affected.
LEMMA ApplyInv ==
  ASSUME LockInv, LockTypeOK', NEW d \in Clerk, Apply(d), UNCHANGED <<pc, version>>
  PROVE  LockInv'
<1> USE StoreAssumption, LockAssumption
<1> DEFINE a == args[d]
<1>1. a # Nil /\ a.op = "Put" /\ ~ applied[d] /\ answer[d] = Nil
      /\ store[a.key].version = a.version
  BY DEF Apply, Busy
<1>2. pc[d] \in {"acquirePut", "releasePut"} /\ a.key = name
  BY <1>1 DEF LockInv, ClientInv, Calls, Busy, GetArgs, PutArgs, LockTypeOK
<1>3. a.version \in Nat /\ a.value \in Value
  BY <1>1 DEF LockInv, LockTypeOK, Args
<1>4. store'[name] = [value |-> a.value, version |-> a.version + 1]
      /\ store[name].version = a.version
  BY <1>1, <1>2 DEF Apply, LockInv, LockTypeOK
<1>5. applied' = [applied EXCEPT ![d] = TRUE] /\ UNCHANGED <<args, saw, answer, pc, version>>
  BY DEF Apply
<1>6. applied'[d] = TRUE /\ \A c \in Clerk \ {d} : applied'[c] = applied[c]
  BY <1>5 DEF LockInv, LockTypeOK
<1>7. pc[d] = "acquirePut" => a.value = d
  <2>1. pc[d] = "acquirePut" => a = PutArgs(name, d, a.version)
    BY DEF LockInv, ClientInv, Calls
  <2>2. PutArgs(name, d, a.version).value = d
    BY DEF PutArgs
  <2> QED BY <2>1, <2>2
<1>8. pc[d] = "releasePut" => a.value = Empty
  <2>1. pc[d] = "releasePut" => a = PutArgs(name, Empty, a.version)
    BY DEF LockInv, ClientInv, Calls
  <2>2. PutArgs(name, Empty, a.version).value = Empty
    BY DEF PutArgs
  <2> QED BY <2>1, <2>2
<1>9. ASSUME NEW c \in Clerk, args[c] # Nil PROVE args[c].version \in Nat
  BY <1>9 DEF LockInv, LockTypeOK, Args
<1>10. ASSUME NEW c \in Clerk, saw[c] # Nil PROVE saw[c].version \in Nat
  BY <1>10 DEF LockInv, LockTypeOK, Answer
<1>11. ASSUME NEW c \in Clerk PROVE Known(c)'
  BY <1>3, <1>4, <1>5, <1>10 DEF LockInv, ClientInv, Known
<1>12. ASSUME NEW c \in Clerk PROVE PutKnown(c)'
  BY <1>5, <1>6 DEF LockInv, ClientInv, PutKnown
<1>13. ASSUME NEW c \in Clerk PROVE Calls(c)'
  BY <1>5 DEF LockInv, ClientInv, Calls, Busy
<1>14. ASSUME NEW c \in Clerk PROVE Acquiring(c)'
  <2>1. CASE c = d
    BY <1>2, <1>3, <1>4, <1>5, <1>6, <1>7, <2>1 DEF Acquiring, Owns
  <2>2. CASE c # d
    <3>1. store[name].value # c
      BY <2>2, OwnerAlone
    <3>2. pc[c] = "acquirePut" => ~ applied[c] /\ args[c].version <= store[name].version
                                    /\ args[c].version \in Nat
      <4> SUFFICES ASSUME pc[c] = "acquirePut"
                   PROVE  ~ applied[c] /\ args[c].version <= store[name].version
                            /\ args[c].version \in Nat
        OBVIOUS
      <4>1. ClientInv(c)
        BY DEF LockInv
      <4>2. args[c].version <= store[name].version
            /\ (applied[c] => Owns(c, args[c].version + 1))
        BY <4>1 DEF ClientInv, Acquiring
      <4>3. ~ Owns(c, args[c].version + 1)
        BY <3>1 DEF Owns
      <4>4. args[c] # Nil
        BY <4>1 DEF ClientInv, Calls
      <4> QED BY <1>9, <4>2, <4>3, <4>4
    <3>3. pc[c] = "acquireGet" => ~ (saw[c] # Nil /\ saw[c].value = c)
      <4>1. ~ Owns(c, saw[c].version)
        BY <3>1 DEF Owns
      <4> QED BY <4>1 DEF LockInv, ClientInv, Acquiring
    <3> QED BY <1>3, <1>4, <1>5, <1>6, <2>2, <3>2, <3>3 DEF Acquiring
  <2> QED BY <2>1, <2>2
<1>15. ASSUME NEW c \in Clerk PROVE Releasing(c)'
  <2>1. CASE c = d
    <3>1. pc[d] = "releasePut" => a.value # d
      BY <1>8
    <3> QED BY <1>1, <1>2, <1>4, <1>5, <1>6, <2>1, <3>1 DEF Releasing
  <2>2. CASE c # d
    <3>1. store[name].value # c
      BY <2>2, OwnerAlone
    <3>2. store'[name].value # c
      BY <1>2, <1>4, <1>7, <1>8, <2>2
    <3>3. pc[c] # "held" /\ (pc[c] = "releasePut" => applied[c])
      <4>1. ~ Owns(c, version[c]) /\ ~ Owns(c, args[c].version)
        BY <3>1 DEF Owns
      <4> QED BY <4>1 DEF LockInv, ClientInv, Releasing
    <3> QED BY <1>5, <1>6, <2>2, <3>2, <3>3 DEF LockInv, ClientInv, Releasing
  <2> QED BY <2>1, <2>2
<1>16. store'[name].version # 0
  BY <1>3, <1>4
<1> QED BY <1>11, <1>12, <1>13, <1>14, <1>15, <1>16 DEF LockInv, ClientInv

\* The store looks at the key, or answers, for client d.
LEMMA ObserveInv ==
  ASSUME LockInv, LockTypeOK', NEW d \in Clerk, Observe(d) \/ Respond(d),
         UNCHANGED <<pc, version>>
  PROVE  LockInv'
<1> USE StoreAssumption, LockAssumption
<1>1. UNCHANGED <<store, args, applied, pc, version>> /\ args[d] # Nil /\ answer[d] = Nil
  BY DEF Observe, Respond, Busy
<1>2. LockTypeOK /\ ClientInv(d) /\ store[name] \in Node
  BY DEF LockInv, LockTypeOK
<1>3. args[d].op \in {"Get", "Put"} /\ pc[d] \notin {"out", "held"} /\ args[d].key = name
      /\ args[d].version \in Nat
  BY <1>1, <1>2 DEF LockTypeOK, Args, ClientInv, Calls, Busy, GetArgs, PutArgs
<1>4. \A c \in Clerk \ {d} : ClientInv(c)'
  <2> SUFFICES ASSUME NEW c \in Clerk \ {d} PROVE ClientInv(c)'
    OBVIOUS
  <2>1. UNCHANGED <<store, mine(c)>>
    BY DEF Observe, Respond, mine, LockInv, LockTypeOK
  <2> QED BY <2>1, Untouched DEF LockInv
<1>5. CASE Observe(d) /\ args[d].op = "Get"
  <2>1. saw'[d] = Contents(store[name]) /\ answer'[d] = Nil
    BY <1>1, <1>2, <1>3, <1>5 DEF Observe, LockTypeOK
  <2>2. /\ saw'[d].version = store[name].version /\ saw'[d].value = store[name].value
        /\ saw'[d].err = IF store[name].version = 0 THEN "ErrNoKey" ELSE "OK"
        /\ store[name] = [value |-> store[name].value, version |-> store[name].version]
        /\ store[name].version \in Nat
    BY <1>2, <2>1 DEF Contents, Node
  <2>3. pc[d] \in {"acquireGet", "releaseGet"}
    BY <1>2, <1>3, <1>5 DEF ClientInv, Calls, PutArgs, LockTypeOK
  <2>4. Known(d)' /\ PutKnown(d)' /\ Calls(d)'
    BY <1>1, <1>2, <1>5, <2>1, <2>2 DEF ClientInv, Known, PutKnown, Calls, Busy
  <2>5. Acquiring(d)' /\ Releasing(d)'
    BY <1>1, <1>2, <2>2, <2>3 DEF ClientInv, Acquiring, Releasing, Owns
  <2> QED BY <1>1, <1>4, <2>4, <2>5 DEF LockInv, ClientInv
<1>6. CASE Observe(d) /\ args[d].op = "Put"
  <2>1. saw'[d] = Refusal(store[name]) /\ answer'[d] = Nil /\ store[name].version # args[d].version
    BY <1>1, <1>2, <1>3, <1>6 DEF Observe, LockTypeOK
  <2>2. saw'[d].err \in {"ErrNoKey", "ErrVersion"}
    BY <2>1 DEF Refusal, Error
  <2>3. pc[d] \in {"acquirePut", "releasePut"}
    BY <1>2, <1>3, <1>6 DEF ClientInv, Calls, GetArgs, LockTypeOK
  <2>4. pc[d] = "releasePut" => applied[d]
    BY <1>2, <2>1 DEF ClientInv, Releasing, Owns
  <2>5. Known(d)' /\ PutKnown(d)' /\ Calls(d)'
    BY <1>1, <1>2, <1>6, <2>1, <2>2 DEF ClientInv, Known, PutKnown, Calls, Busy
  <2>6. Acquiring(d)' /\ Releasing(d)'
    BY <1>1, <1>2, <2>1, <2>3, <2>4 DEF ClientInv, Acquiring, Releasing, Owns
  <2> QED BY <1>1, <1>4, <2>5, <2>6 DEF LockInv, ClientInv
<1>7. CASE Respond(d)
  <2>1. PICK r \in Answers(d) : answer' = [answer EXCEPT ![d] = r]
    BY <1>7 DEF Respond
  <2>2. answer'[d] = r /\ saw' = saw
    BY <1>2, <1>7, <2>1 DEF Respond, LockTypeOK
  <2>3. args[d].op = "Get" => r = saw[d] /\ r # Nil
    BY DEF Answers
  <2>4. args[d].op = "Put" => \/ r = Error("OK") /\ applied[d]
                              \/ r = saw[d] /\ saw[d] # Nil /\ ~ applied[d]
                              \/ r = Error("ErrMaybe") /\ saw[d] # Nil
    BY StoreAssumption DEF Answers, Error
  <2>5. Known(d)'
    BY <1>1, <1>2, <2>2, <2>3 DEF ClientInv, Known
  <2>6. PutKnown(d)'
    BY <1>1, <1>2, <2>2, <2>4 DEF ClientInv, PutKnown, Error
  <2>7. Calls(d)'
    BY <1>1, <1>2, <1>3 DEF ClientInv, Calls
  <2>8. Acquiring(d)'
    BY <1>1, <1>2, <2>2 DEF ClientInv, Acquiring, Owns
  <2>9. Releasing(d)'
    <3>1. CASE pc[d] = "releasePut"
      <4>1. args[d].op = "Put"
        BY <1>2, <3>1 DEF ClientInv, Calls, PutArgs
      <4>2. applied[d]
        BY <1>2, <2>4, <3>1, <4>1 DEF ClientInv, Releasing
      <4>3. r.err \in {"OK", "ErrMaybe"}
        BY <2>4, <4>1, <4>2 DEF Error
      <4> QED BY <1>1, <1>2, <2>2, <3>1, <4>2, <4>3 DEF ClientInv, Releasing
    <3>2. CASE pc[d] # "releasePut"
      BY <1>1, <1>2, <2>2, <3>2 DEF ClientInv, Releasing, Owns
    <3> QED BY <3>1, <3>2
  <2> QED BY <1>1, <1>4, <2>5, <2>6, <2>7, <2>8, <2>9 DEF LockInv, ClientInv
<1>8. args[d].op = "Get" \/ args[d].op = "Put"
  BY <1>3
<1> QED BY <1>5, <1>6, <1>7, <1>8

-----------------------------------------------------------------------------
\* The invariant holds in every reachable state, for any set of clients.
THEOREM LockInvariance == Spec => []LockInv
<1>1. LockInv /\ [Next]_vars => LockInv'
  <2> SUFFICES ASSUME LockInv, [Next]_vars PROVE LockInv'
    OBVIOUS
  <2>1. LockTypeOK'
    BY LockType
  <2>2. CASE UNCHANGED vars
    <3>1. \A c \in Clerk : UNCHANGED <<store, mine(c)>>
      BY <2>2 DEF vars, storeVars, callVars, mine
    <3> QED BY <2>1, <3>1, Untouched, <2>2 DEF LockInv, vars, storeVars
  <2> QED BY <2>1, <2>2, ClientStepInv, ApplyInv, ObserveInv DEF Next, storeStep
<1> QED BY <1>1, LockInit, PTL DEF Spec

\* Two clients never hold the lock at the same time, for any number of clients and any
\* lost answers (Lock.Acquire, Lock.Release).
THEOREM OneHolder == Spec => []MutualExclusion
<1>1. LockInv => MutualExclusion
  <2> SUFFICES ASSUME LockInv, NEW c \in Clerk, NEW d \in Clerk, pc[c] = "held", pc[d] = "held"
               PROVE  c = d
    BY DEF MutualExclusion
  <2>1. Owns(c, version[c]) /\ Owns(d, version[d])
    BY DEF LockInv, ClientInv, Releasing
  <2>2. store[name].value = c /\ store[name].value = d
    BY <2>1 DEF Owns
  <2> QED BY <2>2
<1> QED BY <1>1, LockInvariance, PTL

\* The holder's lk.version is the version of the key, which holds its id (lock.go:34-38).
THEOREM VersionKnown == Spec => []HolderKnowsVersion
<1>1. LockInv => HolderKnowsVersion
  BY DEF LockInv, ClientInv, Releasing, Owns, HolderKnowsVersion
<1> QED BY <1>1, LockInvariance, PTL

\* The Put of a Release is never refused, and the Get after it never finds the client's
\* own id (lock.go:132-150).
THEOREM ReleasesSucceed == Spec => []ReleaseNotRefused
<1>1. LockInv => ReleaseNotRefused
  <2> SUFFICES ASSUME LockInv, NEW c \in Clerk, returned(c) PROVE
        /\ pc[c] = "releasePut" => applied[c] /\ answer[c].err # "ErrVersion"
        /\ pc[c] = "releaseGet" => ~ owns(c)
    BY DEF ReleaseNotRefused
  <2>1. LockTypeOK /\ ClientInv(c) /\ answer[c] # Nil
    BY DEF LockInv, returned
  <2>2. pc[c] = "releasePut" => applied[c] /\ answer[c].err # "ErrVersion"
    BY <2>1 DEF ClientInv, Releasing, LockTypeOK
  <2>3. pc[c] = "releaseGet" => ~ owns(c)
    BY <2>1, StoreAssumption DEF ClientInv, Releasing, Calls, Known, GetArgs, owns, returned
  <2> QED BY <2>2, <2>3
<1> QED BY <1>1, LockInvariance, PTL

=============================================================================
