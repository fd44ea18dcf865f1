-------------------------------- MODULE Lock --------------------------------
(***************************************************************************)
(* The lock of src/src/kvsrv1/lock/lock.go: a key of the key/value store   *)
(* that holds the id of the owner, or "" when the lock is free.            *)
(*                                                                         *)
(* The clients call the store that KVStore specifies and KVService         *)
(* implements.  Between two of its calls a client only computes, so one    *)
(* action takes the answer of a call and issues the next one.  The random  *)
(* ids of MakeLock are taken to be different: a client is its id.          *)
(***************************************************************************)
EXTENDS KVStore

CONSTANTS
  name,        \* the lock's key
  MaxVersion   \* bound: no Acquire is started once the key has this version

ASSUME LockAssumption ==
  /\ name \in Key
  /\ Clerk \subseteq Value /\ Empty \notin Clerk
  /\ MaxVersion \in Nat

VARIABLES
  pc,      \* "out", "acquireGet", "acquirePut", "held", "releasePut", "releaseGet"
  version  \* lk.version

vars == <<storeVars, pc, version>>

goto(c, l) == pc' = [pc EXCEPT ![c] = l]

\* The call of client c has returned
returned(c) == args[c] # Nil /\ answer[c] # Nil

Init == StoreInit /\ pc = [c \in Clerk |-> "out"] /\ version = [c \in Clerk |-> 0]

-----------------------------------------------------------------------------
\* Acquire

Acquire(c) ==
  /\ pc[c] = "out"
  /\ store[name].version < MaxVersion
  /\ Invoke(c, GetArgs(name))
  /\ goto(c, "acquireGet")
  /\ UNCHANGED version

\* Mutant: the owner's id is not compared with one's own
owns_never(c) == FALSE

\* The store already records c as the owner
owns(c) == answer[c].err = "OK" /\ answer[c].value = c

\* Mutant: the value is not looked at
claimable_any(c) == ~ owns(c)

\* The lock has never been taken, or it is free
claimable(c) ==
  \/ answer[c].err = "ErrNoKey"
  \/ answer[c].err = "OK" /\ answer[c].value = Empty

acquireGot(c) ==
  /\ pc[c] = "acquireGet"
  /\ returned(c)
  /\ \/ /\ owns(c)
        /\ goto(c, "held")
        /\ version' = [version EXCEPT ![c] = answer[c].version]
        /\ UNCHANGED storeVars
     \/ /\ claimable(c)
        /\ Invoke(c, PutArgs(name, c, answer[c].version))
        /\ goto(c, "acquirePut")
        /\ UNCHANGED version
     \/ /\ ~ owns(c)
        /\ ~ claimable(c)
        /\ Invoke(c, GetArgs(name))
        /\ UNCHANGED <<pc, version>>

\* Mutant: lk.version is the version that was read
claimedVersion_read(c) == args[c].version

\* The version of the key after the Put of c
claimedVersion(c) == args[c].version + 1

\* Mutant: ErrMaybe is taken for success
claimed_maybe(c) == answer[c].err \in {"OK", "ErrMaybe"}

claimed(c) == answer[c].err = "OK"

acquirePutDone(c) ==
  /\ pc[c] = "acquirePut"
  /\ returned(c)
  /\ \/ /\ claimed(c)
        /\ goto(c, "held")
        /\ version' = [version EXCEPT ![c] = claimedVersion(c)]
        /\ UNCHANGED storeVars
     \/ /\ ~ claimed(c)
        /\ Invoke(c, GetArgs(name))
        /\ goto(c, "acquireGet")
        /\ UNCHANGED version

-----------------------------------------------------------------------------
\* Release

Release(c) ==
  /\ pc[c] = "held"
  /\ Invoke(c, PutArgs(name, Empty, version[c]))
  /\ goto(c, "releasePut")
  /\ UNCHANGED version

releasePutDone(c) ==
  /\ pc[c] = "releasePut"
  /\ returned(c)
  /\ UNCHANGED version
  /\ \/ /\ answer[c].err = "OK"
        /\ goto(c, "out")
        /\ UNCHANGED storeVars
     \/ /\ answer[c].err # "OK"
        /\ Invoke(c, GetArgs(name))
        /\ goto(c, "releaseGet")

\* After a Put that did not return OK the client verifies that it is not the owner
releaseGot(c) ==
  /\ pc[c] = "releaseGet"
  /\ returned(c)
  /\ UNCHANGED version
  /\ \/ /\ ~ owns(c)
        /\ goto(c, "out")
        /\ UNCHANGED storeVars
     \/ /\ owns(c)
        /\ Invoke(c, PutArgs(name, Empty, answer[c].version))
        /\ goto(c, "releasePut")

-----------------------------------------------------------------------------
\* The store acts on the call of c
storeStep(c) == (Apply(c) \/ Observe(c) \/ Respond(c)) /\ UNCHANGED <<pc, version>>

clientStep(c) ==
  acquireGot(c) \/ acquirePutDone(c) \/ Release(c) \/ releasePutDone(c) \/ releaseGot(c)

Next == \E c \in Clerk : Acquire(c) \/ clientStep(c) \/ storeStep(c)

Spec == Init /\ [][Next]_vars

\* A client goes on once its call has returned, and whoever holds the lock releases
\* it; a Clerk repeats its request until it is executed and answered.
Fairness ==
  \A c \in Clerk :
    /\ WF_vars(clientStep(c))
    /\ WF_vars((Apply(c) \/ (saw[c] = Nil /\ Observe(c))) /\ UNCHANGED <<pc, version>>)
    /\ WF_vars(Respond(c) /\ UNCHANGED <<pc, version>>)

FairSpec == Spec /\ Fairness

-----------------------------------------------------------------------------
\* Properties

LockTypeOK ==
  /\ store \in [Key -> Node]
  /\ args \in [Clerk -> Args \cup {Nil}]
  /\ applied \in [Clerk -> BOOLEAN]
  /\ saw \in [Clerk -> Answer \cup {Nil}]
  /\ answer \in [Clerk -> Answer \cup {Nil}]
  /\ pc \in [Clerk -> {"out", "acquireGet", "acquirePut", "held", "releasePut", "releaseGet"}]
  /\ version \in [Clerk -> Nat]

\* Two clients never hold the lock at the same time, whichever answers of the store
\* were lost (Acquire returned, Release not called).
MutualExclusion == \A c, d \in Clerk : pc[c] = "held" /\ pc[d] = "held" => c = d

\* The comment on Lock.version (lock.go:34-38): while a client holds the lock its
\* version is the one the server has, and the key holds its id.
HolderKnowsVersion ==
  \A c \in Clerk : pc[c] = "held" => store[name] = [value |-> c, version |-> version[c]]

\* The comment in Release (lock.go:132-138): the Put of the holder is never refused;
\* an answer other than OK means that it has been performed, so a Get never finds the
\* client's own id.
ReleaseNotRefused ==
  \A c \in Clerk :
    /\ pc[c] = "releasePut" /\ returned(c) => applied[c] /\ answer[c].err # "ErrVersion"
    /\ pc[c] = "releaseGet" /\ returned(c) => ~ owns(c)

\* The lock is never leaked: as long as a client wants it, somebody gets it, also
\* after answers were lost and the owner learns of its claim only from a Get.
Progress ==
  (\E c \in Clerk : pc[c] \in {"acquireGet", "acquirePut"}) ~> (\E c \in Clerk : pc[c] = "held")

=============================================================================
