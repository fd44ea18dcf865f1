----------------------------- MODULE KVService -----------------------------
(***************************************************************************)
(* The key/value server of src/src/kvsrv1/server.go and its Clerk in       *)
(* src/src/kvsrv1/client.go, over the network of labrpc.                   *)
(*                                                                         *)
(* Op is the set of all calls of Clerk.Get and Clerk.Put.  A Clerk keeps   *)
(* nothing from one call to the next, so which clerk makes a call does not *)
(* matter.  Within a call it sends the same request until a reply comes.   *)
(* labrpc's Call returns false if the request or the reply is lost, or if  *)
(* the connection breaks while the handler is still to run: such a request *)
(* may be executed later, even when the clerk has long returned.           *)
(***************************************************************************)
EXTENDS Naturals, FiniteSets

CONSTANTS
  Op, Key, Value,
  Empty,        \* "", the zero value of a string
  Nil,
  Blind,        \* whether callers may pass a version that the key never had
  MaxVersion,   \* bound: the largest version that callers pass
  MaxAttempts   \* bound: requests sent in one call

ASSUME ServiceAssumption ==
  /\ Empty \in Value
  /\ Nil \notin [op : {"Get", "Put"}, key : Key, value : Value, version : Nat]
  /\ Nil \notin [value : Value, version : Nat,
                 err : {"OK", "ErrNoKey", "ErrVersion", "ErrMaybe"}]
  /\ Blind \in BOOLEAN
  /\ MaxVersion \in Nat /\ MaxAttempts \in Nat

VARIABLES
  m,         \* kv.m; version 0 stands for a key that is not in the map
  pc,        \* "idle", "calling" (about to Call), "waiting" (inside Call), "done"
  args,      \* of the call, built once
  resent,    \* the clerk's local variable
  attempt,   \* requests sent so far
  reply,     \* of the request being waited for, on its way back
  result,    \* what the call returned
  net,       \* requests not yet executed
  executed,  \* history: how often the Put has been performed
  saw        \* history: what the last request that was waited for found, if not performed

vars == <<m, pc, args, resent, attempt, reply, result, net, executed, saw>>

Node == [value : Value, version : Nat]
Args == [op : {"Get", "Put"}, key : Key, value : Value, version : Nat]
Reply == [value : Value, version : Nat, err : {"OK", "ErrNoKey", "ErrVersion", "ErrMaybe"}]
Request == [op : Op, attempt : Nat]

PutReply(e) == [value |-> Empty, version |-> 0, err |-> e]

-----------------------------------------------------------------------------
\* The server

\* KVServer.Get
getReply(a) ==
  IF m[a.key].version = 0 THEN [value |-> Empty, version |-> 0, err |-> "ErrNoKey"]
  ELSE [value |-> m[a.key].value, version |-> m[a.key].version, err |-> "OK"]

\* Mutant: a Put on an existing key is performed whatever its version
performs_always(a) == a.op = "Put" /\ (m[a.key].version = 0 => a.version = 0)

\* KVServer.Put installs the value: version 0 creates the key, otherwise the
\* version has to match exactly
performs(a) == a.op = "Put" /\ a.version = m[a.key].version

putReply(a) ==
  PutReply(IF performs(a) THEN "OK"
           ELSE IF m[a.key].version = 0 THEN "ErrNoKey" ELSE "ErrVersion")

\* The server executes a request.  The reply goes nowhere if Call has returned.
handle(r) ==
  LET o == r.op
      a == args[o]
      rep == IF a.op = "Get" THEN getReply(a) ELSE putReply(a)
      awaited == pc[o] = "waiting" /\ attempt[o] = r.attempt
  IN /\ r \in net
     /\ net' = net \ {r}
     /\ m' = IF performs(a)
               THEN [m EXCEPT ![a.key] = [value |-> a.value, version |-> @.version + 1]] ELSE m
     /\ executed' = IF performs(a) THEN [executed EXCEPT ![o] = @ + 1] ELSE executed
     /\ reply' = IF awaited THEN [reply EXCEPT ![o] = rep] ELSE reply
     /\ saw' = IF awaited /\ ~ performs(a) THEN [saw EXCEPT ![o] = rep] ELSE saw
     /\ UNCHANGED <<pc, args, resent, attempt, result>>

-----------------------------------------------------------------------------
\* The clerk

begin(o, a) ==
  /\ pc[o] = "idle"
  /\ pc' = [pc EXCEPT ![o] = "calling"]
  /\ args' = [args EXCEPT ![o] = a]
  /\ UNCHANGED <<m, resent, attempt, reply, result, net, executed, saw>>

Get(o, k) == begin(o, [op |-> "Get", key |-> k, value |-> Empty, version |-> 0])

\* A caller passes a version it has read, one that the key has or has had
Put(o, k, v, n) ==
  /\ n <= MaxVersion
  /\ Blind \/ n <= m[k].version
  /\ begin(o, [op |-> "Put", key |-> k, value |-> v, version |-> n])

Call(o) ==
  /\ pc[o] = "calling"
  /\ attempt[o] < MaxAttempts
  /\ pc' = [pc EXCEPT ![o] = "waiting"]
  /\ attempt' = [attempt EXCEPT ![o] = @ + 1]
  /\ net' = net \cup {[op |-> o, attempt |-> attempt[o] + 1]}
  /\ UNCHANGED <<m, args, resent, reply, result, executed, saw>>

\* Call returns false: the request is lost, or the reply is, or the request has
\* yet to be executed
callFails(o) ==
  /\ pc[o] = "waiting"
  /\ pc' = [pc EXCEPT ![o] = "calling"]
  /\ resent' = [resent EXCEPT ![o] = TRUE]
  /\ reply' = [reply EXCEPT ![o] = Nil]
  /\ net' \in {net, net \ {[op |-> o, attempt |-> attempt[o]]}}
  /\ UNCHANGED <<m, args, attempt, result, executed, saw>>

\* Mutant: ErrVersion is passed on although an earlier request may have been performed
returned_plain(o) == reply[o]

\* What the call makes of the reply
returned(o) ==
  IF args[o].op = "Put" /\ reply[o].err = "ErrVersion" /\ resent[o]
    THEN PutReply("ErrMaybe") ELSE reply[o]

callReturns(o) ==
  /\ pc[o] = "waiting"
  /\ reply[o] # Nil
  /\ pc' = [pc EXCEPT ![o] = "done"]
  /\ result' = [result EXCEPT ![o] = returned(o)]
  /\ UNCHANGED <<m, args, resent, attempt, reply, net, executed, saw>>

-----------------------------------------------------------------------------
Init ==
  /\ m = [k \in Key |-> [value |-> Empty, version |-> 0]]
  /\ pc = [o \in Op |-> "idle"]
  /\ args = [o \in Op |-> Nil]
  /\ resent = [o \in Op |-> FALSE]
  /\ attempt = [o \in Op |-> 0]
  /\ reply = [o \in Op |-> Nil]
  /\ result = [o \in Op |-> Nil]
  /\ net = {}
  /\ executed = [o \in Op |-> 0]
  /\ saw = [o \in Op |-> Nil]

Next ==
  \/ \E o \in Op, k \in Key : Get(o, k)
  \/ \E o \in Op, k \in Key, v \in Value, n \in 0 .. MaxVersion : Put(o, k, v, n)
  \/ \E o \in Op : Call(o)
  \/ \E o \in Op : callFails(o)
  \/ \E o \in Op : callReturns(o)
  \/ \E r \in net : handle(r)

Spec == Init /\ [][Next]_vars

-----------------------------------------------------------------------------
\* Properties

TypeOK ==
  /\ m \in [Key -> Node]
  /\ pc \in [Op -> {"idle", "calling", "waiting", "done"}]
  /\ args \in [Op -> Args \cup {Nil}]
  /\ \A o \in Op : args[o] = Nil <=> pc[o] = "idle"
  /\ resent \in [Op -> BOOLEAN]
  /\ attempt \in [Op -> Nat]
  /\ reply \in [Op -> Reply \cup {Nil}]
  /\ result \in [Op -> Reply \cup {Nil}]
  /\ net \subseteq Request
  /\ executed \in [Op -> Nat]
  /\ saw \in [Op -> Reply \cup {Nil}]

\* What a Put answers is the truth, also about the copies of its request that are
\* still on their way when it returns (client.go:84-92, server.go:82-84): it is
\* performed at most once, exactly once if it returned OK, and never if it returned
\* ErrVersion.
PutTruthful ==
  \A o \in Op : pc[o] # "idle" /\ args[o].op = "Put" =>
    /\ executed[o] <= 1
    /\ result[o] = PutReply("OK") => executed[o] = 1
    /\ result[o] = PutReply("ErrVersion") => executed[o] = 0

\* The service implements the store: every call takes effect at one moment between
\* its invocation and its answer, however often its request is repeated, provided
\* that callers pass only versions the key has had.
Store == INSTANCE KVStore WITH
  Clerk <- Op, store <- m, applied <- [o \in Op |-> executed[o] > 0], answer <- result
Linearizable == Store!StoreSpec

=============================================================================
