------------------------------ MODULE KVStore ------------------------------
(***************************************************************************)
(* What the versioned key/value store promises the callers of a Clerk      *)
(* (the comments on Get and Put in src/src/kvsrv1/client.go): every call   *)
(* takes effect at one moment between its invocation and its answer.  A    *)
(* Put whose version does not match changes nothing.  OK means it was      *)
(* performed, ErrVersion and ErrNoKey mean it was not and never will be,   *)
(* ErrMaybe leaves both open, but what is performed is performed before    *)
(* the answer.                                                             *)
(***************************************************************************)
EXTENDS Naturals

CONSTANTS
  Clerk,   \* callers, each with one call at a time
  Key,
  Value,
  Empty,   \* "", the zero value of a string
  Nil      \* no call, no answer

ASSUME StoreAssumption ==
  /\ Empty \in Value
  /\ Nil \notin [op : {"Get", "Put"}, key : Key, value : Value, version : Nat]
  /\ Nil \notin [value : Value, version : Nat,
                 err : {"OK", "ErrNoKey", "ErrVersion", "ErrMaybe"}]

VARIABLES
  store,    \* key -> (value, version); version 0 stands for a key that does not exist
  args,     \* the call of each clerk
  applied,  \* its Put has been performed
  saw,      \* what the store answered when it was last looked at
  answer    \* what the clerk returned

callVars == <<args, applied, saw, answer>>
storeVars == <<store, callVars>>

Node == [value : Value, version : Nat]
Args == [op : {"Get", "Put"}, key : Key, value : Value, version : Nat]
Answer == [value : Value, version : Nat, err : {"OK", "ErrNoKey", "ErrVersion", "ErrMaybe"}]

GetArgs(k) == [op |-> "Get", key |-> k, value |-> Empty, version |-> 0]
PutArgs(k, v, n) == [op |-> "Put", key |-> k, value |-> v, version |-> n]
Error(e) == [value |-> Empty, version |-> 0, err |-> e]

NoNode == [value |-> Empty, version |-> 0]

Busy(c) == args[c] # Nil /\ answer[c] = Nil

\* The answer of the store to a Get, and to a Put that it refuses
Contents(n) ==
  [value |-> n.value, version |-> n.version, err |-> IF n.version = 0 THEN "ErrNoKey" ELSE "OK"]
Refusal(n) == Error(IF n.version = 0 THEN "ErrNoKey" ELSE "ErrVersion")

Invoke(c, a) ==
  /\ ~ Busy(c)
  /\ args' = [args EXCEPT ![c] = a]
  /\ applied' = [applied EXCEPT ![c] = FALSE]
  /\ saw' = [saw EXCEPT ![c] = Nil]
  /\ answer' = [answer EXCEPT ![c] = Nil]
  /\ UNCHANGED store

\* The Put of c is performed
Apply(c) ==
  /\ Busy(c)
  /\ args[c].op = "Put"
  /\ ~ applied[c]
  /\ store[args[c].key].version = args[c].version
  /\ store' = [store EXCEPT ![args[c].key] =
                 [value |-> args[c].value, version |-> args[c].version + 1]]
  /\ applied' = [applied EXCEPT ![c] = TRUE]
  /\ UNCHANGED <<args, saw, answer>>

\* The call of c finds the key as it is: a Get, or a Put with another version
Observe(c) ==
  LET n == store[args[c].key]
  IN /\ Busy(c)
     /\ \/ args[c].op = "Get" /\ saw' = [saw EXCEPT ![c] = Contents(n)]
        \/ /\ args[c].op = "Put"
           /\ n.version # args[c].version
           /\ saw' = [saw EXCEPT ![c] = Refusal(n)]
     /\ UNCHANGED <<store, args, applied, answer>>

\* What the call of c may return by now
Answers(c) ==
  IF args[c].op = "Get" THEN {saw[c]} \ {Nil}
  ELSE {e \in {Error("OK")} : applied[c]}
         \cup {e \in {saw[c]} \ {Nil} : ~ applied[c]}
         \cup {e \in {Error("ErrMaybe")} : saw[c] = Error("ErrVersion")}

Respond(c) ==
  /\ Busy(c)
  /\ \E r \in Answers(c) : answer' = [answer EXCEPT ![c] = r]
  /\ UNCHANGED <<store, args, applied, saw>>

StoreInit ==
  /\ store = [k \in Key |-> NoNode]
  /\ args = [c \in Clerk |-> Nil]
  /\ applied = [c \in Clerk |-> FALSE]
  /\ saw = [c \in Clerk |-> Nil]
  /\ answer = [c \in Clerk |-> Nil]

StoreNext ==
  \E c \in Clerk :
    \/ args'[c] \in Args /\ Invoke(c, args'[c])
    \/ Apply(c)
    \/ Observe(c)
    \/ Respond(c)

StoreSpec == StoreInit /\ [][StoreNext]_storeVars

=============================================================================
