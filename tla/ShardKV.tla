------------------------------ MODULE ShardKV ------------------------------
(***************************************************************************)
(* The sharded key/value service of src/src/shardkv1: groups that serve    *)
(* shards (shardgrp/server.go), controllers that move them                 *)
(* (shardctrler/shardctrler.go) and clerks that look for them (client.go   *)
(* and shardgrp/client.go).                                                *)
(*                                                                         *)
(* A group is one atomic state machine: KVRaft shows that its servers and  *)
(* their Raft peers behave like one.  The kvsrv that keeps the             *)
(* configurations is atomic as well (KVService).  A key stands for its     *)
(* shard, as Key2Shard maps it.  A request that a clerk of a group has     *)
(* repeated may be executed again later: such copies stay in late and net. *)
(*                                                                         *)
(* Put on config and config_next compares versions.  Every configuration   *)
(* stored there has a higher number than the one before, so the version is *)
(* the one that was read if and only if the configuration is.              *)
(***************************************************************************)
EXTENDS ShardCfg, FiniteSetsExt

CONSTANTS
  Ctrler,         \* controllers; a crashed one just stops
  Op, Key, Value,
  Empty,          \* "", the zero value of a string
  Nil,
  MaxVersion,     \* bound: the largest version that callers pass
  MaxRequests,    \* bound: requests of all calls together
  MaxNum,         \* bound: the number of the last configuration
  MaxLate         \* bound: shard RPCs that are executed late

ASSUME ShardAssumption ==
  /\ Key \subseteq Shard /\ Empty \in Value /\ 1 \in Gid
  /\ Nil \notin ShardConfig
  /\ Nil \notin [op : {"Get", "Put"}, key : Key, value : Value, version : Nat]
  /\ Nil \notin [value : Value, version : Nat,
                 err : {"OK", "ErrNoKey", "ErrVersion", "ErrMaybe", "ErrWrongGroup"}]
  /\ MaxVersion \in Nat /\ MaxRequests \in Nat /\ MaxNum \in Nat
  /\ MaxLate \in Nat

VARIABLES
  config,      \* configKey in the kvsrv
  configNext   \* configNextKey, Nil as long as nobody has claimed a change

VARIABLES
  shards,      \* group -> shard -> the node of its key, version 0 if there is none
  served,      \* group -> shard -> the group serves it
  num          \* group -> shard -> the latest configuration number seen

groupVars == <<shards, served, num>>

VARIABLES
  ctl,         \* controller -> its local variables:
               \*   pc   what it does next
               \*   cur, new   the configurations to move from and to
               \*   nxt  what claim has read from config_next
               \*   at, state  the shard being moved and its frozen contents
  late,        \* shard RPCs of which a copy is still to be executed
  lates        \* how many copies there have been

ctrlVars == <<ctl, late, lates>>

VARIABLES
  call,        \* Op -> "idle", "waiting" or "done"
  args, resent, attempt, reply, result, net,
  dest         \* Op -> the group that the clerk asks

clerkVars == <<call, args, resent, attempt, reply, result, net, dest>>

VARIABLES store, executed, saw   \* history, as in KVService and KVRaft

ghostVars == <<store, executed, saw>>

vars == <<config, configNext, groupVars, ctrlVars, clerkVars, ghostVars>>

Node == [value : Value, version : Nat]
Args == [op : {"Get", "Put"}, key : Key, value : Value, version : Nat]
Reply == [value : Value, version : Nat,
          err : {"OK", "ErrNoKey", "ErrVersion", "ErrMaybe", "ErrWrongGroup"}]

NoNode == [value |-> Empty, version |-> 0]
Error(e) == [value |-> Empty, version |-> 0, err |-> e]

-----------------------------------------------------------------------------
\* A group: the commands of DoOp

ShardRPC == [type : {"Freeze", "Install", "Delete"}, gid : Gid, shard : Shard, num : Nat,
             data : Node]

\* Mutant: the number of the configuration does not matter
stale_never(q) == FALSE

\* The group has seen a later configuration for the shard
stale(q) == q.num < num[q.gid][q.shard]

\* Mutant: a repeated InstallShard is performed again
installed_never(q) == FALSE

\* The same configuration has been installed before
installed(q) == q.num = num[q.gid][q.shard] /\ served[q.gid][q.shard]

ignored(q) == stale(q) \/ (q.type = "Install" /\ installed(q))

\* What the group does on FreezeShard, InstallShard and DeleteShard
perform(q) ==
  IF ignored(q) THEN UNCHANGED groupVars
  ELSE /\ num' = [num EXCEPT ![q.gid][q.shard] = q.num]
       /\ served' = [served EXCEPT ![q.gid][q.shard] = q.type = "Install"]
       /\ shards' = [shards EXCEPT ![q.gid][q.shard] =
                       CASE q.type = "Freeze" -> @
                         [] q.type = "Install" -> q.data
                         [] q.type = "Delete" -> NoNode]

\* Get and Put on the node n of a shard that is served
performs(n, a) == a.op = "Put" /\ a.version = n.version

answers(n, a) ==
  CASE a.op = "Get" /\ n.version > 0 -> [value |-> n.value, version |-> n.version, err |-> "OK"]
    [] performs(n, a) -> Error("OK")
    [] OTHER -> Error(IF n.version = 0 THEN "ErrNoKey" ELSE "ErrVersion")

-----------------------------------------------------------------------------
\* A controller

Returned == [pc |-> "idle", cur |-> Nil, new |-> Nil, nxt |-> Nil, at |-> 0, state |-> NoNode]

become(c, r) == ctl' = [ctl EXCEPT ![c] = r]
goto(c, l) == ctl' = [ctl EXCEPT ![c].pc = l]
return(c) == become(c, Returned)

\* ChangeConfigTo up to claim.  The tester makes the new configuration from Query().
ChangeConfigTo(c, b) ==
  /\ ctl[c].pc = "idle"
  /\ config.num < MaxNum
  /\ become(c, [Returned EXCEPT !.pc = "claim", !.new = b])
  /\ UNCHANGED <<config, configNext, groupVars, late, lates, clerkVars, ghostVars>>

join(c) == \E g \in Gid : canJoin(config, {g}) /\ ChangeConfigTo(c, JoinBalance(config, {g}))

leave(c) ==
  \E g \in Gid : /\ canLeave(config, {g}) /\ config.groups # {g}
                 /\ ChangeConfigTo(c, LeaveBalance(config, {g}))

\* The loop of moveTo: the shards that change their group, one after the other
toMove(cur, new, s) == {i \in Shard : i > s /\ cur.shards[i] # new.shards[i]}

\* moveTo returns; its local variables are gone
endLoop(c, l) == become(c, [ctl[c] EXCEPT !.pc = l, !.at = 0, !.state = NoNode])

\* At the first such shard after s, or at the end of the loop
atNext(cur, new, s) ==
  LET rest == toMove(cur, new, s)
      r == [Returned EXCEPT !.cur = cur, !.new = new]
  IN IF rest = {} THEN [r EXCEPT !.pc = "publish"]
     ELSE [r EXCEPT !.pc = "freeze", !.at = Min(rest)]

moveFrom(c, cur, new, s) == become(c, atNext(cur, new, s))

moveTo(c, cur, new) == moveFrom(c, cur, new, 0)

\* Mutant: only a later configuration stands in the way
taken_later(c) == configNext # Nil /\ configNext.num > ctl[c].new.num

\* Somebody has claimed this number, or a later one
taken(c) == configNext # Nil /\ configNext.num >= ctl[c].new.num

\* The number of the current configuration has reached that of the new one
reached(c) == config.num >= ctl[c].new.num

\* readConfig and the read in claim
claimRead(c) ==
  /\ ctl[c].pc = "claim"
  /\ IF reached(c) \/ taken(c) THEN return(c)
     ELSE become(c, [ctl[c] EXCEPT !.pc = "claimPut", !.nxt = configNext])
  /\ UNCHANGED <<config, configNext, groupVars, late, lates, clerkVars, ghostVars>>

\* The compare-and-swap in claim: OK or ErrMaybe if it is performed, ErrVersion or
\* ErrMaybe if it is not
claimPut(c) ==
  /\ ctl[c].pc = "claimPut"
  /\ \/ /\ configNext = ctl[c].nxt
        /\ configNext' = ctl[c].new
        /\ \E l \in {"claimed", "maybe"} : become(c, [ctl[c] EXCEPT !.pc = l, !.nxt = Nil])
     \/ /\ configNext # ctl[c].nxt
        /\ UNCHANGED configNext
        /\ return(c) \/ become(c, [ctl[c] EXCEPT !.pc = "maybe", !.nxt = Nil])
  /\ UNCHANGED <<config, groupVars, late, lates, clerkVars, ghostVars>>

\* Ours is told by its contents: another controller's may have the same number
landed(c) == configNext = ctl[c].new

claimLanded(c) ==
  /\ ctl[c].pc = "maybe"
  /\ IF landed(c) THEN goto(c, "claimed") ELSE return(c)
  /\ UNCHANGED <<config, configNext, groupVars, late, lates, clerkVars, ghostVars>>

\* After the claim the current configuration is read again
claimed(c) ==
  /\ ctl[c].pc = "claimed"
  /\ IF reached(c) THEN return(c)
     ELSE moveTo(c, config, ctl[c].new)
  /\ UNCHANGED <<config, configNext, groupVars, late, lates, clerkVars, ghostVars>>

\* InitController reads the two configurations one after the other
InitController(c) ==
  /\ ctl[c].pc = "idle"
  /\ config.num < MaxNum
  /\ become(c, [Returned EXCEPT !.pc = "recover", !.cur = config])
  /\ UNCHANGED <<config, configNext, groupVars, late, lates, clerkVars, ghostVars>>

recover(c) ==
  /\ ctl[c].pc = "recover"
  /\ IF configNext = Nil \/ configNext.num <= ctl[c].cur.num THEN return(c)
     ELSE moveTo(c, ctl[c].cur, configNext)
  /\ UNCHANGED <<config, configNext, groupVars, late, lates, clerkVars, ghostVars>>

-----------------------------------------------------------------------------
\* moveTo

src(c) == ctl[c].cur.shards[ctl[c].at]
dst(c) == ctl[c].new.shards[ctl[c].at]

srcOK(c) == src(c) \in ctl[c].cur.groups
dstOK(c) == dst(c) \in ctl[c].new.groups

request(c, type, gid) ==
  [type |-> type, gid |-> gid, shard |-> ctl[c].at, num |-> ctl[c].new.num,
   data |-> IF type = "Install" THEN ctl[c].state ELSE NoNode]

\* A copy of the request may be executed later
mayLinger(q) ==
  \/ UNCHANGED <<late, lates>>
  \/ lates < MaxLate /\ late' = late \cup {q} /\ lates' = lates + 1

\* One RPC of moveTo.  The group answers OK, whereupon the controller goes on, or
\* ErrStale, which ends moveTo as if it were done; or no server of the group answers.
shardRPC(c, q, goOn) ==
  /\ mayLinger(q)
  /\ \/ perform(q) /\ IF stale(q) THEN endLoop(c, "publish") ELSE goOn
     \/ endLoop(c, "reread") /\ UNCHANGED groupVars
  /\ UNCHANGED <<config, configNext, clerkVars, ghostVars>>

\* Without a group on the one side or the other the RPC is left out.  The tester never
\* lets the last group leave, and its first configuration has one: this does not happen.
skip(goOn) ==
  /\ goOn
  /\ UNCHANGED <<config, configNext, groupVars, late, lates, clerkVars, ghostVars>>

FreezeShard(c) ==
  /\ ctl[c].pc = "freeze"
  /\ IF srcOK(c)
       THEN shardRPC(c, request(c, "Freeze", src(c)),
                     become(c, [ctl[c] EXCEPT !.pc = "install",
                                              !.state = shards[src(c)][ctl[c].at]]))
       ELSE skip(goto(c, "install"))

InstallShard(c) ==
  /\ ctl[c].pc = "install"
  /\ IF dstOK(c) THEN shardRPC(c, request(c, "Install", dst(c)), goto(c, "delete"))
     ELSE skip(goto(c, "delete"))

DeleteShard(c) ==
  LET goOn == moveFrom(c, ctl[c].cur, ctl[c].new, ctl[c].at)
  IN /\ ctl[c].pc = "delete"
     /\ IF srcOK(c) THEN shardRPC(c, request(c, "Delete", src(c)), goOn) ELSE skip(goOn)

\* A copy of a shard RPC is executed; nobody waits for the answer
executeLate(q) ==
  /\ q \in late
  /\ late' = late \ {q}
  /\ perform(q)
  /\ UNCHANGED <<config, configNext, ctl, lates, clerkVars, ghostVars>>

\* moveUntilDone, when a group could not be reached
reread(c) ==
  /\ ctl[c].pc = "reread"
  /\ IF reached(c) THEN return(c)
     ELSE moveTo(c, ctl[c].cur, ctl[c].new)
  /\ UNCHANGED <<config, configNext, groupVars, late, lates, clerkVars, ghostVars>>

\* publish: its read and its compare-and-swap succeed together or are repeated
publish(c) ==
  /\ ctl[c].pc = "publish"
  /\ config' = IF reached(c) THEN config ELSE ctl[c].new
  /\ return(c)
  /\ UNCHANGED <<configNext, groupVars, late, lates, clerkVars, ghostVars>>

-----------------------------------------------------------------------------
\* A clerk

\* rckFor: the shard has a group in the current configuration
routed(k) == config.shards[k] \in config.groups

\* The clerk of group g sends a request
send(o, g) ==
  /\ MapThenSumSet(LAMBDA p : attempt[p], Op) < MaxRequests
  /\ attempt' = [attempt EXCEPT ![o] = @ + 1]
  /\ dest' = [dest EXCEPT ![o] = g]
  /\ net' = net \cup {[op |-> o, attempt |-> attempt[o] + 1, gid |-> g]}

begin(o, a) ==
  /\ call[o] = "idle"
  /\ call' = [call EXCEPT ![o] = "waiting"]
  /\ args' = [args EXCEPT ![o] = a]
  /\ routed(a.key) /\ send(o, config.shards[a.key])
  /\ UNCHANGED <<config, configNext, groupVars, ctrlVars, resent, reply, result, ghostVars>>

Get(o, k) == begin(o, [op |-> "Get", key |-> k, value |-> Empty, version |-> 0])

\* A caller passes a version it has read, one that the key has or has had
Put(o, k, v, n) ==
  /\ n <= store[k].version
  /\ begin(o, [op |-> "Put", key |-> k, value |-> v, version |-> n])

\* A group executes a request
handle(r) ==
  LET o == r.op
      a == args[o]
      n == shards[r.gid][a.key]
      ok == served[r.gid][a.key]
      rep == IF ok THEN answers(n, a) ELSE Error("ErrWrongGroup")
      awaited == call[o] = "waiting" /\ attempt[o] = r.attempt
      done == ok /\ performs(n, a)
  IN /\ r \in net
     /\ net' = net \ {r}
     /\ reply' = IF awaited THEN [reply EXCEPT ![o] = rep] ELSE reply
     /\ shards' = IF done THEN [shards EXCEPT ![r.gid][a.key] =
                                  [value |-> a.value, version |-> @.version + 1]] ELSE shards
     /\ store' = IF done THEN [store EXCEPT ![a.key] = shards'[r.gid][a.key]] ELSE store
     /\ executed' = IF done THEN [executed EXCEPT ![o] = @ + 1] ELSE executed
     /\ saw' = IF ok /\ awaited /\ ~ done THEN [saw EXCEPT ![o] = rep] ELSE saw
     /\ UNCHANGED <<config, configNext, served, num, ctrlVars, call, args, resent, attempt,
                    result, dest>>

\* Mutant: an answer from the wrong group leaves the Put certain
resentAfter_lost(o) == resent[o] \/ reply[o] = Nil

\* Whether an earlier request may have been performed.  The flags of the two clerks are
\* one: that of the group's clerk starts anew only after that of the outer one is set.
resentAfter(o) == TRUE

\* No answer or ErrWrongLeader: the group's clerk asks it again, or returns ErrWrongGroup
\* when it reaches nobody.  On ErrWrongGroup the configuration is read again.
retry(o) ==
  /\ call[o] = "waiting"
  /\ \/ reply[o] = Nil /\ send(o, dest[o])
     \/ routed(args[o].key) /\ send(o, config.shards[args[o].key])
  /\ reply' = [reply EXCEPT ![o] = Nil]
  /\ resent' = [resent EXCEPT ![o] = resentAfter(o)]
  /\ UNCHANGED <<config, configNext, groupVars, ctrlVars, call, args, result, ghostVars>>

returned(o) ==
  IF args[o].op = "Put" /\ reply[o].err = "ErrVersion" /\ resent[o]
    THEN Error("ErrMaybe") ELSE reply[o]

callReturns(o) ==
  /\ call[o] = "waiting"
  /\ reply[o] # Nil /\ reply[o].err # "ErrWrongGroup"
  /\ call' = [call EXCEPT ![o] = "done"]
  /\ result' = [result EXCEPT ![o] = returned(o)]
  /\ reply' = [reply EXCEPT ![o] = Nil]
  /\ UNCHANGED <<config, configNext, groupVars, ctrlVars, args, resent, attempt, net, dest,
                 ghostVars>>

-----------------------------------------------------------------------------
\* Group 1 starts out serving every shard, the others none
groupInit ==
  /\ shards = [g \in Gid |-> [s \in Shard |-> NoNode]]
  /\ served = [g \in Gid |-> [s \in Shard |-> g = 1]]
  /\ num = [g \in Gid |-> [s \in Shard |-> 0]]

\* InitConfig stores the first configuration, which gives every shard to group 1
Init ==
  /\ config = JoinBalance(MakeShardConfig, {1})
  /\ configNext = Nil
  /\ groupInit
  /\ ctl = [c \in Ctrler |-> Returned]
  /\ late = {}
  /\ lates = 0
  /\ call = [o \in Op |-> "idle"]
  /\ args = [o \in Op |-> Nil]
  /\ resent = [o \in Op |-> FALSE]
  /\ attempt = [o \in Op |-> 0]
  /\ reply = [o \in Op |-> Nil]
  /\ result = [o \in Op |-> Nil]
  /\ net = {}
  /\ dest = [o \in Op |-> 0]
  /\ store = [k \in Key |-> NoNode]
  /\ executed = [o \in Op |-> 0]
  /\ saw = [o \in Op |-> Nil]

Next ==
  \/ \E c \in Ctrler :
       \/ join(c) \/ leave(c)
       \/ claimRead(c) \/ claimPut(c) \/ claimLanded(c) \/ claimed(c)
       \/ InitController(c) \/ recover(c)
       \/ FreezeShard(c) \/ InstallShard(c) \/ DeleteShard(c)
       \/ reread(c) \/ publish(c)
  \/ \E q \in late : executeLate(q)
  \/ \E o \in Op, k \in Key : Get(o, k)
  \/ \E o \in Op, k \in Key, v \in Value, n \in 0 .. MaxVersion : Put(o, k, v, n)
  \/ \E o \in Op : retry(o) \/ callReturns(o)
  \/ \E r \in net : handle(r)

Spec == Init /\ [][Next]_vars

\* No change of the configuration is completed between the two reads of InitController
\* and followed by another claim: the controller takes over the change that follows the
\* configuration it has read.
recoversNext ==
  \A c \in Ctrler :
    ctl[c].pc = "recover" /\ ctl'[c].new # Nil => ctl'[c].new.num = ctl[c].cur.num + 1

\* The system without the window between the two reads
SpecRecoversNext == Init /\ [][Next /\ recoversNext]_vars

-----------------------------------------------------------------------------
\* Properties

\* No shard is served by two groups (shardctrler.go:230-233), whatever controllers
\* compete for a configuration, take over from each other or repeat each other's RPCs.
OneServer ==
  \A s \in Shard, g, h \in Gid : served[g][s] /\ served[h][s] => g = h

\* The published configuration points to the data (shardctrler.go:189-190, 299-300): the
\* group it names for a shard serves it with every write that was performed, unless a
\* later configuration is already being moved to.
PublishedServes ==
  \A k \in Key :
    LET g == config.shards[k]
    IN g \in config.groups /\ num[g][k] <= config.num =>
         served[g][k] /\ shards[g][k] = store[k]

\* Nothing written is lost while a shard is on its way: some group has it, and a group
\* that serves the shard has it.
DataKept ==
  \A k \in Key :
    /\ \E g \in Gid : shards[g][k] = store[k]
    /\ \A g \in Gid : served[g][k] => shards[g][k] = store[k]

\* Clerks, groups and controllers together implement the store, while shards move, for
\* calls that find a group gone, a shard moved, or their Put performed and forgotten.
Store == INSTANCE KVStore WITH
  Clerk <- Op, applied <- [o \in Op |-> executed[o] > 0], answer <- result
Linearizable == Store!StoreSpec

=============================================================================
