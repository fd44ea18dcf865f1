--------------------------- MODULE ShardKVProofs ----------------------------
(***************************************************************************)
(* The sharded service keeps every shard in one place and every write, and *)
(* implements the abstract store, for any number of groups, shards,        *)
(* controllers, clerks, requests and changes of the configuration, as long *)
(* as InitController takes over the change that follows the configuration  *)
(* it has read.                                                            *)
(*                                                                         *)
(* The inductive invariant says where a change of the configuration is:    *)
(* config_next is at most one ahead of config, a group has the number of   *)
(* the next configuration for a shard only if it has frozen or received    *)
(* it, and whatever a controller or a late request may still do belongs to *)
(* that change or comes too late to do anything.                           *)
(***************************************************************************)
EXTENDS ShardKV, ShardCfgProofs

-----------------------------------------------------------------------------
\* The inductive invariant

\* What a controller does next: before its change is claimed, and after
Claiming == {"claim", "claimPut", "maybe", "claimed"}
Moving == {"freeze", "install", "delete"}
Past == Moving \cup {"reread", "publish"}

\* A controller's local variables
Controller ==
  [pc : {"idle", "recover"} \cup Claiming \cup Past,
   cur : Complete \cup {Nil}, new : Complete \cup {Nil}, nxt : Complete \cup {Nil},
   at : Shard \cup {0}, state : Node]

\* Types
GroupTypes ==
  /\ shards \in [Gid -> [Shard -> Node]]
  /\ served \in [Gid -> [Shard -> BOOLEAN]]
  /\ num \in [Gid -> [Shard -> Nat]]

ControlTypes ==
  /\ config \in Complete /\ configNext \in Complete \cup {Nil}
  /\ ctl \in [Ctrler -> Controller]
  /\ late \subseteq ShardRPC
  /\ lates \in Nat

ClerkTypes ==
  /\ call \in [Op -> {"idle", "waiting", "done"}]
  /\ args \in [Op -> Args \cup {Nil}]
  /\ resent \in [Op -> BOOLEAN]
  /\ attempt \in [Op -> Nat]
  /\ reply \in [Op -> Reply \cup {Nil}]
  /\ result \in [Op -> Reply \cup {Nil}]
  /\ dest \in [Op -> Gid \cup {0}]
  /\ net \subseteq [op : Op, attempt : Nat, gid : Gid]
  /\ store \in [Key -> Node]
  /\ executed \in [Op -> Nat]
  /\ saw \in [Op -> Reply \cup {Nil}]
  /\ \A o \in Op : call[o] = "idle" <=> args[o] = Nil
  /\ \A o \in Op : call[o] = "waiting" => dest[o] \in Gid
  /\ \A r \in net : call[r.op] # "idle"

Types == GroupTypes /\ ControlTypes /\ ClerkTypes

\* Somebody has claimed the configuration that follows
changing == configNext # Nil /\ configNext.num = config.num + 1

\* Shard s changes its group then; its old group has frozen it, its new group has it
moves(s) == config.shards[s] # configNext.shards[s]
left(s) == num[config.shards[s]][s] = config.num + 1
arrived(s) == num[configNext.shards[s]][s] = config.num + 1

\* config_next is at most one configuration ahead
NextInv ==
  /\ config.num >= 1
  /\ configNext = Nil => config.num = 1
  /\ configNext # Nil => config.num <= configNext.num /\ configNext.num <= config.num + 1
  /\ configNext # Nil /\ configNext.num = config.num => configNext = config

\* A group serves what the configuration gives it, or what has arrived
GroupInv ==
  \A g \in Gid, s \in Shard :
    /\ num[g][s] <= config.num + 1
    /\ num[g][s] <= config.num => (served[g][s] <=> config.shards[s] = g)
    /\ num[g][s] = config.num + 1 =>
         /\ changing /\ moves(s) /\ left(s)
         /\ \/ g = config.shards[s] /\ ~ served[g][s]
            \/ g = configNext.shards[s] /\ served[g][s]

\* Who serves a shard has its data; until it has arrived, its old group has it
DataInv ==
  \A k \in Key :
    /\ \A g \in Gid : served[g][k] => shards[g][k] = store[k]
    /\ changing /\ moves(k) /\ ~ arrived(k) => shards[config.shards[k]][k] = store[k]

\* A request with number n that comes too late to change what group g serves
harmless(g, s, n, install) ==
  n < num[g][s] \/ (n = num[g][s] /\ served[g][s] = install)

\* The same of all requests that a change from cur to new may send
finished(cur, new) ==
  \A s \in Shard : cur.shards[s] # new.shards[s] =>
    /\ harmless(cur.shards[s], s, new.num, FALSE)
    /\ harmless(new.shards[s], s, new.num, TRUE)

\* A shard may be installed once it is frozen, with the data it was frozen with
installable(s, data) == left(s) /\ (s \in Key /\ ~ arrived(s) => data = store[s])

\* A request that a group may execute, now or later
sound(q) ==
  /\ q.num <= config.num + 1
  /\ q.num <= config.num => harmless(q.gid, q.shard, q.num, q.type = "Install")
  /\ q.num = config.num + 1 =>
       /\ changing /\ moves(q.shard)
       /\ q.type # "Install" => q.gid = config.shards[q.shard]
       /\ q.type = "Install" => q.gid = configNext.shards[q.shard]
                                  /\ installable(q.shard, q.data)
       /\ q.type = "Delete" => arrived(q.shard)

\* A controller that has not claimed its configuration yet, or has just done so
ClaimInv(r) ==
  r.pc \in Claiming =>
    /\ r.new # Nil /\ 2 <= r.new.num /\ r.new.num <= config.num + 1
    /\ r.pc = "claimPut" /\ r.nxt # Nil => r.nxt.num < r.new.num
    /\ r.pc = "claimed" /\ r.new.num = config.num + 1 => configNext = r.new

\* One that has read the current configuration in order to take over a change
RecoverInv(r) ==
  r.pc = "recover" =>
    /\ r.cur # Nil /\ r.cur.num <= config.num /\ 1 <= r.cur.num
    /\ r.cur.num = config.num => r.cur = config
    /\ r.cur.num + 1 = config.num => finished(r.cur, config)

\* One that moves shards: for a change that is over, or for the one that is under way
MoveInv(r) ==
  r.pc \in Past =>
    /\ r.cur # Nil /\ r.new # Nil
    /\ r.new.num = r.cur.num + 1 /\ r.new.num <= config.num + 1
    /\ r.new.num <= config.num => finished(r.cur, r.new)
    /\ r.new.num = config.num + 1 => r.cur = config /\ r.new = configNext
    /\ r.pc \in Moving => r.at \in Shard /\ r.cur.shards[r.at] # r.new.shards[r.at]

\* and how far it has come with that one
ProgressInv(r) ==
  r.pc \in Past /\ r.new.num = config.num + 1 =>
    /\ r.pc \in Moving => \A s \in Shard : s < r.at /\ moves(s) => arrived(s)
    /\ r.pc = "install" => installable(r.at, r.state)
    /\ r.pc = "delete" => arrived(r.at)
    /\ r.pc = "publish" => \A s \in Shard : moves(s) => arrived(s)

ControllerInv(r) == ClaimInv(r) /\ RecoverInv(r) /\ MoveInv(r) /\ ProgressInv(r)

\* The inductive invariant
ShardInv ==
  /\ Types /\ NextInv /\ GroupInv /\ DataInv
  /\ \A q \in late : sound(q)
  /\ \A c \in Ctrler : ControllerInv(ctl[c])

-----------------------------------------------------------------------------
\* What a step leaves to the controllers and the late requests when it publishes nothing
\* and claims nothing: what came too late still does, and what has been moved stays so.
Keeps ==
  /\ UNCHANGED <<config, configNext>>
  /\ \A g \in Gid, s \in Shard, n \in Nat, i \in BOOLEAN :
       n <= config.num /\ harmless(g, s, n, i) => harmless(g, s, n, i)'
  /\ \A s \in Shard : left(s) => left(s)'
  /\ \A s \in Shard : changing /\ arrived(s) => arrived(s)'
  /\ \A k \in Key : changing /\ moves(k) /\ left(k) => arrived(k)' \/ store'[k] = store[k]

\* A complete configuration gives every shard to a group.
LEMMA Groups ==
  ASSUME NEW f \in Complete
  PROVE  /\ f.num \in Nat /\ f.groups \in SUBSET Gid /\ f.groups # {} /\ f # Nil
         /\ f \in ShardConfig
         /\ \A s \in Shard : f.shards[s] \in Gid /\ f.shards[s] \in f.groups
BY ShardAssumption DEF Complete, ShardConfig

\* Such a step keeps every request sound.
LEMMA SoundKept ==
  ASSUME GroupTypes, ControlTypes, Keeps, NEW q \in ShardRPC, sound(q)
  PROVE  sound(q)'
<1>1. q.gid \in Gid /\ q.shard \in Shard /\ q.num \in Nat /\ (q.type = "Install") \in BOOLEAN
  BY DEF ShardRPC
<1>2. config.num \in Nat
  BY Groups DEF ControlTypes
<1>3. (q.num <= config.num => harmless(q.gid, q.shard, q.num, q.type = "Install"))'
  BY <1>1 DEF Keeps, sound
<1>4. UNCHANGED <<config, configNext>>
  BY DEF Keeps
<1>5. q.num = config.num + 1 /\ q.type = "Install" => installable(q.shard, q.data)'
  BY <1>1, <1>4 DEF Keeps, sound, installable, changing
<1> QED BY <1>1, <1>3, <1>4, <1>5 DEF Keeps, sound, changing, moves

\* A change that is over stays so.
LEMMA FinishedKept ==
  ASSUME Keeps, NEW f \in Complete, NEW h \in Complete, h.num <= config.num, finished(f, h)
  PROVE  finished(f, h)'
<1>1. \A s \in Shard : f.shards[s] \in Gid /\ h.shards[s] \in Gid
  BY Groups
<1>2. h.num \in Nat
  BY Groups
<1> QED BY <1>1, <1>2 DEF Keeps, finished

\* Such a step keeps every controller's place.
LEMMA ControllerKept ==
  ASSUME GroupTypes, ControlTypes, Keeps, NEW r \in Controller, ControllerInv(r)
  PROVE  ControllerInv(r)'
<1>1. UNCHANGED <<config, configNext>>
  BY DEF Keeps
<1>2. config \in Complete /\ config.num \in Nat
  BY Groups DEF ControlTypes
<1>3. ClaimInv(r)'
  BY <1>1 DEF ControllerInv, ClaimInv
<1>4. RecoverInv(r)'
  <2> SUFFICES ASSUME r.pc = "recover" PROVE RecoverInv(r)'
    BY DEF RecoverInv
  <2>1. r.cur \in Complete
    BY DEF ControllerInv, RecoverInv, Controller
  <2>2. r.cur.num + 1 = config.num => finished(r.cur, config)'
    <3> PICK h \in Complete : h = config
      BY <1>2
    <3>1. r.cur.num + 1 = h.num => finished(r.cur, h)'
      BY <1>2, <2>1, FinishedKept DEF ControllerInv, RecoverInv
    <3> QED BY <1>1, <3>1 DEF finished
  <2> QED BY <1>1, <2>2 DEF ControllerInv, RecoverInv, finished, harmless
<1>5. MoveInv(r)'
  <2> SUFFICES ASSUME r.pc \in Past PROVE MoveInv(r)'
    BY DEF MoveInv
  <2>1. r.cur \in Complete /\ r.new \in Complete
    BY DEF ControllerInv, MoveInv, Controller
  <2>2. r.new.num <= config.num => finished(r.cur, r.new)'
    BY <2>1, FinishedKept DEF ControllerInv, MoveInv
  <2> QED BY <1>1, <2>2 DEF ControllerInv, MoveInv
<1>6. ProgressInv(r)'
  <2> SUFFICES ASSUME r.pc \in Past, r.new.num = config.num + 1 PROVE ProgressInv(r)'
    BY <1>1 DEF ProgressInv
  <2>1. changing /\ r.cur = config /\ r.new = configNext
    BY DEF ControllerInv, MoveInv, changing
  <2>2. r.pc \in Moving => r.at \in Shard /\ moves(r.at)
    BY <2>1 DEF ControllerInv, MoveInv, moves
  <2>3. r.pc = "install" => installable(r.at, r.state)'
    BY <2>1, <2>2 DEF Keeps, ControllerInv, ProgressInv, installable, Moving
  <2> QED BY <1>1, <2>1, <2>2, <2>3 DEF Keeps, ControllerInv, ProgressInv, moves, Moving
<1> QED BY <1>3, <1>4, <1>5, <1>6 DEF ControllerInv

\* Executing a sound request keeps the groups' invariants.  A request of a change that is
\* over touches nothing that is served; one of the change under way freezes the old group,
\* installs in the new one what was frozen, or deletes what has been installed.
LEMMA PerformInv ==
  ASSUME GroupTypes, ControlTypes, NextInv, GroupInv, DataInv, store \in [Key -> Node],
         NEW q \in ShardRPC, sound(q), perform(q), UNCHANGED <<config, configNext, store>>
  PROVE  GroupTypes' /\ GroupInv' /\ DataInv' /\ Keeps
<1> DEFINE g == q.gid
           s == q.shard
           N == config.num
<1> USE ShardAssumption
<1>1. g \in Gid /\ s \in Shard /\ q.num \in Nat /\ q.data \in Node
      /\ q.type \in {"Freeze", "Install", "Delete"}
  BY DEF ShardRPC
<1>2. N \in Nat /\ \A i \in Shard : config.shards[i] \in Gid
  BY Groups DEF ControlTypes
<1>3. changing => \A i \in Shard : configNext.shards[i] \in Gid
  BY Groups DEF ControlTypes, changing
<1>4. NoNode \in Node
  BY DEF NoNode, Node
<1>5. CASE ignored(q)
  <2>1. UNCHANGED groupVars
    BY <1>5 DEF perform
  <2> QED BY <2>1 DEF groupVars, GroupTypes, GroupInv, DataInv, Keeps, harmless, left, arrived,
                      changing, moves
<1>6. CASE ~ ignored(q)
  <2> DEFINE data == CASE q.type = "Freeze" -> shards[g][s]
                       [] q.type = "Install" -> q.data
                       [] q.type = "Delete" -> NoNode
  <2>1. /\ num' = [num EXCEPT ![g][s] = q.num]
        /\ served' = [served EXCEPT ![g][s] = q.type = "Install"]
        /\ shards' = [shards EXCEPT ![g][s] = data]
    BY <1>6 DEF perform
  <2>2. data \in Node
    BY <1>1, <1>4 DEF GroupTypes
  <2> HIDE DEF data
  <2>3. GroupTypes'
    BY <1>1, <2>1, <2>2 DEF GroupTypes
  <2>4. \A h \in Gid, i \in Shard :
          /\ num'[h][i] = IF h = g /\ i = s THEN q.num ELSE num[h][i]
          /\ served'[h][i] = IF h = g /\ i = s THEN q.type = "Install" ELSE served[h][i]
          /\ shards'[h][i] = IF h = g /\ i = s THEN data ELSE shards[h][i]
    BY <1>1, <2>1 DEF GroupTypes
  <2>5. q.num >= num[g][s] /\ num[g][s] \in Nat
    BY <1>1, <1>6 DEF ignored, stale, GroupTypes
  <2>6. q.num <= N + 1
    BY DEF sound
  <2>7. CASE q.num <= N
    <3>1. q.num = num[g][s] /\ served[g][s] = FALSE /\ q.type # "Install"
      BY <1>1, <1>6, <2>5, <2>7 DEF sound, harmless, ignored, installed, GroupTypes
    <3>2. num' = num /\ served' = served
      BY <1>1, <2>1, <3>1 DEF GroupTypes
    <3>3. GroupInv' /\ Keeps
      BY <3>2 DEF GroupInv, Keeps, harmless, changing, moves, left, arrived
    <3>4. config.shards[s] # g
      BY <1>1, <2>7, <3>1 DEF GroupInv
    <3>5. DataInv'
      <4> SUFFICES ASSUME NEW k \in Key
                   PROVE  /\ \A h \in Gid : served[h][k] => shards'[h][k] = store[k]
                          /\ changing /\ moves(k) /\ ~ arrived(k)
                               => shards'[config.shards[k]][k] = store[k]
        BY <3>2 DEF DataInv, changing, moves, arrived
      <4>1. k \in Shard
        OBVIOUS
      <4> QED BY <1>2, <2>4, <3>1, <3>4, <4>1 DEF DataInv
    <3> QED BY <2>3, <3>3, <3>5
  <2>8. CASE q.num = N + 1
    <3>1. changing /\ moves(s)
      BY <2>8 DEF sound
    <3>2. UNCHANGED <<changing, N>> /\ \A i \in Shard : moves(i)' = moves(i)
      BY DEF changing, moves
    <3>3. \A i \in Shard : left(i) => left(i)'
      BY <1>1, <1>2, <2>4, <2>5, <2>8 DEF left
    <3>4. \A i \in Shard : arrived(i) => arrived(i)'
      BY <1>1, <1>3, <2>4, <2>5, <2>8, <3>1 DEF arrived
    <3>5. ASSUME NEW h \in Gid, NEW i \in Shard, NEW n \in Nat, NEW b \in BOOLEAN,
                 n <= N, harmless(h, i, n, b)
          PROVE  harmless(h, i, n, b)'
      BY <1>2, <2>4, <2>8, <3>5 DEF harmless
    <3>6. Keeps
      BY <3>3, <3>4, <3>5 DEF Keeps
    <3>7. CASE q.type # "Install"
      <4>0. ~ served'[g][s]
        <5>1. (q.type = "Install") = FALSE
          BY <3>7
        <5>2. served' = [served EXCEPT ![g][s] = FALSE]
          BY <2>1, <5>1
        <5> QED BY <1>1, <5>2 DEF GroupTypes
      <4>1. g = config.shards[s] /\ left(s)'
        BY <1>1, <2>4, <2>8, <3>7 DEF sound, left
      <4>2. GroupInv'
        <5> SUFFICES ASSUME NEW h \in Gid, NEW i \in Shard
                     PROVE  /\ num'[h][i] <= N + 1
                            /\ num'[h][i] <= N => (served'[h][i] <=> config.shards[i] = h)
                            /\ num'[h][i] = N + 1 =>
                                 /\ changing /\ moves(i) /\ left(i)'
                                 /\ \/ h = config.shards[i] /\ ~ served'[h][i]
                                    \/ h = configNext.shards[i] /\ served'[h][i]
          BY <3>2 DEF GroupInv
        <5>1. CASE h = g /\ i = s
          BY <1>2, <2>4, <2>8, <3>1, <4>0, <4>1, <5>1
        <5>2. CASE ~ (h = g /\ i = s)
          BY <2>4, <3>3, <5>2 DEF GroupInv
        <5> QED BY <5>1, <5>2
      <4>3. DataInv'
        <5> SUFFICES ASSUME NEW k \in Key
                     PROVE  /\ \A h \in Gid : served'[h][k] => shards'[h][k] = store[k]
                            /\ changing /\ moves(k) /\ ~ arrived(k)'
                                 => shards'[config.shards[k]][k] = store[k]
          BY <3>2 DEF DataInv
        <5>1. k \in Shard
          OBVIOUS
        <5>2. \A h \in Gid : served'[h][k] => shards'[h][k] = store[k]
          BY <2>4, <4>0, <5>1 DEF DataInv
        <5>3. ASSUME moves(k), ~ arrived(k)' PROVE shards'[config.shards[k]][k] = store[k]
          <6>1. ~ arrived(k)
            BY <3>4, <5>1, <5>3
          <6>2. shards[config.shards[k]][k] = store[k]
            BY <3>1, <5>3, <6>1 DEF DataInv
          <6>3. k = s => q.type = "Freeze"
            BY <1>1, <2>8, <3>7, <6>1 DEF sound
          <6>4. k = s => data = shards[g][s]
            BY <6>3 DEF data
          <6> QED BY <1>2, <2>4, <4>1, <5>1, <6>2, <6>4
        <5> QED BY <5>2, <5>3
      <4> QED BY <2>3, <3>6, <4>2, <4>3
    <3>8. CASE q.type = "Install"
      <4>0. served'[g][s]
        <5>1. (q.type = "Install") = TRUE
          BY <3>8
        <5>2. served' = [served EXCEPT ![g][s] = TRUE]
          BY <2>1, <5>1
        <5> QED BY <1>1, <5>2 DEF GroupTypes
      <4>1. g = configNext.shards[s] /\ left(s) /\ g # config.shards[s]
        BY <2>8, <3>1, <3>8 DEF sound, installable, moves
      <4>2. ~ arrived(s) /\ num[g][s] <= N
        <5>1. num[g][s] # N + 1
          BY <1>1, <1>6, <2>8, <3>8, <4>1 DEF GroupInv, ignored, installed
        <5> QED BY <1>2, <2>5, <2>8, <4>1, <5>1 DEF arrived
      <4>3. data = q.data
        BY <3>8 DEF data
      <4>4. GroupInv'
        <5> SUFFICES ASSUME NEW h \in Gid, NEW i \in Shard
                     PROVE  /\ num'[h][i] <= N + 1
                            /\ num'[h][i] <= N => (served'[h][i] <=> config.shards[i] = h)
                            /\ num'[h][i] = N + 1 =>
                                 /\ changing /\ moves(i) /\ left(i)'
                                 /\ \/ h = config.shards[i] /\ ~ served'[h][i]
                                    \/ h = configNext.shards[i] /\ served'[h][i]
          BY <3>2 DEF GroupInv
        <5>1. CASE h = g /\ i = s
          BY <1>2, <2>4, <2>8, <3>1, <3>3, <4>0, <4>1, <5>1
        <5>2. CASE ~ (h = g /\ i = s)
          BY <2>4, <3>3, <5>2 DEF GroupInv
        <5> QED BY <5>1, <5>2
      <4>5. DataInv'
        <5> SUFFICES ASSUME NEW k \in Key
                     PROVE  /\ \A h \in Gid : served'[h][k] => shards'[h][k] = store[k]
                            /\ changing /\ moves(k) /\ ~ arrived(k)'
                                 => shards'[config.shards[k]][k] = store[k]
          BY <3>2 DEF DataInv
        <5>1. k \in Shard
          OBVIOUS
        <5>2. k = s => data = store[k]
          BY <2>8, <3>8, <4>2, <4>3 DEF sound, installable
        <5>3. \A h \in Gid : served'[h][k] => shards'[h][k] = store[k]
          BY <2>4, <5>1, <5>2 DEF DataInv
        <5>4. ASSUME moves(k), ~ arrived(k)' PROVE shards'[config.shards[k]][k] = store[k]
          <6>1. ~ arrived(k)
            BY <3>4, <5>1, <5>4
          <6>2. shards[config.shards[k]][k] = store[k]
            BY <3>1, <5>4, <6>1 DEF DataInv
          <6> QED BY <1>2, <2>4, <5>1, <5>2, <6>2
        <5> QED BY <5>3, <5>4
      <4> QED BY <2>3, <3>6, <4>4, <4>5
    <3> QED BY <3>7, <3>8
  <2> QED BY <1>2, <2>6, <2>7, <2>8, <1>1
<1> QED BY <1>5, <1>6

-----------------------------------------------------------------------------
\* A controller of its own accord: the next shard of the loop is the first that has not
\* been moved, so the ones before it have arrived.
LEMMA AtNextInv ==
  ASSUME ControlTypes, NEW cur \in Complete, NEW new \in Complete, NEW s \in Shard \cup {0},
         new.num = cur.num + 1, new.num <= config.num + 1,
         new.num <= config.num => finished(cur, new),
         new.num = config.num + 1 =>
           /\ cur = config /\ new = configNext
           /\ \A i \in Shard : i <= s /\ moves(i) => arrived(i)
  PROVE  atNext(cur, new, s) \in Controller /\ ControllerInv(atNext(cur, new, s))
<1> DEFINE rest == toMove(cur, new, s)
           r == atNext(cur, new, s)
<1> USE ShardAssumption
<1>1. NoNode \in Node /\ cur # Nil /\ new # Nil
  BY Groups DEF NoNode, Node
<1>2. s \in Nat /\ \A i \in Shard : i \in Nat
  BY DEF Shard
<1>3. CASE rest = {}
  <2>1. r = [pc |-> "publish", cur |-> cur, new |-> new, nxt |-> Nil, at |-> 0, state |-> NoNode]
    BY <1>3 DEF atNext, Returned
  <2>2. r \in Controller
    BY <1>1, <2>1 DEF Controller, Past
  <2>3. ASSUME NEW i \in Shard, cur.shards[i] # new.shards[i] PROVE i <= s
    <3>1. i \notin toMove(cur, new, s)
      BY <1>3
    <3>2. ~ (i > s)
      BY <2>3, <3>1 DEF toMove
    <3>3. i \in Nat /\ s \in Nat
      BY <1>2
    <3> QED BY <3>2, <3>3
  <2>4. new.num = config.num + 1 => \A i \in Shard : moves(i) => arrived(i)
    BY <2>3 DEF moves
  <2>5. ControllerInv(r)
    BY <1>1, <2>1, <2>4 DEF ControllerInv, ClaimInv, RecoverInv, MoveInv, ProgressInv, Claiming,
                            Moving
  <2> QED BY <2>2, <2>5
<1>4. CASE rest # {}
  <2>1. PICK x \in rest : \A y \in rest : x <= y
    <3>1. rest \in SUBSET Nat
      BY <1>2 DEF toMove
    <3> QED BY <1>4, <3>1, Least
  <2> DEFINE m == Min(rest)
  <2>2. m \in rest /\ \A y \in rest : m <= y
    BY <2>1 DEF Min
  <2>3. r = [pc |-> "freeze", cur |-> cur, new |-> new, nxt |-> Nil, at |-> m, state |-> NoNode]
    BY <1>4 DEF atNext, Returned
  <2> HIDE DEF m
  <2>4. m \in Shard /\ cur.shards[m] # new.shards[m]
    BY <2>2 DEF toMove
  <2>5. r \in Controller
    BY <1>1, <2>3, <2>4 DEF Controller, Past, Moving
  <2>6. \A i \in Shard : i < m /\ cur.shards[i] # new.shards[i] => i <= s
    BY <1>2, <2>2, <2>4 DEF toMove
  <2>7. new.num = config.num + 1 => \A i \in Shard : i < m /\ moves(i) => arrived(i)
    BY <2>6 DEF moves
  <2>8. ControllerInv(r)
    BY <1>1, <2>3, <2>4, <2>7
       DEF ControllerInv, ClaimInv, RecoverInv, MoveInv, ProgressInv, Claiming, Moving
  <2> QED BY <2>5, <2>8
<1> QED BY <1>3, <1>4

\* A controller that does nothing keeps every promise.
LEMMA ReturnedInv == Returned \in Controller /\ ControllerInv(Returned)
<1>1. NoNode \in Node
  BY ShardAssumption DEF NoNode, Node
<1> QED BY <1>1 DEF Returned, Controller, ControllerInv, ClaimInv, RecoverInv, MoveInv,
                    ProgressInv, Claiming, Past, Moving

\* A step of a controller that neither claims nor publishes.
LEMMA ControllerStep ==
  ASSUME ShardInv, Keeps, GroupTypes', GroupInv', DataInv', UNCHANGED <<clerkVars, ghostVars>>,
         NEW c \in Ctrler, NEW r \in Controller, ctl' = [ctl EXCEPT ![c] = r], ControllerInv(r)',
         late' \in SUBSET ShardRPC, lates' \in Nat, \A q \in late' : q \in late \/ sound(q)
  PROVE  ShardInv'
<1> USE DEF ShardInv, Types
<1>1. UNCHANGED <<config, configNext>>
  BY DEF Keeps
<1>2. ControlTypes'
  BY <1>1 DEF ControlTypes
<1>3. ClerkTypes'
  BY DEF ClerkTypes, clerkVars, ghostVars
<1>4. NextInv'
  BY <1>1 DEF NextInv
<1>5. ASSUME NEW q \in late' PROVE sound(q)'
  BY SoundKept
<1>6. ASSUME NEW d \in Ctrler PROVE ControllerInv(ctl[d])'
  <2>1. CASE d = c
    <3>1. ctl'[d] = r
      BY <2>1 DEF ControlTypes
    <3> QED BY <3>1 DEF ControllerInv, ClaimInv, RecoverInv, MoveInv, ProgressInv, finished
  <2>2. CASE d # c
    <3> PICK x \in Controller : x = ctl[d]
      BY DEF ControlTypes
    <3>1. ctl'[d] = x
      BY <2>2 DEF ControlTypes
    <3>2. ControllerInv(x)'
      BY ControllerKept
    <3> QED BY <3>1, <3>2 DEF ControllerInv, ClaimInv, RecoverInv, MoveInv, ProgressInv, finished
  <2> QED BY <2>1, <2>2
<1> QED BY <1>2, <1>3, <1>4, <1>5, <1>6

\* A step that changes nothing but the controller's own variables.
LEMMA LocalStep ==
  ASSUME ShardInv, UNCHANGED <<config, configNext, groupVars, late, lates, clerkVars, ghostVars>>,
         NEW c \in Ctrler, NEW r \in Controller, ctl' = [ctl EXCEPT ![c] = r], ControllerInv(r)
  PROVE  ShardInv'
<1>1. UNCHANGED <<config, configNext, shards, served, num, late, lates, store>>
  BY DEF groupVars, ghostVars
<1>2. Keeps
  BY <1>1 DEF Keeps, harmless, left, arrived, changing
<1>3. GroupTypes' /\ GroupInv' /\ DataInv'
  BY <1>1 DEF ShardInv, Types, GroupTypes, GroupInv, DataInv, changing, moves, left, arrived
<1>4. ControllerInv(r)'
  BY <1>2, ControllerKept DEF ShardInv, Types
<1>5. late' \in SUBSET ShardRPC /\ lates' \in Nat /\ \A q \in late' : q \in late
  BY <1>1 DEF ShardInv, Types, ControlTypes
<1> QED BY <1>2, <1>3, <1>4, <1>5, ControllerStep

-----------------------------------------------------------------------------
\* Whatever a controller sends is sound.
LEMMA RequestSound ==
  ASSUME ShardInv, NEW c \in Ctrler,
         NEW type \in {"Freeze", "Install", "Delete"}, NEW g,
         \/ type = "Freeze" /\ ctl[c].pc = "freeze" /\ g = src(c)
         \/ type = "Install" /\ ctl[c].pc = "install" /\ g = dst(c)
         \/ type = "Delete" /\ ctl[c].pc = "delete" /\ g = src(c)
  PROVE  request(c, type, g) \in ShardRPC /\ sound(request(c, type, g))
<1> USE ShardAssumption DEF ShardInv, Types
<1> DEFINE r == ctl[c]
           q == request(c, type, g)
<1>1. r \in Controller /\ r.pc \in Moving /\ r.pc \in Past /\ ControllerInv(r)
  BY DEF ControlTypes, Moving, Past
<1>2. r.cur \in Complete /\ r.new \in Complete /\ r.at \in Shard /\ r.state \in Node
      /\ r.cur.shards[r.at] # r.new.shards[r.at]
  BY <1>1 DEF Controller, ControllerInv, MoveInv
<1>3. g \in Gid /\ r.new.num \in Nat
  BY <1>2, Groups DEF src, dst
<1>4. NoNode \in Node
  BY DEF NoNode, Node
<1>5. /\ q.type = type /\ q.gid = g /\ q.shard = r.at /\ q.num = r.new.num
      /\ q.data = IF type = "Install" THEN r.state ELSE NoNode
  BY DEF request
<1>6. q \in ShardRPC
  BY <1>2, <1>3, <1>4 DEF request, ShardRPC
<1>7. config.num \in Nat
  BY Groups DEF ControlTypes
<1>8. CASE r.new.num <= config.num
  <2>1. finished(r.cur, r.new)
    BY <1>1, <1>8 DEF ControllerInv, MoveInv
  <2>2. harmless(g, r.at, r.new.num, type = "Install")
    BY <1>2, <2>1 DEF finished, src, dst, harmless
  <2>3. sound(q)
    <3> HIDE DEF q
    <3> QED BY <1>3, <1>5, <1>7, <1>8, <2>2 DEF sound
  <2> QED BY <1>6, <2>3
<1>9. CASE r.new.num = config.num + 1
  <2>1. r.cur = config /\ r.new = configNext /\ changing /\ moves(r.at)
    BY <1>1, <1>2, <1>9 DEF ControllerInv, MoveInv, changing, moves
  <2>2. type = "Install" => installable(r.at, r.state)
    BY <1>1, <1>9 DEF ControllerInv, ProgressInv
  <2>3. type = "Delete" => arrived(r.at)
    BY <1>1, <1>9 DEF ControllerInv, ProgressInv
  <2>4. type # "Install" => g = config.shards[r.at]
    BY <2>1 DEF src
  <2>5. type = "Install" => g = configNext.shards[r.at]
    BY <2>1 DEF dst
  <2>6. sound(q)
    <3> HIDE DEF q
    <3> QED BY <1>3, <1>5, <1>7, <1>9, <2>1, <2>2, <2>3, <2>4, <2>5 DEF sound
  <2> QED BY <1>6, <2>6
<1>10. r.new.num <= config.num + 1
  BY <1>1 DEF ControllerInv, MoveInv
<1> QED BY <1>3, <1>7, <1>8, <1>9, <1>10

\* A step that sends a sound request: a copy may be left behind, and the group executes
\* it or not.
LEMMA RPCStep ==
  ASSUME ShardInv, NEW c \in Ctrler, NEW q \in ShardRPC, sound(q), mayLinger(q),
         perform(q) \/ UNCHANGED groupVars,
         UNCHANGED <<config, configNext, clerkVars, ghostVars>>,
         NEW r \in Controller, ctl' = [ctl EXCEPT ![c] = r],
         GroupTypes' /\ GroupInv' /\ DataInv' /\ Keeps => ControllerInv(r)'
  PROVE  ShardInv'
<1> USE DEF ShardInv, Types
<1>1. UNCHANGED store
  BY DEF ghostVars
<1>2. GroupTypes' /\ GroupInv' /\ DataInv' /\ Keeps
  <2>1. CASE perform(q)
    BY <1>1, <2>1, PerformInv DEF ClerkTypes
  <2>2. CASE UNCHANGED groupVars
    BY <1>1, <2>2 DEF groupVars, GroupTypes, GroupInv, DataInv, Keeps, harmless, left, arrived,
                      changing, moves
  <2> QED BY <2>1, <2>2
<1>3. late' \in SUBSET ShardRPC /\ lates' \in Nat /\ \A x \in late' : x \in late \/ sound(x)
  BY DEF mayLinger, ControlTypes
<1> QED BY <1>2, <1>3, ControllerStep

\* moveTo returns because the group has seen a later configuration, or could not be
\* reached; in the first case there is nothing left to publish.
LEMMA EndLoopInv ==
  ASSUME ShardInv, NEW c \in Ctrler, ctl[c].pc \in Moving, NEW l \in {"publish", "reread"},
         l = "publish" => ctl[c].new.num <= config.num
  PROVE  LET r == [ctl[c] EXCEPT !.pc = l, !.at = 0, !.state = NoNode]
         IN r \in Controller /\ ControllerInv(r)
<1> USE DEF ShardInv, Types
<1> DEFINE x == ctl[c]
           r == [x EXCEPT !.pc = l, !.at = 0, !.state = NoNode]
<1>1. x \in Controller /\ ControllerInv(x) /\ x.pc \in Past /\ NoNode \in Node
  BY ShardAssumption DEF ControlTypes, Past, NoNode, Node
<1>2. r \in Controller
  BY <1>1 DEF Controller, Past
<1>3. r.pc = l /\ r.cur = x.cur /\ r.new = x.new
  BY <1>1 DEF Controller
<1> HIDE DEF r, x
<1>4. ClaimInv(r) /\ RecoverInv(r)
  BY <1>3 DEF ClaimInv, RecoverInv, Claiming
<1>5. MoveInv(r)
  BY <1>1, <1>3 DEF ControllerInv, MoveInv, Moving
<1>6. config.num \in Nat /\ x.new.num \in Nat
  <2>1. x.new \in Complete
    BY <1>1 DEF ControllerInv, MoveInv, Controller
  <2> QED BY <2>1, Groups DEF ControlTypes
<1>7. ProgressInv(r)
  BY <1>3, <1>6 DEF ProgressInv, Moving, x
<1> QED BY <1>2, <1>4, <1>5, <1>7 DEF ControllerInv, r, x

\* An RPC that ends the loop.
LEMMA EndLoopStep ==
  ASSUME ShardInv, NEW c \in Ctrler, ctl[c].pc \in Moving,
         NEW q \in ShardRPC, sound(q), q.num = ctl[c].new.num, mayLinger(q),
         \/ perform(q) /\ stale(q) /\ endLoop(c, "publish")
         \/ endLoop(c, "reread") /\ UNCHANGED groupVars,
         UNCHANGED <<config, configNext, clerkVars, ghostVars>>
  PROVE  ShardInv'
<1>1. PICK l \in {"publish", "reread"} :
        /\ endLoop(c, l)
        /\ perform(q) \/ UNCHANGED groupVars
        /\ l = "publish" => stale(q)
  OBVIOUS
<1>2. l = "publish" => ctl[c].new.num <= config.num
  <2>1. q.gid \in Gid /\ q.shard \in Shard /\ q.num \in Nat /\ config.num \in Nat
    BY Groups DEF ShardRPC, ShardInv, Types, ControlTypes
  <2>2. num[q.gid][q.shard] \in Nat /\ num[q.gid][q.shard] <= config.num + 1
    BY <2>1 DEF ShardInv, Types, GroupTypes, GroupInv
  <2> QED BY <1>1, <2>1, <2>2 DEF stale
<1> DEFINE x == [ctl[c] EXCEPT !.pc = l, !.at = 0, !.state = NoNode]
<1>3. x \in Controller /\ ControllerInv(x)
  BY <1>2, EndLoopInv
<1>4. ctl' = [ctl EXCEPT ![c] = x]
  BY <1>1 DEF endLoop, become
<1> PICK r \in Controller : r = x
  BY <1>3
<1>5. GroupTypes /\ ControlTypes
  BY DEF ShardInv, Types
<1>6. Keeps => ControllerInv(r)'
  BY <1>3, <1>5, ControllerKept
<1> QED BY <1>1, <1>4, <1>6, RPCStep

\* FreezeShard: the shard is frozen, and what the controller got is what was written last
\* unless somebody else has installed it already.
LEMMA FreezeStep ==
  ASSUME ShardInv, NEW c \in Ctrler, FreezeShard(c)
  PROVE  ShardInv'
<1> DEFINE g == src(c)
           s == ctl[c].at
           q == request(c, "Freeze", g)
<1>1. ctl[c].pc = "freeze" /\ ctl[c].pc \in Moving
  BY DEF FreezeShard, Moving
<1>2. q \in ShardRPC /\ sound(q)
  BY <1>1, RequestSound
<1>3. q.type = "Freeze" /\ q.gid = g /\ q.shard = s /\ q.num = ctl[c].new.num
  BY DEF request
<1> PICK x \in Controller : x = ctl[c]
  BY DEF ShardInv, Types, ControlTypes
<1>4. x.pc \in Past /\ ControllerInv(x)
  BY <1>1 DEF ShardInv, Past
<1>5. x.cur \in Complete /\ x.new \in Complete /\ x.at \in Shard
  BY <1>1, <1>4 DEF ControllerInv, MoveInv, Controller
<1>6. srcOK(c)
  BY <1>5, Groups DEF srcOK, src
<1> DEFINE y == [ctl[c] EXCEPT !.pc = "install", !.state = shards[g][s]]
<1>7. mayLinger(q) /\ UNCHANGED <<config, configNext, clerkVars, ghostVars>>
      /\ \/ perform(q) /\ stale(q) /\ endLoop(c, "publish")
         \/ perform(q) /\ ~ stale(q) /\ become(c, y)
         \/ endLoop(c, "reread") /\ UNCHANGED groupVars
  BY <1>6 DEF FreezeShard, shardRPC
<1>8. CASE perform(q) /\ ~ stale(q) /\ become(c, y)
  <2>1. g \in Gid /\ s \in Shard /\ shards[g][s] \in Node
    BY <1>5, Groups DEF src, ShardInv, Types, GroupTypes
  <2>2. y \in Controller
    BY <2>1 DEF Controller, Past, Moving
  <2> PICK r \in Controller : r = y
    BY <2>2
  <2>3. r.pc = "install" /\ r.cur = x.cur /\ r.new = x.new /\ r.at = x.at
        /\ r.state = shards[g][s]
    BY DEF Controller
  <2>4. ASSUME GroupTypes', GroupInv', DataInv', Keeps PROVE ControllerInv(r)'
    <3>1. ControllerInv(x)'
      BY <1>4, <2>4, ControllerKept DEF ShardInv, Types
    <3>2. ClaimInv(r)' /\ RecoverInv(r)'
      BY <2>3 DEF ClaimInv, RecoverInv, Claiming
    <3>3. MoveInv(r)'
      BY <1>1, <1>4, <2>3, <3>1 DEF ControllerInv, MoveInv, Past, Moving
    <3>4. ASSUME r.new.num = config'.num + 1 PROVE installable(r.at, r.state)'
      <4>1. x.cur = config /\ x.new = configNext /\ UNCHANGED <<config, configNext, store>>
        BY <1>4, <1>7, <2>3, <3>4 DEF ControllerInv, MoveInv, ghostVars
      <4>2. num'[g][s] = q.num
        <5>1. num' = [num EXCEPT ![g][s] = q.num]
          BY <1>3, <1>8 DEF perform, ignored
        <5> QED BY <2>1, <5>1 DEF ShardInv, Types, GroupTypes
      <4>3. left(x.at)'
        BY <1>3, <2>3, <3>4, <4>1, <4>2 DEF left, src
      <4>4. changing /\ moves(x.at)
        BY <1>1, <1>4, <2>3, <3>4, <4>1 DEF changing, moves, ControllerInv, MoveInv
      <4>5. x.at \in Key /\ ~ arrived(x.at)' => shards[g][s] = store[x.at]
        <5>1. arrived(x.at) => arrived(x.at)'
          BY <1>5, <2>4, <4>4 DEF Keeps
        <5>2. g = config.shards[x.at]
          BY <4>1 DEF src
        <5> QED BY <4>4, <5>1, <5>2 DEF ShardInv, DataInv
      <4> QED BY <2>3, <4>1, <4>3, <4>5 DEF installable
    <3>5. ProgressInv(r)'
      BY <1>1, <1>4, <2>3, <3>1, <3>4 DEF ControllerInv, ProgressInv, Past, Moving
    <3> QED BY <3>2, <3>3, <3>5 DEF ControllerInv
  <2>5. ctl' = [ctl EXCEPT ![c] = r]
    BY <1>8 DEF become
  <2> HIDE DEF q
  <2> QED BY <1>2, <1>7, <1>8, <2>4, <2>5, RPCStep
<1>9. CASE ~ (perform(q) /\ ~ stale(q) /\ become(c, y))
  <2> HIDE DEF q, y
  <2> QED BY <1>1, <1>2, <1>3, <1>7, <1>9, EndLoopStep
<1> QED BY <1>8, <1>9

\* InstallShard: the shard has arrived.
LEMMA InstallStep ==
  ASSUME ShardInv, NEW c \in Ctrler, InstallShard(c)
  PROVE  ShardInv'
<1> DEFINE g == dst(c)
           s == ctl[c].at
           q == request(c, "Install", g)
<1>1. ctl[c].pc = "install" /\ ctl[c].pc \in Moving
  BY DEF InstallShard, Moving
<1>2. q \in ShardRPC /\ sound(q)
  BY <1>1, RequestSound
<1>3. q.type = "Install" /\ q.gid = g /\ q.shard = s /\ q.num = ctl[c].new.num
  BY DEF request
<1> PICK x \in Controller : x = ctl[c]
  BY DEF ShardInv, Types, ControlTypes
<1>4. x.pc \in Past /\ ControllerInv(x)
  BY <1>1 DEF ShardInv, Past
<1>5. x.cur \in Complete /\ x.new \in Complete /\ x.at \in Shard
  BY <1>1, <1>4 DEF ControllerInv, MoveInv, Controller
<1>6. dstOK(c)
  BY <1>5, Groups DEF dstOK, dst
<1>7. mayLinger(q) /\ UNCHANGED <<config, configNext, clerkVars, ghostVars>>
      /\ \/ perform(q) /\ stale(q) /\ endLoop(c, "publish")
         \/ perform(q) /\ ~ stale(q) /\ goto(c, "delete")
         \/ endLoop(c, "reread") /\ UNCHANGED groupVars
  BY <1>6 DEF InstallShard, shardRPC
<1>8. CASE perform(q) /\ ~ stale(q) /\ goto(c, "delete")
  <2> DEFINE y == [x EXCEPT !.pc = "delete"]
  <2>1. g \in Gid /\ s \in Shard
    BY <1>5, Groups DEF dst
  <2>2. y \in Controller
    BY <2>1 DEF Controller, Past, Moving
  <2> PICK r \in Controller : r = y
    BY <2>2
  <2>3. r.pc = "delete" /\ r.cur = x.cur /\ r.new = x.new /\ r.at = x.at
    BY DEF Controller
  <2>4. ASSUME GroupTypes', GroupInv', DataInv', Keeps PROVE ControllerInv(r)'
    <3>1. ControllerInv(x)'
      BY <1>4, <2>4, ControllerKept DEF ShardInv, Types
    <3>2. ClaimInv(r)' /\ RecoverInv(r)'
      BY <2>3 DEF ClaimInv, RecoverInv, Claiming
    <3>3. MoveInv(r)'
      BY <1>1, <1>4, <2>3, <3>1 DEF ControllerInv, MoveInv, Past, Moving
    <3>4. ASSUME r.new.num = config'.num + 1 PROVE arrived(r.at)'
      <4>1. x.new = configNext /\ UNCHANGED <<config, configNext>>
        BY <1>4, <1>7, <2>3, <3>4 DEF ControllerInv, MoveInv
      <4>2. num'[g][s] = q.num
        <5>1. CASE ignored(q)
          BY <1>3, <1>8, <5>1 DEF perform, ignored, installed, groupVars
        <5>2. CASE ~ ignored(q)
          <6>1. num' = [num EXCEPT ![g][s] = q.num]
            BY <1>3, <1>8, <5>2 DEF perform
          <6> QED BY <2>1, <6>1 DEF ShardInv, Types, GroupTypes
        <5> QED BY <5>1, <5>2
      <4> QED BY <1>3, <2>3, <3>4, <4>1, <4>2 DEF arrived, dst
    <3>5. ProgressInv(r)'
      BY <1>1, <1>4, <2>3, <3>1, <3>4 DEF ControllerInv, ProgressInv, Past, Moving
    <3> QED BY <3>2, <3>3, <3>5 DEF ControllerInv
  <2>5. ctl' = [ctl EXCEPT ![c] = r]
    BY <1>8 DEF goto, ShardInv, Types, ControlTypes
  <2> HIDE DEF q
  <2> QED BY <1>2, <1>7, <1>8, <2>4, <2>5, RPCStep
<1>9. CASE ~ (perform(q) /\ ~ stale(q) /\ goto(c, "delete"))
  <2> HIDE DEF q
  <2> QED BY <1>1, <1>2, <1>3, <1>7, <1>9, EndLoopStep
<1> QED BY <1>8, <1>9

\* DeleteShard: on to the next shard.
LEMMA DeleteStep ==
  ASSUME ShardInv, NEW c \in Ctrler, DeleteShard(c)
  PROVE  ShardInv'
<1> DEFINE g == src(c)
           q == request(c, "Delete", g)
<1>1. ctl[c].pc = "delete" /\ ctl[c].pc \in Moving
  BY DEF DeleteShard, Moving
<1>2. q \in ShardRPC /\ sound(q)
  BY <1>1, RequestSound
<1>3. q.num = ctl[c].new.num
  BY DEF request
<1> PICK x \in Controller : x = ctl[c]
  BY DEF ShardInv, Types, ControlTypes
<1>4. x.pc \in Past /\ ControllerInv(x)
  BY <1>1 DEF ShardInv, Past
<1>5. x.cur \in Complete /\ x.new \in Complete /\ x.at \in Shard
  BY <1>1, <1>4 DEF ControllerInv, MoveInv, Controller
<1>6. srcOK(c)
  BY <1>5, Groups DEF srcOK, src
<1> DEFINE y == atNext(x.cur, x.new, x.at)
<1>7. mayLinger(q) /\ UNCHANGED <<config, configNext, clerkVars, ghostVars>>
      /\ \/ perform(q) /\ stale(q) /\ endLoop(c, "publish")
         \/ perform(q) /\ ~ stale(q) /\ become(c, y)
         \/ endLoop(c, "reread") /\ UNCHANGED groupVars
  BY <1>6 DEF DeleteShard, shardRPC, moveFrom
<1>8. CASE perform(q) /\ ~ stale(q) /\ become(c, y)
  <2>1. ControlTypes /\ GroupTypes
    BY DEF ShardInv, Types
  <2>2. x.new.num = config.num + 1 =>
          /\ x.cur = config /\ x.new = configNext
          /\ \A i \in Shard : i <= x.at /\ moves(i) => arrived(i)
    <3> SUFFICES ASSUME x.new.num = config.num + 1, NEW i \in Shard, i <= x.at, moves(i)
                 PROVE  x.cur = config /\ x.new = configNext /\ arrived(i)
      BY <1>4 DEF ControllerInv, MoveInv
    <3>1. i < x.at \/ i = x.at
      BY <1>5 DEF Shard
    <3> QED BY <1>1, <1>4, <3>1 DEF ControllerInv, MoveInv, ProgressInv
  <2>3. x.new.num = x.cur.num + 1 /\ x.new.num <= config.num + 1
        /\ (x.new.num <= config.num => finished(x.cur, x.new))
    BY <1>4 DEF ControllerInv, MoveInv
  <2>4. y \in Controller /\ ControllerInv(y)
    BY <1>5, <2>1, <2>2, <2>3, AtNextInv
  <2> PICK r \in Controller : r = y
    BY <2>4
  <2>5. Keeps => ControllerInv(r)'
    BY <2>1, <2>4, ControllerKept
  <2>6. ctl' = [ctl EXCEPT ![c] = r]
    BY <1>8 DEF become
  <2> HIDE DEF q, y
  <2> QED BY <1>2, <1>7, <1>8, <2>5, <2>6, RPCStep
<1>9. CASE ~ (perform(q) /\ ~ stale(q) /\ become(c, y))
  <2> HIDE DEF q, y
  <2> QED BY <1>1, <1>2, <1>3, <1>7, <1>9, EndLoopStep
<1> QED BY <1>8, <1>9

-----------------------------------------------------------------------------
\* The steps of a controller up to its first RPC

\* The tester's new configurations follow the current one and give every shard to a group.
LEMMA BalanceComplete ==
  ASSUME NEW f \in Complete, NEW g \in Gid
  PROVE  /\ canJoin(f, {g}) => /\ JoinBalance(f, {g}) \in Complete
                               /\ JoinBalance(f, {g}).num = f.num + 1
         /\ canLeave(f, {g}) /\ f.groups # {g} =>
              /\ LeaveBalance(f, {g}) \in Complete
              /\ LeaveBalance(f, {g}).num = f.num + 1
<1>1. f \in ShardConfig /\ f.num \in Nat /\ f.groups \in SUBSET Gid /\ f.groups # {}
  BY Groups
<1>2. Join(f, {g}) \in ShardConfig /\ Join(f, {g}).groups # {} /\ Join(f, {g}).num = f.num + 1
  BY <1>1 DEF Join, ShardConfig
<1>3. Leave(f, {g}) \in ShardConfig /\ Leave(f, {g}).groups = f.groups \ {g}
      /\ Leave(f, {g}).num = f.num + 1
  BY <1>1 DEF Leave, ShardConfig
<1>4. canLeave(f, {g}) /\ f.groups # {g} => f.groups \ {g} # {}
  BY DEF canLeave
<1> QED BY <1>2, <1>3, <1>4, RebalanceFacts DEF JoinBalance, LeaveBalance

\* ChangeConfigTo starts out with the configuration that follows.
LEMMA ChangeStep ==
  ASSUME ShardInv, NEW c \in Ctrler, NEW b \in Complete, b.num = config.num + 1,
         ChangeConfigTo(c, b)
  PROVE  ShardInv'
<1> DEFINE r == [Returned EXCEPT !.pc = "claim", !.new = b]
<1>1. r \in Controller /\ r.pc = "claim" /\ r.new = b
  BY ReturnedInv DEF Controller, Claiming
<1>2. config.num \in Nat /\ config.num >= 1 /\ b # Nil
  BY Groups DEF ShardInv, Types, ControlTypes, NextInv
<1>3. ControllerInv(r)
  <2> HIDE DEF r
  <2> QED BY <1>1, <1>2
        DEF ControllerInv, ClaimInv, RecoverInv, MoveInv, ProgressInv, Past, Moving
<1>4. ctl' = [ctl EXCEPT ![c] = r]
      /\ UNCHANGED <<config, configNext, groupVars, late, lates, clerkVars, ghostVars>>
  BY DEF ChangeConfigTo, become
<1> QED BY <1>1, <1>3, <1>4, LocalStep

\* A group joins.
LEMMA JoinStep ==
  ASSUME ShardInv, NEW c \in Ctrler, join(c)
  PROVE  ShardInv'
<1>1. config \in Complete
  BY DEF ShardInv, Types, ControlTypes
<1>2. PICK g \in Gid : canJoin(config, {g}) /\ ChangeConfigTo(c, JoinBalance(config, {g}))
  BY DEF join
<1>3. JoinBalance(config, {g}) \in Complete /\ JoinBalance(config, {g}).num = config.num + 1
  BY <1>1, <1>2, BalanceComplete
<1> QED BY <1>2, <1>3, ChangeStep

\* A group leaves.
LEMMA LeaveStep ==
  ASSUME ShardInv, NEW c \in Ctrler, leave(c)
  PROVE  ShardInv'
<1>1. config \in Complete
  BY DEF ShardInv, Types, ControlTypes
<1>2. PICK g \in Gid : /\ canLeave(config, {g}) /\ config.groups # {g}
                       /\ ChangeConfigTo(c, LeaveBalance(config, {g}))
  BY DEF leave
<1>3. LeaveBalance(config, {g}) \in Complete /\ LeaveBalance(config, {g}).num = config.num + 1
  BY <1>1, <1>2, BalanceComplete
<1> QED BY <1>2, <1>3, ChangeStep

\* claim reads: nobody has claimed this number yet.
LEMMA ClaimReadStep ==
  ASSUME ShardInv, NEW c \in Ctrler, claimRead(c)
  PROVE  ShardInv'
<1>1. UNCHANGED <<config, configNext, groupVars, late, lates, clerkVars, ghostVars>>
  BY DEF claimRead
<1>2. CASE reached(c) \/ taken(c)
  BY <1>1, <1>2, ReturnedInv, LocalStep DEF claimRead, return, become
<1>3. CASE ~ (reached(c) \/ taken(c))
  <2> DEFINE x == ctl[c]
             r == [x EXCEPT !.pc = "claimPut", !.nxt = configNext]
  <2>1. x \in Controller /\ ControllerInv(x) /\ x.pc = "claim"
        /\ configNext \in Complete \cup {Nil}
    BY DEF ShardInv, Types, ControlTypes, claimRead
  <2>2. r \in Controller /\ r.pc = "claimPut" /\ r.new = x.new /\ r.nxt = configNext
    BY <2>1 DEF Controller, Claiming
  <2>3. x.new \in Complete /\ configNext # Nil => configNext.num < x.new.num
    <3>1. x.new \in Complete => x.new.num \in Nat
      BY Groups
    <3>2. configNext # Nil => configNext.num \in Nat
      BY <2>1, Groups
    <3> QED BY <1>3, <3>1, <3>2 DEF taken
  <2>4. x.new \in Complete
    BY <2>1 DEF ControllerInv, ClaimInv, Controller, Claiming
  <2>5. ControllerInv(r)
    <3> HIDE DEF r, x
    <3> QED BY <2>1, <2>2, <2>3, <2>4
          DEF ControllerInv, ClaimInv, RecoverInv, MoveInv, ProgressInv, Claiming, Past, Moving
  <2>6. ctl' = [ctl EXCEPT ![c] = r]
    BY <1>3 DEF claimRead, become
  <2> QED BY <1>1, <2>2, <2>5, <2>6, LocalStep
<1> QED BY <1>2, <1>3

\* claim writes.  Nobody can have claimed the number in between; no change is under way,
\* so nobody moves shards and no request of the next number has been sent.
LEMMA ClaimPutStep ==
  ASSUME ShardInv, NEW c \in Ctrler, claimPut(c)
  PROVE  ShardInv'
<1> USE ShardAssumption
<1> DEFINE x == ctl[c]
<1>1. x \in Controller /\ ControllerInv(x) /\ x.pc = "claimPut"
  BY DEF ShardInv, Types, ControlTypes, claimPut
<1>2. x.new \in Complete /\ 2 <= x.new.num /\ x.new.num <= config.num + 1
      /\ (x.nxt # Nil => x.nxt \in Complete /\ x.nxt.num < x.new.num)
  BY <1>1 DEF ControllerInv, ClaimInv, Controller, Claiming
<1>3. x.new.num \in Nat /\ config.num \in Nat /\ (x.nxt # Nil => x.nxt.num \in Nat)
  BY <1>2, Groups DEF ShardInv, Types, ControlTypes
<1>4. ASSUME NEW l \in {"claimed", "maybe"} PROVE [x EXCEPT !.pc = l, !.nxt = Nil] \in Controller
  BY <1>1 DEF Controller, Claiming
<1>5. CASE configNext = x.nxt
  <2>1. ~ changing /\ x.new.num = config.num + 1
    BY <1>2, <1>3, <1>5 DEF changing, ShardInv, NextInv
  <2>2. configNext' = x.new /\ UNCHANGED <<config, groupVars, late, lates, clerkVars, ghostVars>>
    BY <1>5 DEF claimPut
  <2>3. PICK l \in {"claimed", "maybe"} :
          ctl' = [ctl EXCEPT ![c] = [x EXCEPT !.pc = l, !.nxt = Nil]]
    BY <1>5 DEF claimPut, become
  <2> DEFINE z == [x EXCEPT !.pc = l, !.nxt = Nil]
  <2>4. z \in Controller
    BY <1>4
  <2>5. UNCHANGED <<config, shards, served, num, store>>
    BY <2>2 DEF groupVars, ghostVars
  <2>6. Types'
    <3>1. ClerkTypes'
      BY <2>2 DEF ShardInv, Types, ClerkTypes, clerkVars, ghostVars
    <3> QED BY <1>2, <2>2, <2>3, <2>4, <2>5, <3>1 DEF ShardInv, Types, GroupTypes, ControlTypes
  <2>7. NextInv'
    <3>1. x.new # Nil /\ config.num >= 1
      BY <1>2, Groups DEF ShardInv, NextInv
    <3> HIDE DEF x
    <3> QED BY <1>3, <2>1, <2>2, <3>1 DEF NextInv
  <2>8. \A g \in Gid, s \in Shard :
          num[g][s] <= config.num /\ (served[g][s] <=> config.shards[s] = g)
    <3> SUFFICES ASSUME NEW g \in Gid, NEW s \in Shard
                 PROVE  num[g][s] <= config.num /\ (served[g][s] <=> config.shards[s] = g)
      OBVIOUS
    <3>1. num[g][s] \in Nat
      BY DEF ShardInv, Types, GroupTypes
    <3> QED BY <1>3, <2>1, <3>1 DEF ShardInv, GroupInv
  <2>9. GroupInv'
    <3>1. \A g \in Gid, s \in Shard : num[g][s] \in Nat
      BY DEF ShardInv, Types, GroupTypes
    <3> QED BY <1>3, <2>5, <2>8, <3>1 DEF GroupInv
  <2>10. DataInv'
    <3>1. \A k \in Key : config.shards[k] \in Gid /\ k \in Shard
      BY Groups DEF ShardInv, Types, ControlTypes
    <3> QED BY <2>5, <2>8, <3>1 DEF ShardInv, DataInv
  <2>11. ASSUME NEW q \in late PROVE sound(q)'
    BY <2>1, <2>5 DEF ShardInv, sound, harmless
  <2>12. ASSUME NEW d \in Ctrler, d # c PROVE ControllerInv(ctl[d])'
    <3>1. ctl'[d] = ctl[d] /\ ctl[d] \in Controller
      BY <2>3, <2>12 DEF ShardInv, Types, ControlTypes
    <3> PICK y \in Controller : y = ctl[d]
      BY <3>1
    <3>2. ControllerInv(y)
      BY DEF ShardInv
    <3>3. ClaimInv(y)'
      BY <2>1, <2>5, <3>2 DEF ControllerInv, ClaimInv, changing
    <3>4. RecoverInv(y)'
      BY <2>5, <3>2 DEF ControllerInv, RecoverInv, finished, harmless
    <3>5. y.pc \in Past => y.new.num # config.num + 1
      BY <2>1, <3>2 DEF ControllerInv, MoveInv, changing
    <3>6. MoveInv(y)' /\ ProgressInv(y)'
      BY <2>5, <3>2, <3>5 DEF ControllerInv, MoveInv, ProgressInv, finished, harmless
    <3> QED BY <3>1, <3>3, <3>4, <3>6
          DEF ControllerInv, ClaimInv, RecoverInv, MoveInv, ProgressInv, finished
  <2>13. ControllerInv(ctl[c])'
    <3>1. ctl'[c] = z
      BY <2>3 DEF ShardInv, Types, ControlTypes
    <3> PICK y \in Controller : y = x
      BY <1>1
    <3>2. ctl'[c] = [y EXCEPT !.pc = l, !.nxt = Nil]
      BY <3>1
    <3>3. ControllerInv([y EXCEPT !.pc = l, !.nxt = Nil])'
      <4> DEFINE r == [y EXCEPT !.pc = l, !.nxt = Nil]
      <4>1. r.pc = l /\ r.new = y.new
        BY DEF Controller
      <4> HIDE DEF r
      <4>2. ControllerInv(r)'
        BY <1>2, <2>2, <4>1, Groups
           DEF ControllerInv, ClaimInv, RecoverInv, MoveInv, ProgressInv, Claiming, Past, Moving
      <4> QED BY <4>2 DEF r
    <3> QED BY <3>2, <3>3
          DEF ControllerInv, ClaimInv, RecoverInv, MoveInv, ProgressInv, finished
  <2> QED BY <2>2, <2>6, <2>7, <2>9, <2>10, <2>11, <2>12, <2>13 DEF ShardInv
<1>6. CASE configNext # x.nxt
  <2>1. UNCHANGED <<config, configNext, groupVars, late, lates, clerkVars, ghostVars>>
    BY <1>6 DEF claimPut
  <2>2. CASE return(c)
    BY <2>1, <2>2, ReturnedInv, LocalStep DEF return, become
  <2>3. CASE become(c, [x EXCEPT !.pc = "maybe", !.nxt = Nil])
    <3> DEFINE r == [x EXCEPT !.pc = "maybe", !.nxt = Nil]
    <3>1. r \in Controller /\ r.pc = "maybe" /\ r.new = x.new
      BY <1>1 DEF Controller, Claiming
    <3>2. ControllerInv(r)
      <4> HIDE DEF r
      <4> QED BY <1>2, <3>1, Groups
            DEF ControllerInv, ClaimInv, RecoverInv, MoveInv, ProgressInv, Claiming, Past, Moving
    <3> QED BY <2>1, <2>3, <3>1, <3>2, LocalStep DEF become
  <2> QED BY <1>6, <2>2, <2>3 DEF claimPut
<1> QED BY <1>5, <1>6

\* After ErrMaybe the claim is ours if config_next has our contents.
LEMMA ClaimLandedStep ==
  ASSUME ShardInv, NEW c \in Ctrler, claimLanded(c)
  PROVE  ShardInv'
<1> DEFINE x == ctl[c]
           r == [x EXCEPT !.pc = "claimed"]
<1>1. UNCHANGED <<config, configNext, groupVars, late, lates, clerkVars, ghostVars>>
  BY DEF claimLanded
<1>2. x \in Controller /\ ControllerInv(x) /\ x.pc = "maybe"
  BY DEF ShardInv, Types, ControlTypes, claimLanded
<1>3. CASE landed(c)
  <2>1. r \in Controller /\ r.pc = "claimed" /\ r.new = x.new
    BY <1>2 DEF Controller, Claiming
  <2>2. ControllerInv(r)
    <3>1. configNext = x.new
      BY <1>3 DEF landed
    <3> HIDE DEF r, x
    <3> QED BY <1>2, <2>1, <3>1
          DEF ControllerInv, ClaimInv, RecoverInv, MoveInv, ProgressInv, Claiming, Past, Moving
  <2>3. ctl' = [ctl EXCEPT ![c] = r]
    BY <1>3 DEF claimLanded, goto, ShardInv, Types, ControlTypes
  <2> QED BY <1>1, <2>1, <2>2, <2>3, LocalStep
<1>4. CASE ~ landed(c)
  BY <1>1, <1>4, ReturnedInv, LocalStep DEF claimLanded, return, become
<1> QED BY <1>3, <1>4

\* The current configuration is read after the claim: it is the one before ours.
LEMMA ClaimedStep ==
  ASSUME ShardInv, NEW c \in Ctrler, claimed(c)
  PROVE  ShardInv'
<1> DEFINE x == ctl[c]
           r == atNext(config, x.new, 0)
<1>1. UNCHANGED <<config, configNext, groupVars, late, lates, clerkVars, ghostVars>>
  BY DEF claimed
<1>2. x \in Controller /\ ControllerInv(x) /\ x.pc = "claimed" /\ ControlTypes
  BY DEF ShardInv, Types, ControlTypes, claimed
<1>3. CASE reached(c)
  BY <1>1, <1>3, ReturnedInv, LocalStep DEF claimed, return, become
<1>4. CASE ~ reached(c)
  <2>1. x.new \in Complete /\ x.new.num <= config.num + 1 /\ config \in Complete
        /\ (x.new.num = config.num + 1 => configNext = x.new)
    BY <1>2 DEF ControllerInv, ClaimInv, Controller, Claiming, ControlTypes
  <2>2. x.new.num \in Nat /\ config.num \in Nat
    BY <2>1, Groups
  <2>3. x.new.num = config.num + 1
    BY <1>4, <2>1, <2>2 DEF reached
  <2>4. \A i \in Shard : ~ (i <= 0)
    BY DEF Shard
  <2>5. r \in Controller /\ ControllerInv(r)
    <3> HIDE DEF x
    <3> QED BY <1>2, <2>1, <2>2, <2>3, <2>4, AtNextInv
  <2>6. ctl' = [ctl EXCEPT ![c] = r]
    BY <1>4 DEF claimed, moveTo, moveFrom, become
  <2> HIDE DEF r
  <2> QED BY <1>1, <2>5, <2>6, LocalStep
<1> QED BY <1>3, <1>4

\* InitController reads the current configuration.
LEMMA InitControllerStep ==
  ASSUME ShardInv, NEW c \in Ctrler, InitController(c)
  PROVE  ShardInv'
<1> DEFINE r == [Returned EXCEPT !.pc = "recover", !.cur = config]
<1>1. config \in Complete /\ config.num \in Nat /\ config # Nil /\ config.num >= 1
  BY Groups DEF ShardInv, Types, ControlTypes, NextInv
<1>2. r \in Controller /\ r.pc = "recover" /\ r.cur = config
  BY <1>1, ReturnedInv DEF Controller
<1>3. ControllerInv(r)
  <2> HIDE DEF r
  <2> QED BY <1>1, <1>2
        DEF ControllerInv, ClaimInv, RecoverInv, MoveInv, ProgressInv, Claiming, Past, Moving
<1>4. ctl' = [ctl EXCEPT ![c] = r]
      /\ UNCHANGED <<config, configNext, groupVars, late, lates, clerkVars, ghostVars>>
  BY DEF InitController, become
<1> QED BY <1>2, <1>3, <1>4, LocalStep

\* It takes over the change that follows: one that is over, or the one under way.
LEMMA RecoverStep ==
  ASSUME ShardInv, NEW c \in Ctrler, recover(c), recoversNext
  PROVE  ShardInv'
<1> DEFINE x == ctl[c]
           r == atNext(x.cur, configNext, 0)
<1>1. UNCHANGED <<config, configNext, groupVars, late, lates, clerkVars, ghostVars>>
  BY DEF recover
<1>2. x \in Controller /\ ControllerInv(x) /\ x.pc = "recover" /\ ControlTypes /\ NextInv
  BY DEF ShardInv, Types, ControlTypes, recover
<1>3. CASE configNext = Nil \/ configNext.num <= x.cur.num
  BY <1>1, <1>3, ReturnedInv, LocalStep DEF recover, return, become
<1>4. CASE ~ (configNext = Nil \/ configNext.num <= x.cur.num)
  <2>1. x.cur \in Complete /\ configNext \in Complete /\ config \in Complete
    BY <1>2, <1>4 DEF ControllerInv, RecoverInv, Controller, ControlTypes
  <2>2. x.cur.num \in Nat /\ config.num \in Nat /\ configNext.num \in Nat
    BY <2>1, Groups
  <2>3. ctl' = [ctl EXCEPT ![c] = r]
    BY <1>4 DEF recover, moveTo, moveFrom, become
  <2>4. r.new = configNext
    BY DEF atNext, Returned
  <2>5. configNext.num = x.cur.num + 1
    <3>1. ctl'[c] = r
      BY <2>3 DEF ShardInv, Types, ControlTypes
    <3> HIDE DEF r
    <3> QED BY <1>2, <1>4, <2>4, <3>1 DEF recoversNext
  <2>6. configNext.num <= config.num + 1
    BY <1>2, <1>4 DEF NextInv
  <2>7. configNext.num <= config.num => finished(x.cur, configNext)
    <3> SUFFICES ASSUME configNext.num <= config.num PROVE finished(x.cur, configNext)
      OBVIOUS
    <3>1. configNext = config /\ x.cur.num + 1 = config.num
      BY <1>2, <1>4, <2>2, <2>5 DEF NextInv
    <3> QED BY <1>2, <3>1 DEF ControllerInv, RecoverInv
  <2>8. configNext.num = config.num + 1 => x.cur = config
    BY <1>2, <2>2, <2>5 DEF ControllerInv, RecoverInv
  <2>9. \A i \in Shard : ~ (i <= 0)
    BY DEF Shard
  <2>10. r \in Controller /\ ControllerInv(r)
    <3> HIDE DEF x
    <3> QED BY <1>2, <2>1, <2>5, <2>6, <2>7, <2>8, <2>9, AtNextInv
  <2> HIDE DEF r
  <2> QED BY <1>1, <2>3, <2>10, LocalStep
<1> QED BY <1>3, <1>4

\* moveUntilDone starts the loop again.
LEMMA RereadStep ==
  ASSUME ShardInv, NEW c \in Ctrler, reread(c)
  PROVE  ShardInv'
<1> DEFINE x == ctl[c]
           r == atNext(x.cur, x.new, 0)
<1>1. UNCHANGED <<config, configNext, groupVars, late, lates, clerkVars, ghostVars>>
  BY DEF reread
<1>2. x \in Controller /\ ControllerInv(x) /\ x.pc = "reread" /\ ControlTypes
  BY DEF ShardInv, Types, ControlTypes, reread
<1>3. CASE reached(c)
  BY <1>1, <1>3, ReturnedInv, LocalStep DEF reread, return, become
<1>4. CASE ~ reached(c)
  <2>1. /\ x.cur \in Complete /\ x.new \in Complete
        /\ x.new.num = x.cur.num + 1 /\ x.new.num <= config.num + 1
        /\ x.new.num <= config.num => finished(x.cur, x.new)
        /\ x.new.num = config.num + 1 => x.cur = config /\ x.new = configNext
    BY <1>2 DEF ControllerInv, MoveInv, Controller, Past
  <2>2. \A i \in Shard : ~ (i <= 0)
    BY DEF Shard
  <2>3. r \in Controller /\ ControllerInv(r)
    <3> HIDE DEF x
    <3> QED BY <1>2, <2>1, <2>2, AtNextInv
  <2>4. ctl' = [ctl EXCEPT ![c] = r]
    BY <1>4 DEF reread, moveTo, moveFrom, become
  <2> HIDE DEF r
  <2> QED BY <1>1, <2>3, <2>4, LocalStep
<1> QED BY <1>3, <1>4

\* publish: every shard has arrived, so that the requests of this change come too late
\* from now on.
LEMMA PublishStep ==
  ASSUME ShardInv, NEW c \in Ctrler, publish(c)
  PROVE  ShardInv'
<1> USE ShardAssumption DEF ShardInv, Types
<1> DEFINE x == ctl[c]
<1>1. x \in Controller /\ ControllerInv(x) /\ x.pc = "publish"
  BY DEF ControlTypes, publish
<1>2. UNCHANGED <<configNext, groupVars, late, lates, clerkVars, ghostVars>>
      /\ ctl' = [ctl EXCEPT ![c] = Returned]
  BY DEF publish, return, become
<1>3. CASE reached(c)
  BY <1>2, <1>3, ReturnedInv, LocalStep DEF publish
<1>4. CASE ~ reached(c)
  <2>1. x.new \in Complete /\ x.new.num <= config.num + 1 /\ config \in Complete
        /\ (x.new.num = config.num + 1 => x.cur = config /\ x.new = configNext)
    BY <1>1 DEF ControllerInv, MoveInv, Controller, Past, ControlTypes
  <2>2. x.new.num \in Nat /\ config.num \in Nat
    BY <2>1, Groups
  <2>3. x.new.num = config.num + 1 /\ x.new = configNext /\ changing
    BY <1>4, <2>1, <2>2, Groups DEF reached, changing
  <2>4. config' = configNext /\ config'.num = config.num + 1 /\ UNCHANGED configNext
    BY <1>2, <1>4, <2>3 DEF publish
  <2>5. UNCHANGED <<shards, served, num, store, late, lates>>
    BY <1>2 DEF groupVars, ghostVars
  <2>6. \A s \in Shard : moves(s) => arrived(s)
    BY <1>1, <2>3 DEF ControllerInv, ProgressInv, Past
  <2>7. \A s \in Shard : config.shards[s] \in Gid /\ configNext.shards[s] \in Gid
    BY <2>1, <2>3, Groups
  <2>8. ASSUME NEW s \in Shard, moves(s)
        PROVE  /\ harmless(config.shards[s], s, configNext.num, FALSE)
               /\ harmless(configNext.shards[s], s, configNext.num, TRUE)
    <3>1. arrived(s) /\ left(s)
      BY <2>6, <2>7, <2>8 DEF GroupInv, arrived
    <3>2. served[config.shards[s]][s] = FALSE /\ served[configNext.shards[s]][s] = TRUE
      BY <2>7, <2>8, <3>1 DEF GroupInv, arrived, left, moves, GroupTypes
    <3> QED BY <2>3, <3>1, <3>2 DEF harmless, arrived, left
  <2>9. finished(config, configNext)
    BY <2>8 DEF finished, moves
  <2>10. ControlTypes' /\ GroupTypes' /\ ClerkTypes'
    <3>1. ClerkTypes'
      BY <1>2 DEF ClerkTypes, clerkVars, ghostVars
    <3>2. ControlTypes'
      BY <1>2, <2>1, <2>3, <2>4, <2>5, ReturnedInv DEF ControlTypes
    <3> QED BY <2>5, <3>1, <3>2 DEF GroupTypes
  <2>11. NextInv'
    BY <2>2, <2>3, <2>4 DEF NextInv, changing
  <2>12. GroupInv'
    <3> SUFFICES ASSUME NEW g \in Gid, NEW s \in Shard
                 PROVE  /\ num[g][s] <= config.num + 1
                        /\ served[g][s] <=> configNext.shards[s] = g
      <4>1. \A g \in Gid, s \in Shard : num[g][s] \in Nat
        BY DEF GroupTypes
      <4> QED BY <2>2, <2>4, <2>5, <4>1 DEF GroupInv
    <3>1. num[g][s] <= config.num + 1 /\ num[g][s] \in Nat
      BY DEF GroupInv, GroupTypes
    <3>2. CASE moves(s)
      <4>1. arrived(s) /\ left(s)
        BY <2>6, <2>7, <3>2 DEF GroupInv, arrived
      <4> QED BY <2>2, <2>7, <3>1, <3>2, <4>1 DEF GroupInv, arrived, left, moves
    <3>3. CASE ~ moves(s)
      BY <2>2, <3>1, <3>3 DEF GroupInv, moves
    <3> QED BY <3>2, <3>3
  <2>13. DataInv'
    <3>1. ~ changing'
      BY <2>2, <2>4 DEF changing
    <3> QED BY <2>5, <3>1 DEF DataInv
  <2>14. ASSUME NEW q \in late PROVE sound(q)'
    <3>1. q.num \in Nat /\ q.shard \in Shard /\ q.type \in {"Freeze", "Install", "Delete"}
      BY DEF ControlTypes, ShardRPC
    <3>2. harmless(q.gid, q.shard, q.num, q.type = "Install") /\ q.num <= config.num + 1
      <4>1. sound(q)
        OBVIOUS
      <4>2. CASE q.num <= config.num
        BY <2>2, <3>1, <4>1, <4>2 DEF sound
      <4>3. CASE q.num = config.num + 1
        <5>1. /\ harmless(config.shards[q.shard], q.shard, q.num, FALSE)
              /\ harmless(configNext.shards[q.shard], q.shard, q.num, TRUE)
          BY <2>3, <2>8, <3>1, <4>1, <4>3 DEF sound
        <5>2. CASE q.type = "Install"
          <6>1. (q.type = "Install") = TRUE
            BY <5>2
          <6> QED BY <2>2, <4>1, <4>3, <5>1, <5>2, <6>1 DEF sound
        <5>3. CASE q.type # "Install"
          <6>1. (q.type = "Install") = FALSE
            BY <5>3
          <6> QED BY <2>2, <4>1, <4>3, <5>1, <5>3, <6>1 DEF sound
        <5> QED BY <5>2, <5>3
      <4> QED BY <2>2, <3>1, <4>1, <4>2, <4>3 DEF sound
    <3>3. harmless(q.gid, q.shard, q.num, q.type = "Install")'
      BY <2>5, <3>2 DEF harmless
    <3> QED BY <2>2, <2>4, <3>1, <3>2, <3>3 DEF sound
  <2>15. ASSUME NEW d \in Ctrler PROVE ControllerInv(ctl[d])'
    <3>1. CASE d = c
      <4>1. ctl'[d] = Returned
        BY <1>2, <3>1 DEF ControlTypes
      <4>2. ctl'[d].pc = "idle"
        BY <4>1 DEF Returned
      <4> QED BY <4>2 DEF ControllerInv, ClaimInv, RecoverInv, MoveInv, ProgressInv, Claiming,
                          Past, Moving
    <3>2. CASE d # c
      <4> PICK y \in Controller : y = ctl[d]
        BY DEF ControlTypes
      <4>1. ctl'[d] = y /\ ControllerInv(y)
        BY <1>2, <3>2 DEF ControlTypes
      <4>2. ClaimInv(y)'
        <5> SUFFICES ASSUME y.pc \in Claiming PROVE ClaimInv(y)'
          BY DEF ClaimInv
        <5>1. y.new \in Complete
          BY <4>1 DEF ControllerInv, ClaimInv, Controller
        <5>2. y.new.num \in Nat
          BY <5>1, Groups
        <5> QED BY <2>2, <2>4, <4>1, <5>2 DEF ControllerInv, ClaimInv
      <4>3. RecoverInv(y)'
        <5> SUFFICES ASSUME y.pc = "recover" PROVE RecoverInv(y)'
          BY DEF RecoverInv
        <5>1. y.cur \in Complete
          BY <4>1 DEF ControllerInv, RecoverInv, Controller
        <5>2. y.cur.num \in Nat
          BY <5>1, Groups
        <5>3. y.cur.num + 1 = config'.num => finished(y.cur, config)'
          <6> SUFFICES ASSUME y.cur.num + 1 = config'.num PROVE finished(y.cur, config)'
            OBVIOUS
          <6>1. y.cur = config
            BY <2>2, <2>4, <4>1, <5>2 DEF ControllerInv, RecoverInv
          <6> QED BY <2>4, <2>5, <2>9, <6>1 DEF finished, harmless
        <5> QED BY <2>2, <2>4, <4>1, <5>2, <5>3 DEF ControllerInv, RecoverInv
      <4>4. MoveInv(y)' /\ ProgressInv(y)'
        <5> SUFFICES ASSUME y.pc \in Past PROVE MoveInv(y)' /\ ProgressInv(y)'
          BY DEF MoveInv, ProgressInv
        <5>1. y.cur \in Complete /\ y.new \in Complete /\ y.new.num <= config.num + 1
          BY <4>1 DEF ControllerInv, MoveInv, Controller
        <5>2. y.new.num \in Nat
          BY <5>1, Groups
        <5>3. finished(y.cur, y.new)
          BY <2>2, <2>9, <4>1, <5>1, <5>2 DEF ControllerInv, MoveInv
        <5>4. finished(y.cur, y.new)'
          BY <2>5, <5>3 DEF finished, harmless
        <5> QED BY <2>2, <2>4, <4>1, <5>1, <5>2, <5>4 DEF ControllerInv, MoveInv, ProgressInv
      <4> QED BY <4>1, <4>2, <4>3, <4>4
            DEF ControllerInv, ClaimInv, RecoverInv, MoveInv, ProgressInv, finished
    <3> QED BY <3>1, <3>2
  <2> QED BY <2>5, <2>10, <2>11, <2>12, <2>13, <2>14, <2>15
<1> QED BY <1>3, <1>4

-----------------------------------------------------------------------------
\* Late requests and clerks

\* A step of others leaves the controllers and the late requests in place.
LEMMA OtherStep ==
  ASSUME ShardInv, Keeps, GroupTypes', GroupInv', DataInv', ClerkTypes',
         UNCHANGED <<ctl, lates>>, late' \subseteq late
  PROVE  ShardInv'
<1> USE DEF ShardInv, Types
<1>1. UNCHANGED <<config, configNext>>
  BY DEF Keeps
<1>2. ControlTypes' /\ NextInv'
  BY <1>1 DEF ControlTypes, NextInv
<1>3. ASSUME NEW q \in late' PROVE sound(q)'
  <2>1. q \in late /\ q \in ShardRPC
    BY DEF ControlTypes
  <2> QED BY <2>1, SoundKept
<1>4. ASSUME NEW d \in Ctrler PROVE ControllerInv(ctl[d])'
  <2> PICK x \in Controller : x = ctl[d]
    BY DEF ControlTypes
  <2>1. ctl'[d] = x /\ ControllerInv(x)
    OBVIOUS
  <2>2. ControllerInv(x)'
    BY <2>1, ControllerKept
  <2> QED BY <2>1, <2>2 DEF ControllerInv, ClaimInv, RecoverInv, MoveInv, ProgressInv, finished
<1> QED BY <1>2, <1>3, <1>4

\* A copy of a shard RPC is executed late.
LEMMA ExecuteLateStep ==
  ASSUME ShardInv, NEW q \in late, executeLate(q)
  PROVE  ShardInv'
<1> USE DEF ShardInv, Types
<1>1. q \in ShardRPC /\ sound(q)
  BY DEF ControlTypes
<1>2. UNCHANGED <<config, configNext, store>> /\ perform(q) /\ UNCHANGED <<ctl, lates>>
      /\ late' \subseteq late
  BY DEF executeLate, ghostVars
<1>3. GroupTypes' /\ GroupInv' /\ DataInv' /\ Keeps
  BY <1>1, <1>2, PerformInv DEF ClerkTypes
<1>4. ClerkTypes'
  BY DEF executeLate, ClerkTypes, clerkVars, ghostVars
<1> QED BY <1>2, <1>3, <1>4, OtherStep

\* The groups' invariant leaves room for one server of a shard.
LEMMA OneServerFact ==
  ASSUME GroupTypes, ControlTypes, GroupInv
  PROVE  OneServer
<1> SUFFICES ASSUME NEW s \in Shard, NEW g \in Gid, NEW h \in Gid, served[g][s], served[h][s]
             PROVE  g = h
  BY DEF OneServer
<1>1. config.num \in Nat /\ config.shards[s] \in Gid
  BY Groups DEF ControlTypes
<1>2. num[g][s] \in Nat /\ num[h][s] \in Nat /\ num[config.shards[s]][s] \in Nat
  BY <1>1 DEF GroupTypes
<1> QED BY <1>1, <1>2 DEF GroupInv, left

\* Whoever serves a key that is on its way has received it.
LEMMA ServedFact ==
  ASSUME GroupTypes, ControlTypes, GroupInv, NEW s \in Shard, NEW g \in Gid, served[g][s],
         changing
  PROVE  /\ left(s) => arrived(s)
         /\ ~ arrived(s) => g = config.shards[s]
<1>1. config.num \in Nat /\ config.shards[s] \in Gid
  BY Groups DEF ControlTypes
<1>2. num[g][s] \in Nat /\ num[config.shards[s]][s] \in Nat
  BY <1>1 DEF GroupTypes
<1> QED BY <1>1, <1>2 DEF GroupInv, left, arrived

\* A clerk's step leaves groups and controllers alone.
LEMMA ClerkStep ==
  ASSUME ShardInv, ClerkTypes', UNCHANGED <<config, configNext, groupVars, ctrlVars, store>>
  PROVE  ShardInv'
<1>1. UNCHANGED <<config, configNext, shards, served, num, ctl, late, lates, store>>
  BY DEF groupVars, ctrlVars
<1>2. Keeps
  BY <1>1 DEF Keeps, harmless, left, arrived, changing
<1>3. GroupTypes' /\ GroupInv' /\ DataInv'
  BY <1>1 DEF ShardInv, Types, GroupTypes, GroupInv, DataInv, changing, moves, left, arrived
<1> QED BY <1>1, <1>2, <1>3, OtherStep

\* A call begins.
LEMMA BeginStep ==
  ASSUME ShardInv, NEW o \in Op, NEW a \in Args, begin(o, a)
  PROVE  ShardInv'
<1> USE ShardAssumption
<1>1. UNCHANGED <<config, configNext, groupVars, ctrlVars, store, result, resent, reply,
                  executed, saw>>
  BY DEF begin, ghostVars
<1> DEFINE g == config.shards[a.key]
<1>2. g \in Gid /\ a # Nil
  BY Groups DEF ShardInv, Types, ControlTypes, Args
<1>3. /\ call[o] = "idle" /\ call' = [call EXCEPT ![o] = "waiting"]
      /\ args' = [args EXCEPT ![o] = a]
      /\ attempt' = [attempt EXCEPT ![o] = @ + 1]
      /\ dest' = [dest EXCEPT ![o] = g]
      /\ net' = net \cup {[op |-> o, attempt |-> attempt[o] + 1, gid |-> g]}
  BY DEF begin, send
<1> HIDE DEF g
<1>4. ClerkTypes'
  <2>1. net' \subseteq [op : Op, attempt : Nat, gid : Gid]
    BY <1>2, <1>3 DEF ShardInv, Types, ClerkTypes
  <2>2. \A r \in net' : call'[r.op] # "idle"
    BY <1>2, <1>3, <2>1 DEF ShardInv, Types, ClerkTypes
  <2> QED BY <1>1, <1>2, <1>3, <2>1, <2>2 DEF ShardInv, Types, ClerkTypes
<1> QED BY <1>1, <1>4, ClerkStep

\* A request is repeated.
LEMMA RetryStep ==
  ASSUME ShardInv, NEW o \in Op, retry(o)
  PROVE  ShardInv'
<1> USE ShardAssumption
<1>1. UNCHANGED <<config, configNext, groupVars, ctrlVars, store, result, call, args,
                  executed, saw>>
  BY DEF retry, ghostVars
<1>2. call[o] = "waiting" /\ dest[o] \in Gid /\ args[o] \in Args
  BY DEF retry, ShardInv, Types, ClerkTypes
<1>3. args[o].key \in Shard
  BY <1>2 DEF Args
<1>4. PICK g \in Gid : send(o, g)
  BY <1>2, <1>3, Groups DEF retry, ShardInv, Types, ControlTypes
<1>5. /\ attempt' = [attempt EXCEPT ![o] = @ + 1]
      /\ dest' = [dest EXCEPT ![o] = g]
      /\ net' = net \cup {[op |-> o, attempt |-> attempt[o] + 1, gid |-> g]}
      /\ reply' = [reply EXCEPT ![o] = Nil]
      /\ resent' = [resent EXCEPT ![o] = TRUE]
  BY <1>4 DEF retry, send, resentAfter
<1>6. ClerkTypes'
  <2>1. net' \subseteq [op : Op, attempt : Nat, gid : Gid]
    BY <1>5 DEF ShardInv, Types, ClerkTypes
  <2>2. \A r \in net' : call'[r.op] # "idle"
    BY <1>1, <1>2, <1>5 DEF ShardInv, Types, ClerkTypes
  <2> QED BY <1>1, <1>5, <2>1, <2>2 DEF ShardInv, Types, ClerkTypes
<1> QED BY <1>1, <1>6, ClerkStep

\* A call returns.
LEMMA CallReturnsStep ==
  ASSUME ShardInv, NEW o \in Op, callReturns(o)
  PROVE  ShardInv'
<1> USE ShardAssumption
<1>1. UNCHANGED <<config, configNext, groupVars, ctrlVars, store, args, resent, attempt, net, dest,
                  executed, saw>>
  BY DEF callReturns, ghostVars
<1>2. /\ call' = [call EXCEPT ![o] = "done"] /\ call[o] = "waiting"
      /\ result' = [result EXCEPT ![o] = returned(o)]
      /\ reply' = [reply EXCEPT ![o] = Nil] /\ reply[o] # Nil
  BY DEF callReturns
<1>3. returned(o) \in Reply
  BY <1>2 DEF returned, Error, Reply, ShardInv, Types, ClerkTypes
<1>4. ClerkTypes'
  BY <1>1, <1>2, <1>3 DEF ShardInv, Types, ClerkTypes
<1> QED BY <1>1, <1>4, ClerkStep

\* A group executes a request: a Put reaches the data of the one group that serves the key.
LEMMA HandleStep ==
  ASSUME ShardInv, NEW r \in net, handle(r)
  PROVE  ShardInv'
<1> USE ShardAssumption DEF ShardInv, Types
<1> DEFINE o == r.op
           a == args[o]
           g == r.gid
           n == shards[g][a.key]
           ok == served[g][a.key]
           rep == IF ok THEN answers(n, a) ELSE Error("ErrWrongGroup")
           awaited == call[o] = "waiting" /\ attempt[o] = r.attempt
           done == ok /\ performs(n, a)
           node == [value |-> a.value, version |-> n.version + 1]
<1>1. o \in Op /\ g \in Gid /\ a \in Args
  BY DEF ClerkTypes
<1>2. a.key \in Key /\ a.key \in Shard /\ a.value \in Value /\ a.version \in Nat
      /\ n \in Node /\ node \in Node
  <2>1. a.key \in Key /\ a.key \in Shard /\ a.value \in Value /\ a.version \in Nat
    BY <1>1 DEF Args
  <2>2. n \in Node
    BY <1>1, <2>1 DEF GroupTypes
  <2> QED BY <2>1, <2>2 DEF Node
<1>3. rep \in Reply
  BY <1>2 DEF answers, performs, Error, Reply, Node
<1>4. /\ net' = net \ {r}
      /\ reply' = IF awaited THEN [reply EXCEPT ![o] = rep] ELSE reply
      /\ shards' = IF done THEN [shards EXCEPT ![g][a.key] = node] ELSE shards
      /\ store' = IF done THEN [store EXCEPT ![a.key] = shards'[g][a.key]] ELSE store
      /\ executed' = IF done THEN [executed EXCEPT ![o] = @ + 1] ELSE executed
      /\ saw' = IF ok /\ awaited /\ ~ done THEN [saw EXCEPT ![o] = rep] ELSE saw
      /\ UNCHANGED <<config, configNext, served, num, ctl, late, lates, call, args, resent,
                     attempt, result, dest>>
  BY DEF handle, ctrlVars
<1>5. GroupTypes'
  BY <1>1, <1>2, <1>4 DEF GroupTypes
<1>6. done => shards'[g][a.key] = node /\ store'[a.key] = node
  <2>1. shards \in [Gid -> [Shard -> Node]] /\ store \in [Key -> Node]
    BY DEF GroupTypes, ClerkTypes
  <2> SUFFICES ASSUME done PROVE shards'[g][a.key] = node /\ store'[a.key] = node
    OBVIOUS
  <2>2. shards' = [shards EXCEPT ![g][a.key] = node] /\ store' = [store EXCEPT ![a.key] = shards'[g][a.key]]
    BY <1>4
  <2> HIDE DEF node, done
  <2>3. shards'[g][a.key] = node
    BY <1>1, <1>2, <2>1, <2>2
  <2> QED BY <1>2, <2>1, <2>2, <2>3
<1>7. store' \in [Key -> Node]
  BY <1>2, <1>4, <1>6 DEF ClerkTypes
<1> HIDE DEF rep, node
<1>8. ClerkTypes'
  <2>1. reply' \in [Op -> Reply \cup {Nil}] /\ saw' \in [Op -> Reply \cup {Nil}]
    <3> HIDE DEF awaited, ok, done
    <3> QED BY <1>1, <1>3, <1>4 DEF ClerkTypes
  <2>2. executed' \in [Op -> Nat]
    <3>1. executed \in [Op -> Nat] /\ executed' = IF done THEN [executed EXCEPT ![o] = @ + 1] ELSE executed
      BY <1>4 DEF ClerkTypes
    <3> HIDE DEF done
    <3> QED BY <1>1, <3>1
  <2>3. net' \subseteq net /\ UNCHANGED <<call, args, resent, attempt, result, dest>>
    BY <1>4
  <2> QED BY <1>7, <2>1, <2>2, <2>3 DEF ClerkTypes
<1>9. GroupInv'
  BY <1>4 DEF GroupInv, changing, moves, left
<1>10. \A k \in Key : ~ (done /\ k = a.key) =>
         store'[k] = store[k] /\ \A h \in Gid : shards'[h][k] = shards[h][k]
  <2>1. shards \in [Gid -> [Shard -> Node]] /\ store \in [Key -> Node]
    BY DEF GroupTypes, ClerkTypes
  <2>2. /\ shards' = IF done THEN [shards EXCEPT ![g][a.key] = node] ELSE shards
        /\ store' = IF done THEN [store EXCEPT ![a.key] = shards'[g][a.key]] ELSE store
    BY <1>4
  <2> HIDE DEF done
  <2> SUFFICES ASSUME NEW k \in Key, ~ (done /\ k = a.key)
               PROVE  store'[k] = store[k] /\ \A h \in Gid : shards'[h][k] = shards[h][k]
    OBVIOUS
  <2>3. CASE ~ done
    BY <2>2, <2>3
  <2>4. CASE done /\ k # a.key
    <3>1. k \in Shard /\ k # a.key
      BY <2>4
    <3>2. \A h \in Gid : shards'[h][k] = shards[h][k]
      BY <1>1, <1>2, <2>1, <2>2, <2>4, <3>1
    <3> QED BY <1>2, <2>1, <2>2, <2>4, <3>2
  <2> QED BY <2>3, <2>4
<1>11. Keeps
  <2>1. UNCHANGED <<config, configNext, served, num>>
    BY <1>4
  <2>2. ASSUME NEW k \in Key, changing, moves(k), left(k), ~ arrived(k)
        PROVE  store'[k] = store[k]
    <3>1. ~ (done /\ k = a.key)
      BY <1>1, <1>2, <2>2, ServedFact
    <3> QED BY <1>10, <3>1
  <2>3. \A k \in Key : arrived(k)' <=> arrived(k)
    BY <2>1 DEF arrived
  <2> QED BY <2>1, <2>2, <2>3 DEF Keeps, harmless, left, arrived, changing
<1>12. DataInv'
  <2> SUFFICES ASSUME NEW k \in Key
               PROVE  /\ \A h \in Gid : served[h][k] => shards'[h][k] = store'[k]
                      /\ changing /\ moves(k) /\ ~ arrived(k)
                           => shards'[config.shards[k]][k] = store'[k]
    BY <1>4 DEF DataInv, changing, moves, arrived
  <2>1. CASE ~ (done /\ k = a.key)
    <3>1. config.shards[k] \in Gid
      BY Groups DEF ControlTypes
    <3> QED BY <1>10, <2>1, <3>1 DEF DataInv
  <2>2. CASE done /\ k = a.key
    <3>1. \A h \in Gid : served[h][k] => h = g
      BY <1>1, <1>2, <2>2, OneServerFact DEF OneServer
    <3>2. changing /\ ~ arrived(k) => g = config.shards[k]
      BY <1>1, <1>2, <2>2, ServedFact
    <3> QED BY <1>6, <2>2, <3>1, <3>2
  <2> QED BY <2>1, <2>2
<1>13. UNCHANGED <<ctl, lates>> /\ late' \subseteq late
  BY <1>4
<1> QED BY <1>5, <1>8, <1>9, <1>11, <1>12, <1>13, OtherStep

-----------------------------------------------------------------------------
\* The invariant, and what follows from it

\* Group 1 serves everything in the first configuration, and nobody has claimed another.
LEMMA ShardInit == Init => ShardInv
<1> SUFFICES ASSUME Init PROVE ShardInv
  OBVIOUS
<1> USE ShardAssumption
<1>1. config \in Complete /\ config.num = 1 /\ \A s \in Shard : config.shards[s] = 1
  <2> DEFINE f == Join(MakeShardConfig, {1})
  <2>1. MakeShardConfig \in ShardConfig
    BY DEF MakeShardConfig, ShardConfig
  <2>2. f \in ShardConfig /\ f.groups = {1} /\ f.num = 1
    BY <2>1 DEF Join, MakeShardConfig, ShardConfig
  <2>3. config = Rebalance(f)
    BY DEF Init, JoinBalance
  <2> HIDE DEF f
  <2>4. config \in Complete /\ config.num = 1 /\ config.groups = {1}
    BY <2>2, <2>3, RebalanceFacts
  <2> QED BY <2>4 DEF Complete
<1>2. NoNode \in Node
  BY DEF NoNode, Node
<1>3. GroupTypes
  BY <1>2 DEF Init, groupInit, GroupTypes
<1>4. Returned \in Controller /\ \A c \in Ctrler : ctl[c] = Returned
  BY ReturnedInv DEF Init
<1>5. ControlTypes
  BY <1>1, <1>4 DEF Init, ControlTypes
<1>6. ClerkTypes
  BY <1>2 DEF Init, ClerkTypes
<1>7. GroupInv
  <2> SUFFICES ASSUME NEW g \in Gid, NEW s \in Shard
               PROVE  num[g][s] = 0 /\ (served[g][s] <=> 1 = g)
    BY <1>1 DEF GroupInv
  <2>1. num[g][s] = 0
    BY DEF Init, groupInit
  <2>2. served[g][s] = (g = 1)
    BY Zenon DEF Init, groupInit
  <2> QED BY <2>1, <2>2
<1>8. DataInv
  BY <1>1 DEF Init, groupInit, DataInv, changing
<1>9. NextInv /\ \A q \in late : sound(q)
  BY <1>1 DEF Init, NextInv
<1>10. \A c \in Ctrler : ControllerInv(ctl[c])
  BY <1>4, ReturnedInv
<1> QED BY <1>3, <1>5, <1>6, <1>7, <1>8, <1>9, <1>10 DEF ShardInv, Types

\* Every step keeps it.
LEMMA ShardNext == ShardInv /\ [Next /\ recoversNext]_vars => ShardInv'
<1> SUFFICES ASSUME ShardInv, [Next /\ recoversNext]_vars PROVE ShardInv'
  OBVIOUS
<1> USE ShardAssumption
<1>1. ASSUME NEW c \in Ctrler, recoversNext,
             \/ join(c) \/ leave(c)
             \/ claimRead(c) \/ claimPut(c) \/ claimLanded(c) \/ claimed(c)
             \/ InitController(c) \/ recover(c)
             \/ FreezeShard(c) \/ InstallShard(c) \/ DeleteShard(c)
             \/ reread(c) \/ publish(c)
      PROVE  ShardInv'
  BY <1>1, JoinStep, LeaveStep, ClaimReadStep, ClaimPutStep, ClaimLandedStep, ClaimedStep,
     InitControllerStep, RecoverStep, FreezeStep, InstallStep, DeleteStep, RereadStep, PublishStep
<1>2. ASSUME NEW o \in Op, NEW k \in Key, Get(o, k) PROVE ShardInv'
  <2>1. [op |-> "Get", key |-> k, value |-> Empty, version |-> 0] \in Args
    BY DEF Args
  <2> QED BY <1>2, <2>1, BeginStep DEF Get
<1>3. ASSUME NEW o \in Op, NEW k \in Key, NEW v \in Value, NEW n \in 0 .. MaxVersion,
             Put(o, k, v, n)
      PROVE  ShardInv'
  <2>1. [op |-> "Put", key |-> k, value |-> v, version |-> n] \in Args
    BY DEF Args
  <2> QED BY <1>3, <2>1, BeginStep DEF Put
<1>4. ASSUME NEW o \in Op, retry(o) \/ callReturns(o) PROVE ShardInv'
  BY <1>4, RetryStep, CallReturnsStep
<1>5. ASSUME UNCHANGED vars PROVE ShardInv'
  <2>1. ClerkTypes' /\ UNCHANGED <<config, configNext, groupVars, ctrlVars, store>>
    BY <1>5 DEF vars, clerkVars, ghostVars, ShardInv, Types, ClerkTypes
  <2> QED BY <2>1, ClerkStep
<1> QED BY <1>1, <1>2, <1>3, <1>4, <1>5, ExecuteLateStep, HandleStep DEF Next

\* The system without the window between the reads of InitController keeps the invariant.
THEOREM ShardInvariant == SpecRecoversNext => []ShardInv
BY ShardInit, ShardNext, PTL DEF SpecRecoversNext

\* No shard is served by two groups (shardctrler.go:230-233).
THEOREM OneServerTheorem == SpecRecoversNext => []OneServer
<1>1. ShardInv => OneServer
  BY OneServerFact DEF ShardInv, Types
<1> QED BY <1>1, ShardInvariant, PTL

\* Nothing written is lost while a shard is on its way (shardgrp/server.go:112-170).
THEOREM DataKeptTheorem == SpecRecoversNext => []DataKept
<1>1. ASSUME ShardInv PROVE DataKept
  <2> SUFFICES ASSUME NEW k \in Key PROVE \E g \in Gid : shards[g][k] = store[k]
    BY <1>1 DEF DataKept, ShardInv, DataInv
  <2> USE <1>1, ShardAssumption DEF ShardInv, Types
  <2> DEFINE g == config.shards[k]
             h == configNext.shards[k]
  <2>1. k \in Shard /\ g \in Gid /\ config.num \in Nat
    BY Groups DEF ControlTypes
  <2>2. num[g][k] \in Nat
    BY <2>1 DEF GroupTypes
  <2>3. CASE num[g][k] <= config.num
    BY <2>1, <2>3 DEF GroupInv, DataInv
  <2>4. CASE num[g][k] = config.num + 1
    <3>1. changing /\ moves(k)
      BY <2>1, <2>4 DEF GroupInv
    <3>2. h \in Gid
      BY <2>1, <3>1, Groups DEF ControlTypes, changing
    <3>3. ~ arrived(k) => shards[g][k] = store[k]
      BY <3>1 DEF DataInv
    <3>4. arrived(k) => served[h][k]
      BY <2>1, <3>1, <3>2 DEF GroupInv, moves, arrived
    <3> QED BY <2>1, <3>2, <3>3, <3>4 DEF DataInv
  <2> QED BY <2>1, <2>2, <2>3, <2>4 DEF GroupInv
<1> QED BY <1>1, ShardInvariant, PTL

\* The published configuration points to the data (shardctrler.go:189-190, 299-300).
THEOREM PublishedServesTheorem == SpecRecoversNext => []PublishedServes
<1>1. ASSUME ShardInv PROVE PublishedServes
  <2> SUFFICES ASSUME NEW k \in Key, num[config.shards[k]][k] <= config.num
               PROVE  served[config.shards[k]][k] /\ shards[config.shards[k]][k] = store[k]
    BY DEF PublishedServes
  <2> USE <1>1, ShardAssumption DEF ShardInv, Types
  <2>1. k \in Shard /\ config.shards[k] \in Gid
    BY Groups DEF ControlTypes
  <2> QED BY <2>1 DEF GroupInv, DataInv
<1> QED BY <1>1, ShardInvariant, PTL

-----------------------------------------------------------------------------
(***************************************************************************)
(* Refinement.  A group that serves a key has what the store contains, so  *)
(* that its answers are the store's.  What is left to show is about the    *)
(* clerks: what a repeated request can still do, and what they make of     *)
(* the answers.                                                            *)
(***************************************************************************)

\* An answer that ends the call
final(r) == r # Nil /\ r.err # "ErrWrongGroup"

\* A Put that has been performed left a newer version behind, so that no copy of its
\* request matches again
Once(o) ==
  /\ executed[o] <= 1
  /\ executed[o] = 1 => /\ call[o] # "idle"
                        /\ args[o].op = "Put"
                        /\ args[o].version < store[args[o].key].version

\* As long as resent is not set there is one request
Attempts(o) ==
  /\ call[o] = "idle" => attempt[o] = 0 /\ ~ resent[o]
  /\ call[o] # "idle" /\ ~ resent[o] => attempt[o] = 1

\* Requests on their way were sent, each once; the one that was answered is not among them
InFlight ==
  \A r \in net :
    /\ r.attempt \in 1 .. attempt[r.op]
    /\ call[r.op] = "waiting" /\ reply[r.op] # Nil => r.attempt # attempt[r.op]
    /\ \A q \in net : q.op = r.op /\ q.attempt = r.attempt => q = r

\* What the answer on its way to the clerk says
Replied(o) ==
  /\ call[o] # "waiting" => reply[o] = Nil
  /\ call[o] = "waiting" /\ ~ resent[o] /\ reply[o] = Nil => executed[o] = 0
  /\ reply[o] # Nil => reply[o].err # "ErrMaybe"
  /\ reply[o] # Nil /\ args[o].op = "Put" =>
       /\ reply[o] = Error(reply[o].err)
       /\ reply[o].err = "OK" => executed[o] = 1
       /\ reply[o].err # "OK" /\ ~ resent[o] => executed[o] = 0
       /\ reply[o].err # "ErrNoKey"

\* Calls that have returned have a result
Result(o) == call[o] = "done" <=> result[o] # Nil

\* Callers pass versions that the key has had; that of an answered Put is gone
Passed(o) ==
  call[o] # "idle" /\ args[o].op = "Put" =>
    /\ args[o].version <= store[args[o].key].version
    /\ final(reply[o]) \/ call[o] = "done" => args[o].version < store[args[o].key].version

\* The answer says what the abstract store was seen to contain
Seen(o) ==
  /\ call[o] = "idle" => saw[o] = Nil
  /\ final(reply[o]) /\ (args[o].op = "Get" \/ reply[o].err # "OK") => saw[o] = reply[o]

\* A key that does not exist has the zero value
Zero == \A k \in Key : store[k].version = 0 => store[k].value = Empty

CallInv(o) == Once(o) /\ Attempts(o) /\ Replied(o) /\ Result(o) /\ Passed(o) /\ Seen(o)

RefineInv == InFlight /\ Zero /\ \A o \in Op : CallInv(o)

\* What only controllers and groups do among themselves leaves the clerks alone.
LEMMA ControlLeaves ==
  ASSUME \/ \E c \in Ctrler :
              \/ join(c) \/ leave(c)
              \/ claimRead(c) \/ claimPut(c) \/ claimLanded(c) \/ claimed(c)
              \/ InitController(c) \/ recover(c)
              \/ FreezeShard(c) \/ InstallShard(c) \/ DeleteShard(c)
              \/ reread(c) \/ publish(c)
         \/ \E q \in late : executeLate(q)
  PROVE  UNCHANGED <<clerkVars, ghostVars>>
<1>1. ASSUME NEW c \in Ctrler, join(c) \/ leave(c) PROVE UNCHANGED <<clerkVars, ghostVars>>
  BY <1>1 DEF join, leave, ChangeConfigTo
<1>2. ASSUME NEW c \in Ctrler, FreezeShard(c) \/ InstallShard(c) \/ DeleteShard(c)
      PROVE  UNCHANGED <<clerkVars, ghostVars>>
  BY <1>2 DEF FreezeShard, InstallShard, DeleteShard, shardRPC, skip
<1>3. ASSUME NEW c \in Ctrler, claimRead(c) \/ claimPut(c) \/ claimLanded(c) \/ claimed(c)
                               \/ InitController(c) \/ recover(c) \/ reread(c) \/ publish(c)
      PROVE  UNCHANGED <<clerkVars, ghostVars>>
  BY <1>3 DEF claimRead, claimPut, claimLanded, claimed, InitController, recover, reread, publish
<1>4. ASSUME NEW q \in late, executeLate(q) PROVE UNCHANGED <<clerkVars, ghostVars>>
  BY <1>4 DEF executeLate
<1> QED BY <1>1, <1>2, <1>3, <1>4

\* Steps that change nothing of a clerk or of the store keep the invariant.
LEMMA RefineInvStutter ==
  ASSUME RefineInv, UNCHANGED <<clerkVars, ghostVars>>
  PROVE  RefineInv'
BY DEF clerkVars, ghostVars, RefineInv, InFlight, Zero, CallInv, Once, Attempts, Replied, Result,
       Passed, Seen, final

\* A new call sends its first request, with a version that the key has had.
LEMMA BeginRefineInv ==
  ASSUME ShardInv, RefineInv, NEW p \in Op, NEW a \in Args, begin(p, a),
         a.op = "Put" => a.version <= store[a.key].version
  PROVE  RefineInv'
<1> USE ShardAssumption
<1> DEFINE g == config.shards[a.key]
           r == [op |-> p, attempt |-> attempt[p] + 1, gid |-> g]
<1>1. ClerkTypes
  BY DEF ShardInv, Types
<1>2. UNCHANGED <<resent, reply, result, store, executed, saw>>
  BY DEF begin, ghostVars
<1>3. /\ call[p] = "idle" /\ call' = [call EXCEPT ![p] = "waiting"]
      /\ args' = [args EXCEPT ![p] = a]
      /\ attempt' = [attempt EXCEPT ![p] = @ + 1]
      /\ net' = net \cup {r}
  BY DEF begin, send
<1>4. attempt[p] = 0 /\ ~ resent[p] /\ reply[p] = Nil /\ result[p] = Nil /\ saw[p] = Nil
      /\ executed[p] = 0
  <2>1. CallInv(p) /\ executed[p] \in Nat
    BY <1>1 DEF RefineInv, ClerkTypes
  <2>2. executed[p] <= 1 /\ executed[p] # 1
    BY <1>3, <2>1 DEF CallInv, Once
  <2> QED BY <1>3, <2>1, <2>2 DEF CallInv, Attempts, Replied, Result, Seen
<1>5. call'[p] = "waiting" /\ args'[p] = a /\ attempt'[p] = 1 /\ r.op = p /\ r.attempt = 1
  BY <1>1, <1>3, <1>4 DEF ClerkTypes
<1>6. \A o \in Op \ {p} : call'[o] = call[o] /\ args'[o] = args[o] /\ attempt'[o] = attempt[o]
  BY <1>1, <1>3 DEF ClerkTypes
<1>7. \A q \in net : q.op \in Op /\ q.op # p
  BY <1>1, <1>3 DEF ClerkTypes
<1> HIDE DEF r
<1>8. InFlight'
  BY <1>2, <1>3, <1>4, <1>5, <1>6, <1>7 DEF RefineInv, InFlight
<1>9. ASSUME NEW o \in Op \ {p} PROVE CallInv(o)'
  BY <1>2, <1>6
     DEF RefineInv, CallInv, Once, Attempts, Replied, Result, Passed, Seen, final
<1>10. CallInv(p)'
  BY <1>2, <1>4, <1>5
     DEF CallInv, Once, Attempts, Replied, Result, Passed, Seen, final
<1>11. Zero'
  BY <1>2 DEF RefineInv, Zero
<1> QED BY <1>8, <1>9, <1>10, <1>11 DEF RefineInv

\* A request is repeated; the clerk remembers that.
LEMMA RetryRefineInv ==
  ASSUME ShardInv, RefineInv, NEW p \in Op, retry(p)
  PROVE  RefineInv'
<1> USE ShardAssumption
<1>1. ClerkTypes
  BY DEF ShardInv, Types
<1>2. UNCHANGED <<call, args, result, store, executed, saw>>
  BY DEF retry, ghostVars
<1>3. PICK g : send(p, g)
  BY DEF retry
<1> DEFINE r == [op |-> p, attempt |-> attempt[p] + 1, gid |-> g]
<1>4. /\ call[p] = "waiting"
      /\ attempt' = [attempt EXCEPT ![p] = @ + 1]
      /\ net' = net \cup {r}
      /\ reply' = [reply EXCEPT ![p] = Nil]
      /\ resent' = [resent EXCEPT ![p] = TRUE]
  BY <1>3 DEF retry, send, resentAfter
<1>5. attempt[p] \in Nat /\ attempt'[p] = attempt[p] + 1 /\ reply'[p] = Nil /\ resent'[p]
      /\ r.op = p /\ r.attempt = attempt[p] + 1
  BY <1>1, <1>4 DEF ClerkTypes
<1>6. \A o \in Op \ {p} : attempt'[o] = attempt[o] /\ reply'[o] = reply[o]
                          /\ resent'[o] = resent[o]
  BY <1>1, <1>4 DEF ClerkTypes
<1>7. \A q \in net : q.op \in Op /\ q.attempt \in Nat /\ attempt[q.op] \in Nat
  BY <1>1 DEF ClerkTypes
<1> HIDE DEF r
<1>8. InFlight'
  BY <1>2, <1>4, <1>5, <1>6, <1>7 DEF RefineInv, InFlight
<1>9. ASSUME NEW o \in Op \ {p} PROVE CallInv(o)'
  BY <1>2, <1>6
     DEF RefineInv, CallInv, Once, Attempts, Replied, Result, Passed, Seen, final
<1>10. CallInv(p)'
  BY <1>2, <1>4, <1>5
     DEF RefineInv, CallInv, Once, Attempts, Replied, Result, Passed, Seen, final
<1>11. Zero'
  BY <1>2 DEF RefineInv, Zero
<1> QED BY <1>8, <1>9, <1>10, <1>11 DEF RefineInv

\* A call returns what its last request was answered.
LEMMA ReturnRefineInv ==
  ASSUME ShardInv, RefineInv, NEW p \in Op, callReturns(p)
  PROVE  RefineInv'
<1> USE ShardAssumption
<1>1. ClerkTypes
  BY DEF ShardInv, Types
<1>2. UNCHANGED <<args, resent, attempt, net, store, executed, saw>>
  BY DEF callReturns, ghostVars
<1>3. /\ call[p] = "waiting" /\ call' = [call EXCEPT ![p] = "done"]
      /\ result' = [result EXCEPT ![p] = returned(p)]
      /\ final(reply[p]) /\ reply' = [reply EXCEPT ![p] = Nil]
  BY DEF callReturns, final
<1>4. returned(p) \in Reply
  BY <1>1, <1>3 DEF returned, final, Error, Reply, ClerkTypes
<1>5. call'[p] = "done" /\ result'[p] # Nil /\ reply'[p] = Nil
  BY <1>1, <1>3, <1>4 DEF ClerkTypes, Reply
<1>6. \A o \in Op \ {p} : call'[o] = call[o] /\ result'[o] = result[o] /\ reply'[o] = reply[o]
  BY <1>1, <1>3 DEF ClerkTypes
<1>7. \A q \in net : q.op \in Op
  BY <1>1 DEF ClerkTypes
<1>8. InFlight'
  BY <1>2, <1>5, <1>6, <1>7 DEF RefineInv, InFlight
<1>9. ASSUME NEW o \in Op \ {p} PROVE CallInv(o)'
  BY <1>2, <1>6
     DEF RefineInv, CallInv, Once, Attempts, Replied, Result, Passed, Seen, final
<1>10. CallInv(p)'
  BY <1>2, <1>3, <1>5
     DEF RefineInv, CallInv, Once, Attempts, Replied, Result, Passed, Seen, final
<1>11. Zero'
  BY <1>2 DEF RefineInv, Zero
<1> QED BY <1>8, <1>9, <1>10, <1>11 DEF RefineInv

\* What a group does with a request, in terms of the store: a group that serves the key
\* has its contents.
LEMMA HandleFacts ==
  ASSUME ShardInv, NEW r \in net, handle(r)
  PROVE  LET p == r.op
             a == args[p]
             ok == served[r.gid][a.key]
             rep == IF ok THEN answers(store[a.key], a) ELSE Error("ErrWrongGroup")
             awaited == call[p] = "waiting" /\ attempt[p] = r.attempt
             done == ok /\ performs(store[a.key], a)
         IN /\ net' = net \ {r}
            /\ reply' = IF awaited THEN [reply EXCEPT ![p] = rep] ELSE reply
            /\ store' = IF done THEN [store EXCEPT ![a.key] =
                                        [value |-> a.value, version |-> a.version + 1]] ELSE store
            /\ executed' = IF done THEN [executed EXCEPT ![p] = @ + 1] ELSE executed
            /\ saw' = IF ok /\ awaited /\ ~ done THEN [saw EXCEPT ![p] = rep] ELSE saw
            /\ UNCHANGED <<call, args, resent, attempt, result>>
<1> USE ShardAssumption DEF ShardInv, Types
<1> DEFINE p == r.op
           a == args[p]
           n == shards[r.gid][a.key]
           ok == served[r.gid][a.key]
<1>1. p \in Op /\ r.gid \in Gid /\ a \in Args
  BY DEF ClerkTypes
<1>2. a.key \in Key /\ a.key \in Shard
  BY <1>1 DEF Args
<1>3. ok => n = store[a.key]
  BY <1>1, <1>2 DEF DataInv
<1>4. ok /\ performs(n, a) =>
        /\ a.version = n.version
        /\ shards'[r.gid][a.key] = [value |-> a.value, version |-> a.version + 1]
  BY <1>1, <1>2 DEF handle, performs, GroupTypes
<1> QED BY <1>3, <1>4 DEF handle

\* A group's answer keeps the refinement invariant.
LEMMA HandleRefineInv ==
  ASSUME ShardInv, RefineInv, NEW r \in net, handle(r)
  PROVE  RefineInv'
<1> USE ShardAssumption
<1> DEFINE p == r.op
           a == args[p]
           ok == served[r.gid][a.key]
           n == store[a.key]
           rep == IF ok THEN answers(n, a) ELSE Error("ErrWrongGroup")
           awaited == call[p] = "waiting" /\ attempt[p] = r.attempt
           done == ok /\ performs(n, a)
<1>1. ClerkTypes
  BY DEF ShardInv, Types
<1>2. p \in Op /\ a \in Args /\ call[p] # "idle" /\ r.attempt \in Nat
  BY <1>1 DEF ClerkTypes
<1>3. a.key \in Key /\ a.version \in Nat /\ a.op \in {"Get", "Put"} /\ n \in Node
      /\ n.version \in Nat
  BY <1>1, <1>2 DEF Args, ClerkTypes, Node
<1>4. /\ net' = net \ {r}
      /\ reply' = IF awaited THEN [reply EXCEPT ![p] = rep] ELSE reply
      /\ store' = IF done THEN [store EXCEPT ![a.key] =
                                  [value |-> a.value, version |-> a.version + 1]] ELSE store
      /\ executed' = IF done THEN [executed EXCEPT ![p] = @ + 1] ELSE executed
      /\ saw' = IF ok /\ awaited /\ ~ done THEN [saw EXCEPT ![p] = rep] ELSE saw
      /\ UNCHANGED <<call, args, resent, attempt, result>>
  BY HandleFacts
<1>5. done => a.op = "Put" /\ a.version = n.version
  BY DEF performs
<1>6. \A o \in Op : CallInv(o) /\ executed[o] \in Nat /\ attempt[o] \in Nat
  BY <1>1 DEF RefineInv, ClerkTypes
<1>7. rep # Nil /\ rep.err # "ErrMaybe"
      /\ (final(rep) <=> ok)
      /\ (done => rep = Error("OK"))
      /\ (a.op = "Put" => rep = Error(rep.err) /\ (rep.err = "OK" => done))
      /\ (a.op = "Put" /\ a.version <= n.version /\ ok =>
            (rep.err = "ErrNoKey" => FALSE) /\ (~ done => a.version < n.version))
  <2>1. rep \in Reply
    BY <1>3 DEF answers, performs, Error, Reply, Node
  <2>2. CASE ~ ok
    BY <2>1, <2>2 DEF Error, Reply, final
  <2>3. CASE ok /\ a.op = "Get"
    BY <2>1, <2>3 DEF answers, performs, Error, Reply, final
  <2>4. CASE ok /\ a.op = "Put" /\ a.version = n.version
    BY <2>1, <2>4 DEF answers, performs, Error, Reply, final
  <2>5. CASE ok /\ a.op = "Put" /\ a.version # n.version
    <3>1. rep = Error(IF n.version = 0 THEN "ErrNoKey" ELSE "ErrVersion") /\ ~ done
      BY <2>5 DEF answers, performs
    <3>2. a.version <= n.version => a.version < n.version /\ n.version # 0
      BY <1>3, <2>5
    <3>3. rep.err = IF n.version = 0 THEN "ErrNoKey" ELSE "ErrVersion"
      BY <3>1 DEF Error
    <3> HIDE DEF rep, done
    <3> QED BY <2>1, <2>5, <3>1, <3>2, <3>3 DEF Reply, final
  <2> QED BY <1>3, <2>2, <2>3, <2>4, <2>5
<1> HIDE DEF rep, done
<1>8. executed[p] = 0 \/ ~ done
  <2>1. done => ~ (a.version < n.version)
    BY <1>3, <1>5
  <2>2. executed[p] \in Nat /\ executed[p] <= 1 /\ (executed[p] = 1 => ~ done)
    BY <1>2, <1>6, <2>1 DEF CallInv, Once
  <2> QED BY <2>2
<1>9. \A k \in Key : /\ store'[k].version >= store[k].version /\ store'[k].version \in Nat
                     /\ store[k].version \in Nat
                     /\ ~ (done /\ k = a.key) => store'[k] = store[k]
                     /\ done /\ k = a.key => store'[k].version = store[k].version + 1
  BY <1>1, <1>3, <1>4, <1>5 DEF ClerkTypes, Node
<1>10. Zero'
  BY <1>9 DEF RefineInv, Zero
<1>11. InFlight'
  <2>1. \A q \in net : q.op \in Op
    BY <1>1 DEF ClerkTypes
  <2>2. \A o \in Op : reply'[o] # reply[o] => o = p /\ awaited
    BY <1>1, <1>4 DEF ClerkTypes
  <2> SUFFICES ASSUME NEW q \in net, q # r
               PROVE  /\ q.attempt \in 1 .. attempt[q.op]
                      /\ call[q.op] = "waiting" /\ reply'[q.op] # Nil => q.attempt # attempt[q.op]
                      /\ \A x \in net : x.op = q.op /\ x.attempt = q.attempt => x = q
    BY <1>4 DEF InFlight
  <2>3. q.op = p => q.attempt # r.attempt
    BY DEF RefineInv, InFlight
  <2> QED BY <2>1, <2>2, <2>3 DEF RefineInv, InFlight
<1>12. ASSUME NEW o \in Op, o # p PROVE CallInv(o)'
  <2>1. reply'[o] = reply[o] /\ executed'[o] = executed[o] /\ saw'[o] = saw[o]
    BY <1>1, <1>4, <1>12 DEF ClerkTypes
  <2>2. call[o] # "idle" => args[o].key \in Key /\ args[o].version \in Nat
    BY <1>1 DEF ClerkTypes, Args
  <2>3. CallInv(o)
    BY <1>6
  <2>4. Once(o)' /\ Passed(o)'
    BY <1>4, <1>9, <2>1, <2>2, <2>3 DEF CallInv, Once, Passed
  <2>5. Attempts(o)' /\ Replied(o)' /\ Result(o)' /\ Seen(o)'
    BY <1>4, <2>1, <2>3 DEF CallInv, Attempts, Replied, Result, Seen, final
  <2> QED BY <2>4, <2>5 DEF CallInv
<1>13. CallInv(p)'
  <2>1. CallInv(p)
    BY <1>2, <1>6
  <2>2. /\ reply'[p] = IF awaited THEN rep ELSE reply[p]
        /\ executed'[p] = IF done THEN executed[p] + 1 ELSE executed[p]
        /\ saw'[p] = IF ok /\ awaited /\ ~ done THEN rep ELSE saw[p]
    BY <1>1, <1>2, <1>4 DEF ClerkTypes
  <2>3. n.version <= store'[a.key].version /\ (done => a.version < store'[a.key].version)
        /\ store'[a.key].version \in Nat
    BY <1>3, <1>5, <1>9
  <2>4. executed'[p] = IF done THEN 1 ELSE executed[p]
    BY <1>8, <2>2
  <2>5. Once(p)'
    BY <1>2, <1>3, <1>4, <1>5, <2>1, <2>3, <2>4 DEF CallInv, Once
  <2>6. Passed(p)'
    <3>1. a.op = "Put" => a.version <= n.version
      BY <1>2, <2>1 DEF CallInv, Passed
    <3>2. CASE done \/ (ok /\ a.op = "Put")
      BY <1>2, <1>3, <1>4, <1>5, <1>7, <2>3, <3>1, <3>2 DEF Passed
    <3>3. CASE ~ ok /\ ~ done
      BY <1>2, <1>3, <1>4, <1>7, <2>1, <2>2, <2>3, <3>1, <3>3 DEF CallInv, Passed
    <3>4. CASE a.op # "Put"
      BY <1>4, <3>4 DEF Passed
    <3> QED BY <1>3, <3>2, <3>3, <3>4
  <2>7. (r.attempt = attempt[p] /\ awaited) \/ ~ awaited
    OBVIOUS
  <2>8. ~ resent[p] => r.attempt = attempt[p]
    BY <1>2, <2>1 DEF RefineInv, InFlight, CallInv, Attempts
  <2>9. Replied(p)'
    <3>1. CASE awaited
      <4>1. reply[p] = Nil
        BY <3>1 DEF RefineInv, InFlight
      <4>2. ~ resent[p] => executed[p] = 0
        BY <2>1, <3>1, <4>1 DEF CallInv, Replied
      <4>3. a.op = "Put" => rep.err # "ErrNoKey"
        <5>1. ok => (a.op = "Put" => rep.err # "ErrNoKey")
          BY <1>2, <1>7, <2>1 DEF CallInv, Passed
        <5>2. ~ ok => rep.err = "ErrWrongGroup"
          BY DEF rep, Error
        <5> QED BY <5>1, <5>2
      <4> QED BY <1>4, <1>7, <2>2, <2>4, <3>1, <4>2, <4>3 DEF Replied, Error
    <3>2. CASE ~ awaited
      <4>1. resent[p] \/ call[p] = "done"
        BY <1>1, <1>2, <2>8, <3>2 DEF ClerkTypes
      <4>2. done => executed'[p] = 1
        BY <2>4
      <4> QED BY <1>4, <2>1, <2>2, <2>4, <3>2, <4>1 DEF CallInv, Replied
    <3> QED BY <3>1, <3>2
  <2>10. Attempts(p)' /\ Result(p)'
    BY <1>4, <2>1 DEF CallInv, Attempts, Result
  <2>11. Seen(p)'
    BY <1>2, <1>4, <1>5, <1>7, <2>1, <2>2 DEF CallInv, Seen, final, Error
  <2> QED BY <2>5, <2>6, <2>9, <2>10, <2>11 DEF CallInv
<1> QED BY <1>10, <1>11, <1>12, <1>13 DEF RefineInv

\* The refinement invariant always holds.
LEMMA RefineInvariance == SpecRecoversNext => [](ShardInv /\ RefineInv)
<1>1. Init => RefineInv
  BY ShardAssumption
     DEF Init, NoNode, RefineInv, InFlight, Zero, CallInv, Once, Attempts, Replied, Result,
         Passed, Seen, final
<1>2. ShardInv /\ RefineInv /\ [Next /\ recoversNext]_vars => RefineInv'
  <2> SUFFICES ASSUME ShardInv, RefineInv, [Next /\ recoversNext]_vars PROVE RefineInv'
    OBVIOUS
  <2> USE ShardAssumption
  <2>1. ASSUME NEW o \in Op, NEW k \in Key, Get(o, k) PROVE RefineInv'
    <3>1. [op |-> "Get", key |-> k, value |-> Empty, version |-> 0] \in Args
      BY DEF Args
    <3> QED BY <2>1, <3>1, BeginRefineInv DEF Get
  <2>2. ASSUME NEW o \in Op, NEW k \in Key, NEW v \in Value, NEW n \in 0 .. MaxVersion,
               Put(o, k, v, n)
        PROVE  RefineInv'
    <3>1. [op |-> "Put", key |-> k, value |-> v, version |-> n] \in Args
      BY DEF Args
    <3>2. n <= store[k].version
      BY <2>2 DEF Put
    <3> QED BY <2>2, <3>1, <3>2, BeginRefineInv DEF Put
  <2>3. CASE UNCHANGED vars
    BY <2>3, RefineInvStutter DEF vars
  <2> QED BY <2>1, <2>2, <2>3, ControlLeaves, RefineInvStutter, RetryRefineInv, ReturnRefineInv,
             HandleRefineInv DEF Next
<1> QED BY <1>1, <1>2, ShardInit, ShardNext, PTL DEF SpecRecoversNext

\* A step of a group is a step of the store on behalf of the call, or none.
LEMMA HandleRefines ==
  ASSUME ShardInv, RefineInv, NEW r \in net, handle(r)
  PROVE  [Store!StoreNext]_(Store!storeVars)
<1> USE ShardAssumption
<1> DEFINE p == r.op
           a == args[p]
           ok == served[r.gid][a.key]
           n == store[a.key]
           rep == IF ok THEN answers(n, a) ELSE Error("ErrWrongGroup")
           awaited == call[p] = "waiting" /\ attempt[p] = r.attempt
           done == ok /\ performs(n, a)
<1>1. ClerkTypes
  BY DEF ShardInv, Types
<1>2. p \in Op /\ a \in Args /\ a # Nil /\ call[p] # "idle" /\ CallInv(p)
  BY <1>1 DEF ClerkTypes, RefineInv, Args
<1>3. a.key \in Key /\ a.version \in Nat /\ a.op \in {"Get", "Put"} /\ n \in Node
  BY <1>1, <1>2 DEF Args, ClerkTypes
<1>4. /\ store' = IF done THEN [store EXCEPT ![a.key] =
                                  [value |-> a.value, version |-> a.version + 1]] ELSE store
      /\ executed' = IF done THEN [executed EXCEPT ![p] = @ + 1] ELSE executed
      /\ saw' = IF ok /\ awaited /\ ~ done THEN [saw EXCEPT ![p] = rep] ELSE saw
      /\ UNCHANGED <<args, result>>
  BY HandleFacts
<1>5. CASE done
  <2>1. a.op = "Put" /\ n.version = a.version
    BY <1>5 DEF performs
  <2>2. ~ (a.version < n.version)
    BY <1>3, <2>1
  <2>3. Store!Busy(p)
    BY <1>2, <2>1, <2>2 DEF Store!Busy, CallInv, Passed, Result
  <2>4. executed[p] = 0
    <3>1. executed[p] \in Nat /\ executed[p] <= 1 /\ executed[p] # 1
      BY <1>1, <1>2, <2>2 DEF CallInv, Once, ClerkTypes
    <3> QED BY <3>1
  <2>5. [o \in Op |-> executed'[o] > 0] = [[o \in Op |-> executed[o] > 0] EXCEPT ![p] = TRUE]
    <3>1. executed'[p] > 0 /\ \A o \in Op \ {p} : executed'[o] = executed[o]
      BY <1>1, <1>2, <1>4, <1>5, <2>4 DEF ClerkTypes
    <3> QED BY <1>2, <3>1, Zenon
  <2>6. ~ [o \in Op |-> executed[o] > 0][p]
    <3>1. ~ (executed[p] > 0)
      BY <2>4
    <3> QED BY <1>2, <3>1, Zenon
  <2>7. /\ store' = [store EXCEPT ![a.key] = [value |-> a.value, version |-> a.version + 1]]
        /\ saw' = saw
    BY <1>4, <1>5
  <2>8. Store!Apply(p)
    BY <1>4, <2>1, <2>3, <2>5, <2>6, <2>7 DEF Store!Apply
  <2> QED BY <1>2, <2>8 DEF Store!StoreNext
<1>6. CASE ok /\ awaited /\ ~ done
  <2>1. UNCHANGED <<store, executed>> /\ saw' = [saw EXCEPT ![p] = answers(n, a)]
    BY <1>4, <1>6
  <2>2. Store!Busy(p)
    BY <1>2, <1>6 DEF Store!Busy, CallInv, Result
  <2>3. ~ performs(n, a)
    BY <1>6
  <2>4. a.op = "Get" => answers(n, a) = Store!Contents(n)
    <3>1. n.version = 0 => n.value = Empty
      BY <1>3 DEF RefineInv, Zero
    <3>2. n.version \in Nat
      BY <1>3 DEF Node
    <3> QED BY <2>3, <3>1, <3>2 DEF answers, Error, Store!Contents
  <2>5. a.op = "Put" => n.version # a.version /\ answers(n, a) = Store!Refusal(n)
    BY <2>3 DEF performs, answers, Error, Store!Refusal, Store!Error
  <2>6. Store!Observe(p)
    BY <1>3, <1>4, <2>1, <2>2, <2>4, <2>5 DEF Store!Observe
  <2> QED BY <1>2, <2>6 DEF Store!StoreNext
<1>7. CASE ~ done /\ ~ (ok /\ awaited)
  <2>1. UNCHANGED <<store, executed, saw>>
    BY <1>4, <1>7
  <2> QED BY <1>4, <2>1 DEF Store!storeVars, Store!callVars
<1> QED BY <1>5, <1>6, <1>7

\* Starting a call is an invocation of the store.
LEMMA BeginRefines ==
  ASSUME ShardInv, RefineInv, NEW p \in Op, NEW a \in Args, begin(p, a)
  PROVE  Store!StoreNext
<1> USE ShardAssumption
<1>1. ClerkTypes /\ CallInv(p) /\ call[p] = "idle"
  BY DEF ShardInv, Types, RefineInv, begin
<1>2. args[p] = Nil /\ result[p] = Nil /\ saw[p] = Nil /\ executed[p] = 0
  <2>1. executed[p] \in Nat /\ executed[p] <= 1 /\ executed[p] # 1
    BY <1>1 DEF CallInv, Once, ClerkTypes
  <2>2. executed[p] = 0
    BY <2>1
  <2> QED BY <1>1, <2>2 DEF ClerkTypes, CallInv, Result, Seen
<1>3. args' = [args EXCEPT ![p] = a] /\ UNCHANGED <<store, result, executed, saw>>
  BY DEF begin, ghostVars
<1>4. args'[p] = a /\ args'[p] \in Store!Args
  BY <1>1, <1>3 DEF ClerkTypes, Args, Store!Args
<1>5. [[o \in Op |-> executed[o] > 0] EXCEPT ![p] = FALSE] = [o \in Op |-> executed[o] > 0]
  <2>1. (executed[p] > 0) = FALSE
    BY <1>2
  <2> QED BY <2>1, Zenon
<1>6. [saw EXCEPT ![p] = Nil] = saw /\ [result EXCEPT ![p] = Nil] = result
  BY <1>1, <1>2 DEF ClerkTypes
<1> QED BY <1>2, <1>3, <1>4, <1>5, <1>6 DEF Store!StoreNext, Store!Invoke, Store!Busy

\* What a call returns is one of the answers that the store allows.
LEMMA ReturnRefines ==
  ASSUME ShardInv, RefineInv, NEW p \in Op, callReturns(p)
  PROVE  Store!StoreNext
<1> USE ShardAssumption
<1>1. ClerkTypes /\ CallInv(p) /\ call[p] = "waiting" /\ final(reply[p])
  BY DEF ShardInv, Types, RefineInv, callReturns, final
<1>2. args[p] \in Args /\ args[p] # Nil /\ result[p] = Nil /\ reply[p] \in Reply /\ reply[p] # Nil
  BY <1>1 DEF ClerkTypes, CallInv, Result, final
<1>3. args[p].op \in {"Get", "Put"}
  BY <1>2 DEF Args
<1>4. returned(p) \in Store!Answers(p)
  <2>1. CASE args[p].op = "Get"
    BY <1>1, <1>2, <2>1 DEF CallInv, Seen, returned, Store!Answers
  <2>2. CASE args[p].op = "Put" /\ reply[p].err = "OK"
    <3>1. executed[p] = 1 /\ reply[p] = Store!Error("OK")
      BY <1>1, <1>2, <2>2 DEF CallInv, Replied, Error, Store!Error
    <3>2. [o \in Op |-> executed[o] > 0][p]
      <4>1. executed[p] > 0
        BY <3>1
      <4> QED BY <4>1, Zenon
    <3> QED BY <2>2, <3>1, <3>2 DEF returned, Store!Answers
  <2>3. CASE args[p].op = "Put" /\ reply[p].err = "ErrVersion"
    <3>1. saw[p] = reply[p] /\ reply[p] = Store!Error("ErrVersion")
      BY <1>1, <1>2, <2>3 DEF CallInv, Seen, Replied, Error, Store!Error
    <3>2. CASE resent[p]
      BY <2>3, <3>1, <3>2 DEF returned, Store!Answers, Error, Store!Error
    <3>3. CASE ~ resent[p]
      <4>1. executed[p] = 0
        BY <1>1, <1>2, <2>3, <3>3 DEF CallInv, Replied
      <4>2. ~ [o \in Op |-> executed[o] > 0][p]
        <5>1. ~ (executed[p] > 0)
          BY <4>1
        <5> QED BY <5>1, Zenon
      <4> QED BY <1>2, <2>3, <3>1, <3>3, <4>2 DEF returned, Store!Answers
    <3> QED BY <3>2, <3>3
  <2>4. args[p].op = "Put" => reply[p].err \in {"OK", "ErrVersion"}
    BY <1>1, <1>2 DEF CallInv, Replied, Reply, final
  <2> QED BY <1>3, <2>1, <2>2, <2>3, <2>4
<1>5. result' = [result EXCEPT ![p] = returned(p)] /\ UNCHANGED <<store, args, executed, saw>>
  BY DEF callReturns, ghostVars
<1>6. Store!Respond(p)
  BY <1>2, <1>4, <1>5 DEF Store!Respond, Store!Busy
<1> QED BY <1>6 DEF Store!StoreNext

\* Clerks, groups and controllers implement the abstract store, for any number of each, of
\* keys, requests and changes of the configuration: each call takes effect once, between
\* its invocation and its answer, while shards move (client.go:55-128).
THEOREM ShardsRefineStore == SpecRecoversNext => Linearizable
<1>1. Init => Store!StoreInit
  <2> SUFFICES ASSUME Init PROVE Store!StoreInit
    OBVIOUS
  <2>1. \A o \in Op : (executed[o] > 0) = FALSE
    BY DEF Init
  <2>2. [o \in Op |-> executed[o] > 0] = [o \in Op |-> FALSE]
    BY <2>1, Zenon
  <2> QED BY <2>2, Zenon DEF Init, NoNode, Store!StoreInit, Store!NoNode
<1>2. ShardInv /\ RefineInv /\ [Next /\ recoversNext]_vars
        => [Store!StoreNext]_(Store!storeVars)
  <2> SUFFICES ASSUME ShardInv, RefineInv, [Next /\ recoversNext]_vars
               PROVE  [Store!StoreNext]_(Store!storeVars)
    OBVIOUS
  <2> USE ShardAssumption
  <2>1. ASSUME NEW o \in Op, NEW k \in Key, Get(o, k) PROVE Store!StoreNext
    <3>1. [op |-> "Get", key |-> k, value |-> Empty, version |-> 0] \in Args
      BY DEF Args
    <3> QED BY <2>1, <3>1, BeginRefines DEF Get
  <2>2. ASSUME NEW o \in Op, NEW k \in Key, NEW v \in Value, NEW n \in 0 .. MaxVersion,
               Put(o, k, v, n)
        PROVE  Store!StoreNext
    <3>1. [op |-> "Put", key |-> k, value |-> v, version |-> n] \in Args
      BY DEF Args
    <3> QED BY <2>2, <3>1, BeginRefines DEF Put
  <2>3. ASSUME NEW o \in Op, retry(o) PROVE UNCHANGED Store!storeVars
    BY <2>3 DEF retry, ghostVars, Store!storeVars, Store!callVars
  <2>4. ASSUME UNCHANGED <<clerkVars, ghostVars>> PROVE UNCHANGED Store!storeVars
    BY <2>4 DEF clerkVars, ghostVars, Store!storeVars, Store!callVars
  <2>5. CASE UNCHANGED vars
    BY <2>4, <2>5 DEF vars
  <2> QED BY <2>1, <2>2, <2>3, <2>4, <2>5, ControlLeaves, HandleRefines, ReturnRefines DEF Next
<1> QED BY <1>1, <1>2, RefineInvariance, PTL
        DEF SpecRecoversNext, Linearizable, Store!StoreSpec

=============================================================================
