------------------------------ MODULE ShardCfg ------------------------------
(***************************************************************************)
(* The assignment of shards to groups of                                   *)
(* src/src/shardkv1/shardcfg/shardcfg.go.  A group is its gid; the names   *)
(* of its servers are left out.                                            *)
(***************************************************************************)
EXTENDS Naturals, FiniteSets

CONSTANTS
  Gid,      \* group identifiers, positive numbers; 0 marks a shard without a group
  NShards   \* shards are numbered from 1

ASSUME CfgAssumption ==
  /\ Gid \subseteq Nat \ {0} /\ IsFiniteSet(Gid)
  /\ NShards \in Nat \ {0}

Shard == 1 .. NShards

ShardConfig == [num : Nat, shards : [Shard -> Gid \cup {0}], groups : SUBSET Gid]

MakeShardConfig == [num |-> 0, shards |-> [s \in Shard |-> 0], groups |-> {}]

\* Key2Shard is a hash; a model of one shard's keys names the shard itself

count(c, g) == Cardinality({s \in Shard : c.shards[s] = g})

\* analyze: the group with the most shards and the one with the fewest; the lower gid
\* when several have as many
most(c) ==
  CHOOSE g \in c.groups : \A h \in c.groups :
    count(c, g) > count(c, h) \/ (count(c, g) = count(c, h) /\ g <= h)

least(c) ==
  CHOOSE g \in c.groups : \A h \in c.groups :
    count(c, g) < count(c, h) \/ (count(c, g) = count(c, h) /\ g <= h)

\* The first loop of Rebalance, for the shards up to s
assigned(c, s) ==
  LET after[i \in 0 .. s] ==
        IF i = 0 THEN c
        ELSE LET b == after[i - 1]
             IN IF b.shards[i] \in b.groups THEN b ELSE [b EXCEPT !.shards[i] = least(b)]
  IN after[s]

\* Mutant: groups may differ by two
balanced_byTwo(c) == count(c, most(c)) <= count(c, least(c)) + 2

balanced(c) == count(c, most(c)) < count(c, least(c)) + 2

\* Mutant: the last shard of the group is moved, to whichever group comes first
moveOne_first(c) ==
  LET s == CHOOSE i \in Shard : c.shards[i] = most(c) /\ \A j \in Shard : j > i => c.shards[j] # most(c)
      g == CHOOSE h \in c.groups \ {most(c)} : \A x \in c.groups \ {most(c)} : h <= x
  IN [c EXCEPT !.shards[s] = g]

\* The first shard of the fullest group goes to the emptiest
moveOne(c) ==
  LET s == CHOOSE i \in Shard : c.shards[i] = most(c) /\ \A j \in 1 .. i - 1 : c.shards[j] # most(c)
  IN [c EXCEPT !.shards[s] = least(c)]

\* The second loop of Rebalance: each round moves one shard, and no shard twice, so
\* NShards rounds are enough
evened(c) ==
  LET after[i \in 0 .. NShards] ==
        IF i = 0 THEN c
        ELSE IF balanced(after[i - 1]) THEN after[i - 1] ELSE moveOne(after[i - 1])
  IN after[NShards]

Rebalance(c) ==
  IF c.groups = {} THEN [c EXCEPT !.shards = [s \in Shard |-> 0]]
  ELSE evened(assigned(c, NShards))

Join(c, gids) == [num |-> c.num + 1, shards |-> c.shards, groups |-> c.groups \cup gids]
Leave(c, gids) == [num |-> c.num + 1, shards |-> c.shards, groups |-> c.groups \ gids]

canJoin(c, gids) == gids # {} /\ gids \cap c.groups = {}
canLeave(c, gids) == gids # {} /\ gids \subseteq c.groups

JoinBalance(c, gids) == Rebalance(Join(c, gids))
LeaveBalance(c, gids) == Rebalance(Leave(c, gids))

=============================================================================
