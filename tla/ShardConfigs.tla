---------------------------- MODULE ShardConfigs ----------------------------
(***************************************************************************)
(* Every configuration that joins and leaves of groups can produce.        *)
(***************************************************************************)
EXTENDS ShardCfg

CONSTANT MaxChanges   \* bound: configurations

VARIABLE cfg

cfgVars == <<cfg>>

CfgInit == cfg = MakeShardConfig

CfgNext ==
  /\ cfg.num < MaxChanges
  /\ \E gids \in SUBSET Gid :
       \/ canJoin(cfg, gids) /\ cfg' = JoinBalance(cfg, gids)
       \/ canLeave(cfg, gids) /\ cfg' = LeaveBalance(cfg, gids)

CfgSpec == CfgInit /\ [][CfgNext]_cfgVars

-----------------------------------------------------------------------------
\* What the tests demand of every configuration (CheckConfig, shardcfg.go:238-279):
\* every shard is with a member, and no member has two shards more than another.
CheckConfig ==
  /\ cfg.groups = {} => \A s \in Shard : cfg.shards[s] = 0
  /\ cfg.groups # {} =>
       /\ \A s \in Shard : cfg.shards[s] \in cfg.groups
       /\ \A g, h \in cfg.groups : count(cfg, g) <= count(cfg, h) + 1

\* Rebalance disturbs no more than it must (shardcfg.go:131-153): a shard leaves a group
\* that stays only for a group that has just joined, and when groups leave only their own
\* shards move.
MovesOnlyWhatItMust ==
  [][\A s \in Shard :
       cfg'.shards[s] # cfg.shards[s] /\ cfg.shards[s] \in cfg'.groups =>
         cfg'.shards[s] \notin cfg.groups]_cfgVars

=============================================================================
