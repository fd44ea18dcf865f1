# TLA+ models and proofs for the 6.5840 labs

This directory holds TLA+ specifications of the distributed systems in `src/src/`, the TLC
configurations that check them on small instances, and TLAPS proofs of their main safety
properties for instances of every size. `PROJECT.json` is the index: components, runs, the map from
definitions to source lines, findings, hazards and theorems.

## 1. The system

The repository implements the five labs of MIT 6.5840 in Go. The parts build on each other:

| part | source | state | operations |
|---|---|---|---|
| Raft peer | `raft1/raft.go` | term, vote, role, log with sentinel, snapshot and its position, commit/apply index, per-peer next/match index, pending snapshot, persister | RequestVote, AppendEntries, InstallSnapshot and the handlers of their replies, Start, Snapshot, applier, replicator, ticker, Make/readPersist |
| labrpc network | `labrpc/labrpc.go` | connections, enabled ends, servers | Call: a request may be dropped, executed late, its reply dropped or delayed; a call dies with its server |
| persister | `tester1/persister.go` | raft state and snapshot | atomic Save |
| key/value server | `kvsrv1/server.go` | key -> (value, version) | Get, conditional Put |
| its clerk | `kvsrv1/client.go` | one outstanding call, whether it was resent | Get, Put with retries, ErrMaybe |
| lock | `kvsrv1/lock/lock.go` | id, version of the lock key | Acquire, Release on top of the clerk |
| replicated state machine | `kvraft1/rsm/rsm.go` | pending submits by log index, request counter, lastApplied | Submit, reader, applySnapshot, maybeSnapshot |
| replicated key/value server and clerk | `kvraft1/server.go`, `kvraft1/client.go` | the map; cached leader | DoOp, Snapshot, Restore; Get, Put over several servers |
| shard group | `shardkv1/shardgrp/` | per shard: data, served, highest configuration number | Get, Put, FreezeShard, InstallShard, DeleteShard |
| shard controller | `shardkv1/shardctrler/` | current and next configuration, kept in a kvsrv | InitConfig, ChangeConfigTo (claim, move, publish), InitController (recovery), Query |
| shard configuration | `shardkv1/shardcfg/` | shard -> group, group -> servers | JoinBalance, LeaveBalance |
| sharded clerk | `shardkv1/client.go` | cached group clerks | Get, Put across reconfigurations |
| MapReduce | `mr/coordinator.go`, `mr/worker.go` | pending and running tasks, pool of nodes, finished maps, intermediate files, outputs | GetTask, ReportMap, ReportReduce, checkTimeout; map, reduce, merge |

A clerk calls a server through labrpc. A replicated server hands each request to `rsm.Submit`, which
calls `Raft.Start` and waits until the reader has taken the entry from `applyCh`. The shard controller
keeps its configurations in a plain kvsrv and moves shards by calling the groups. The lock lives in
a key of a kvsrv.

What is hard to test in each of them is listed under `hazards` in `PROJECT.json`: votes and replies
that arrive in a later term, two persists in one handler, entries committed by counting, snapshots
that race the applier, retries of a Put that has been executed, two controllers at work on one
configuration, a task given to a second worker while the first one is still about to report.

## 2. Modules

| module | models or shows |
|---|---|
| `Raft` | the Raft peer with network, persister and the service above it; its properties and the mutants used to test them |
| `MCRaft` | small instances of `Raft`: symmetry, the diverged cluster |
| `MCRaftCatchUp` | liveness of log repair: a cluster whose followers are behind in different ways, with fairness |
| `RaftInvariants` | the strengthenings that make the properties inductive, and the past that explains a state |
| `RaftTheorems` | the invariant about the present state: types, durable state, the leader's indexes, snapshots and the applier's batch, votes; the theorems that follow from it |
| `RaftSafetyProofs` | the invariant about the past: every kind of step can be explained; log matching, leader completeness, commitment, agreement of the services |
| `KVStore` | abstract: what a versioned store promises the callers of a Clerk |
| `KVService` | detailed: key/value server, clerk and network; implements `KVStore` |
| `MCKVService` | small instances of `KVService` |
| `KVServiceProofs` | answers of Puts are true; the refinement of `KVStore` |
| `Lock` | the lock's clients, on top of `KVStore` |
| `MCLock` | small instances of `Lock` |
| `LockProofs` | mutual exclusion and the holder's knowledge of the version |
| `KVRaft` | the replicated service: clerks, servers and the rsm over an abstract Raft; implements `KVStore` |
| `MCKVRaft` | small instances of `KVRaft` |
| `KVRaftProofs` | states and snapshots are prefixes of the committed commands; no waiter is lost; the refinement of `KVStore` |
| `ShardCfg` | shard configurations: joining, leaving and rebalancing as functions |
| `ShardConfigs` | every configuration that joins and leaves produce |
| `ShardCfgProofs` | what the two loops of Rebalance compute, by induction over finite sets; every configuration is complete and balanced; only necessary moves |
| `ShardKV` | the sharded service: groups, controllers and clerks, on top of `ShardCfg`; implements `KVStore` |
| `MCShardKV` | small instances of `ShardKV` |
| `ShardKVProofs` | one server per shard, no data lost, published means moved; the refinement of `KVStore` |
| `MapReduce` | coordinator and workers; map output, segments and merge as functions |
| `MCMapReduce` | small instances of `MapReduce` |
| `MapReduceProofs` | a task is listed once; what a reduce computes; the outputs are right |

The services build on each other by what they promise, not by what they contain: `KVRaft` assumes of
Raft what `Raft` shows, `ShardKV` takes a group for the atomic state machine that `KVRaft` shows it to
be and the controllers' kvsrv for the store of `KVService`, and `Lock` runs on `KVStore`. Three
services implement the same abstract store, `KVStore`.

### Raft

Every action is one critical section of `rf.mu`. What a peer holds outside the lock is state of its
own: the messages in the network (`voteReq`, `voteRep`, `appReq`, `appRep`, `snapReq`, `snapRep`)
and the batch the applier is pushing on `applyCh` (`applyMsgs`). The variables keep the names of
the Go fields; `disk` is the persister, `app` the commands the service has applied, `inc` counts the
lives of a peer, and `voters` is a history variable that names the votes `voteCount` counts.

* *Log.* `log[s]` is the Go slice; its first element is the sentinel at `lastIncludeIndex`. Helpers
  (`logIdx`, `entry`, `entries`, `truncateFront`) translate logical indexes exactly as the code does,
  so reading outside the log is an error TLC reports.
* *Network.* A vote request is sent once per candidacy and peer. A replicator repeats the same
  AppendEntries or InstallSnapshot until it is answered, so equal copies of a request and of its replies
  travel together; receiving such a message may leave a copy behind (`Receive`). Every message may
  be lost (a lost message is one that is never received; for replies `SendReply` also drops them on the
  spot to free the place) and delivered in any order. A reply whose caller has crashed is gone: labrpc's
  Call died with it (`m.inc = inc[m.src]`).
* *Crashes.* `Restart` reloads a peer from `disk`. `crashInHandler` is a crash between the two
  `persist()` calls of a handler: the newer term is stored, the rest of the request is not.
* *Service.* `deliver` and `Snapshot` are `applierSnap` and `ingestSnap` of `raft1/server.go`, except
  that a snapshot may be taken after any command rather than every tenth one.
* *Time.* Timeouts and heartbeats are steps that may happen at any moment.

Left out: `Kill` and `GetState` (no protocol state), the sizes reported by `PersistBytes`, the wake-up
signals (`applyCond`, `notify`: every action is enabled by the state itself), the in-memory index
`pendingSnapshotTerm` (never read).

### Key/value service

`KVService` has one action per step that the network can separate: a call starts (`Get`, `Put`), sends a
request (`Call`), the server executes a request (`handle`, the critical section of `kv.mu`), Call
returns false (`callFails`: request or reply lost, or the request left behind to be executed later), or
the call returns (`callReturns`, with the clerk's translation of ErrVersion to ErrMaybe). `Op` is the set
of calls, not of clerks: a Clerk keeps nothing between calls. `m` is `kv.m`, with version 0 for a key
that is not in the map; `executed` and `saw` are history variables. `net` is a set of requests, each named
by its call and attempt; labrpc never duplicates one. The sleep between attempts is left out.

`KVStore` is the promise: a call is invoked, its Put is applied at most once while it is open, or the
key is looked at, and it answers with what happened. The mapping is `store <- m`,
`applied <- executed > 0`, `answer <- result`. It needs the constant `Blind = FALSE`: callers pass only
versions the key has had. A caller that guesses a version from the future can be told ErrNoKey or
ErrMaybe and have a late copy of the request succeed afterwards; every caller in the repository passes
0 or a version it has read.

### Lock

`Lock` extends the abstract store, which `KVService` is proved to implement, and adds the client's
program counter and `lk.version`. A client only computes between two calls, so one action takes the
answer of a call and issues the next. `Acquire`, `acquireGot` and `acquirePutDone` are the loop of
Acquire, `Release`, `releasePutDone` and `releaseGot` that of Release. The random ids of MakeLock are
taken to be different.

### Replicated key/value service

`KVRaft` has three layers, and one step per critical section of `rsm.mu`.

* *Raft* is what rsm.go sees of it: `Start`, `GetState`, `Snapshot` and the messages on `applyCh`.
  `termLog[t]` is the log of the leader of term t, `clog` what is committed. A new leader's log is any
  part of an earlier leader's log that extends `clog`; whether a majority would really have voted for
  it is not asked, so the model allows more than Raft does. Old leaders stay leaders until they hear of
  the new one. Only entries of the leader's own term are committed directly, and a leader hands its
  reader only what was committed in its term or before. `base` and `snap` are the persisted snapshot,
  which a follower may get from a leader.
* *rsm.* `Submit` is everything up to the wait, since Start and the registration share the lock;
  `giveUp` is a tick that finds the leadership gone. The reader's round has two steps, because it
  claims the waiter under the lock and runs the command outside: `takeCommand` and `runCommand`,
  the latter with the delivery and `maybeSnapshot`. `applySnapshot` and `restart` (MakeRSM, with the
  process's waiters gone) are one step each.
* *Server and clerk.* As in `KVService`, except that an attempt names a handler, which may run at any
  server, also after the clerk has gone on. A request that is lost stays in `net` and never starts. The
  clerk goes round the servers from a cached leader; here it may ask any server at any time.

Ghost variables: `history` (the state after each log index, wherever it ran first), and `executed` and
`saw` as in `KVService`. The store of the abstract specification is the last state in `history`. Left
out: `down` (the process is about to end; `restart` ends its waiters), sizes (`PersistBytes` is a choice).

### Shard configurations

`ShardCfg` gives Rebalance as the composition of its two loops: shards without a group go to the
emptiest group, then the first shard of the fullest group goes to the emptiest as long as they differ by
two. Ties go to the lower gid, as `analyze` sorts them. Server names and encoding are left out.

### Sharded service

`ShardKV`: a group is the three arrays of `shardState`; `perform` is DoOp on a shard RPC, `handle` on a
Get or Put. A controller is a program counter with its local variables (`ctl`): `claimRead`, `claimPut`,
`claimLanded`, `claimed` are ChangeConfigTo up to the move, `moveTo` enters its loop, `FreezeShard`, `InstallShard`,
`DeleteShard` are one round of it, the last with the search for the next shard, `reread` the loop of moveUntilDone, then `publish`. `InitController` and
`recover` are the two reads of a recovery. `Spec` is the code; `SpecRecoversNext` is the code without the window
between those two reads (`recoversNext`: the controller takes over the change that follows the
configuration it has read), which is the condition under which the service is correct. A crashed or partitioned controller is one that takes no more
steps, or takes them later.

* Every RPC to a group may be performed, lost, or leave a copy (`late`) that is executed at any later time.
* `claimPut` and `publish` compare contents where the code compares versions: the configurations stored
  in a key have increasing numbers, so the two agree. A compare-and-swap may answer ErrMaybe either way.
* The reads of config and of config_next in `claimRead` are one step: if config reaches the new number
  between them, config_next has reached it too and the claim is refused all the same.
* The two flags `resent` of the group's clerk and of the sharded clerk are one: the inner one starts anew
  only after the outer one is set.
* A key stands for its shard. The tester takes a new configuration from Query and never lets the last
  group leave; without any group DeleteShard would throw the data away.

### MapReduce

`MapReduce`: `node`, `free`, `pending` and `running` are the pool and the lists of the coordinator,
each handler is one step (`c.mu`), `checkTimeout` takes back the oldest running task. A worker's steps
are its RPCs and `link`, the moment its output gets its name. Words are numbers, and a pair's value is its
place in the input, so that a word counted twice or not at all shows. `doMap` writes sorted batches,
`segments` cuts a file where the key decreases, `mergeOne` is one turn of the heap's loop.
`MergesRight` is about these functions alone, for every order of the maps; `OutputsRight` is about what
becomes of them when tasks crash, time out and are repeated.

Generations are left out: alloc gives node and task the same one, so the check in the reports never
refuses anything. Keys and values contain no blanks (see the observations in section 3).

## 3. Runs

Each bound is a CONSTANT that appears in the guard it bounds.
Deadlock checking is off in every run: with terms, indexes and messages bounded, the system stops
when the bounds are used up.

| run | instance | shows |
|---|---|---|
| `raft_figure8` | 3 peers whose logs differ at index 1, terms to 4, applier not scheduled | one leader per term, leader completeness, log matching, truthful matchIndex, nextIndex in range |
| `raft_snapshot` | 2 peers, 2 replication messages in flight, snapshots at 1 and 2 | snapshot/log/apply consistency, nothing committed is lost, nothing rolled back |
| `raft_recovery` | 2 peers, 2 commands, terms to 2, snapshots, 1 crash | services agree, disk is complete, order, votes and committed entries survive a crash |
| `raft_catchup` | 3 peers, a compacted leader, one conflicting and one empty follower | liveness of log repair |
| `kv_service` | 3 calls on one key, 2 values, versions to 2, 2 requests per call | answers of Puts are true, the service implements the store |
| `lock` | 3 clients, key versions to 4 | one holder, who knows the version; Release is not refused; the lock does not leak |
| `rsm` | 2 servers, 2 calls, 3 requests and crashes together, terms to 2, snapshot at 1 | state and snapshots are prefixes, no waiter is lost or, until a restart, told another's result, the service implements the store |
| `shard` | 2 groups, 2 shards, 2 controllers, configurations to 3, 2 calls, 1 late RPC, recoveries of the next change (`SpecRecoversNext`) | one server per shard, published means moved, no data lost, the service implements the store |
| `shard_recovery` | as `shard`, any recovery (`Spec`): violation | a recovery that spans two changes publishes what it has not moved |
| `shard_config` | 4 groups, 6 shards, 5 changes of any size | complete, balanced, least movement |
| `mr` | 2 workers, 2 maps, 2 reduces, 27 inputs, batches of 2, 1 crash, 2 slow executions | the merge is right for every order of the maps, outputs are right, a task is listed once, the job ends unless an output is orphaned |
| `mr_ends` | as `mr`, no slow execution: violation | a crash between link and report keeps the job from ending |

*Why the bounds are enough.* Two leaders of one term need two candidates and a voter asked twice:
three peers and a term; a stale candidacy needs the next one. Log divergence needs two leaders
that each wrote an entry nobody else got; starting `raft_figure8` in that state (a
cluster restart after those crashes, every part of which is a legal execution) leaves the bounds for
the repair. Figure 8 needs the fourth term: terms 1 and 2 wrote the entries, term 3 replicates the
old one, term 4 overwrites it. Overtaking of an InstallSnapshot by an AppendEntries needs two messages
in flight. A Put is told the wrong thing only if its request is repeated (two attempts) and another call
changes the key in between; the third call reads. A lock is lost or leaked by a claim whose answer got
lost, followed by another client's claim and release: two claims and a release, four versions.

In `rsm` a wrong waiter needs two leaders that each put an entry at the same index, a wrong snapshot a
reader that is behind the commit index, a wrong restart a snapshot and a crash: three requests or crashes
and two terms. A Put answered ErrWrongLeader and committed all the same needs two attempts and a
second call. In `shard` two changes that exclude each other need a configuration of two groups
(number 2) and two controllers; the third configuration is what stale RPCs of the second meet.
The two specifications separate the two questions about recovery: a takeover of one change, and one whose two reads
are split by a whole change. In `shard_config` six shards over four groups cover even and uneven
divisions and groups without shards. In `mr` a report meets every state of its task with two workers: the
task pending again, run by the other, done, its node reused; three words in batches of two make files of
one, two or no segments.

The seeded faults (`mutants`) confirm it: each run finds a plausible bug in the code through
each property it checks.

*Fairness* is assumed in `raft_catchup`, `lock`, `mr` and `mr_ends`. In `raft_catchup` it is strong fairness for each follower of sending, of
answering with the reply getting through, and of its arrival. The replicator goroutine of each peer
never ends and sends at least every heartbeat (raft.go:446-463, 468-522); labrpc drops messages
independently with a probability below one. Strong fairness is needed because the bound of one message
in flight makes the two followers compete; the code has no such competition. In `lock` it is weak
fairness: a client goes on when its call has returned and a holder releases (the premise of any lock), the
store executes an open call and answers it, because the clerk repeats its request without limit
(client.go:36-52, 73-95). Which of two waiting clients gets the lock is left open, as in the code.
In the MapReduce runs it is weak fairness of the workers' steps (a worker that has not crashed goes on, worker.go:58-92;
a crashed one is replaced) and of the scan for expired tasks (coordinator.go:339-344).

*Findings.*

* `shard_recovery`. InitController reads config at shardctrler.go:65 and config_next at line 69. In
  between another controller may publish the change it was at and claim the next. The recovering
  controller then moves shards from the older configuration to the newest and leaves out what the one
  between them moved: with group 2 joining and leaving again there is nothing to move at all, and it
  publishes a configuration whose shard is still with group 2. The controller that had claimed it finds it
  published and returns (line 185). The comment at lines 76-77 says that several recoveries at once are
  safe. The tests run InitController beside other controllers (shardkv1/test.go:365), the window is
  two reads wide.
* `mr_ends`. A worker that finds `mr-out-r` in place does not report (worker.go:270-276). If the one
  that linked it died before its report, or its report came while the task was pending again and was
  dropped (coordinator.go:199), the task is handed out and times out for ever. `EndsUnlessOrphaned`
  shows that this is the only way in which the job fails to end.

*Observations without a run.*

* The comment at raft.go:97 says `lastIncludeIndex <= nextIndex[peer]` of a leader; Snapshot() lets
  lastIncludeIndex overtake a slow peer's nextIndex. The code does not rely on it: it sends a snapshot.
* advanceCommitIndex (raft.go:701-711) takes element len/2 of the sorted matchIndex, which N - N/2 peers have
  reached: only half of an even cluster, where the comment says a majority. Elections need more than N/2
  votes, and N - N/2 peers meet every such majority, so nothing is lost (`raft_snapshot` and
  `raft_recovery` check it with two peers).
* Votes are counted where a peer's reply is handled (raft.go:803-831), so a cluster of a single peer never
  elects a leader. Tests and services start at least three.
* The upper bound of the clamp on `nextIndex` (raft.go:667-669) is never needed in any run.
* (Me, Id) in rsm.go:22 does not name one request across restarts, as reqNum starts again at 0. To answer a
  Submit wrongly an entry of the previous life must be committed at the index of the new one, which
  takes further leaders in between; the bounds of `rsm` do not reach it. Until a restart the pair does name a
  request (`NamedUntilRestart`), and whenever it does the service is right (`NamedLinearizable`): this is the only
  gap between the code and the store.
* The comment at shardgrp/server.go:127-129 says that a repeated FreezeShard returns the same bytes; after a
  DeleteShard it returns an empty shard. The check at lines 141-146 is what keeps this harmless, as
  `DataKept` shows.
* parseKV (worker.go:356-364) splits a line at its last blank, which its comment justifies with values
  that contain blanks; such a value moves into the key. The applications of the repository print values
  without blanks in map output.
* The comments at coordinator.go:52 and 69-70 say that generations discard the reports of expired workers. They
  never do, since a report carries none: a late report is taken if the task is running again, at
  whichever worker. That is harmless, since all executions of a map leave the same pairs.

## 4. Proofs

### Raft

`RaftTheorems` and `RaftSafetyProofs` prove, for every finite set of peers, every set of commands and
every value of the bounds:

| theorem | statement |
|---|---|
| `Invariance` | `Spec => []Inv` |
| `TypeCorrect` | `Spec => []TypeOK` |
| `DurableState` | `Spec => []PersistComplete` |
| `LeaderIndexes` | `Spec => []NextIndexInRange` |
| `SnapshotsMeetLog` | `Spec => []SnapshotChain` |
| `InOrder` | `Spec => []ApplyInOrder` |
| `OneLeaderPerTerm` | `Spec => []ElectionSafety` |
| `VotesStand` | `Spec => VoteStable` |
| `NothingUndone` | `Spec => AppliedGrows` |
| `PastExplains` | `Spec => [](Inv /\ Explained)` |
| `LogsMatch` | `Spec => []LogMatching` |
| `LeadersComplete` | `Spec => []LeaderCompleteness` |
| `CommitmentStands` | `Spec => CommittedKept` |
| `ServicesAgree` | `Spec => []AppliedAgree` |
| `MatchIsTrue` | `Spec => []MatchIndexTruthful` |
| `CommitsInLog` | `Spec => []CommitInLog` |

Assumptions: `Server` is finite, `Nil` is neither a server, a command nor a message, the batch
size is positive and the bounds are natural numbers.

The first nine rest on one inductive invariant `Inv`, about the present state alone:

* `TypeOK` is not inductive alone. A leader reads `log` at `nextIndex - 1` and the applier takes
  `commitIndex - applyIndex` commands, so the types need `NextIndexInRange` and `SnapshotChain`.
* `NextIndexInRange` needs to know that a reply never acknowledges more than the leader still has:
  `MessagesFit` says so for every request and reply in flight, as long as the peer that asked still
  leads the term it asked in.
* `SnapshotChain` and `ApplyInOrder` need `SnapshotsWhole` (a snapshot on the wire ends at its index)
  and `ApplyPosition` (applyIndex is where the service will be once the applier's batch, and then the
  pending snapshot, is delivered).
* `ElectionSafety` needs that a vote for `c` in term `t`, counted or in flight, was given and stands
  (`VotesGiven`), that nobody gives two (`VotesUnique`), that no vote is counted twice (`AskedOnce`) and
  that a leader counted more than half (`VotesCounted`); two majorities of a finite set meet.

There is one lemma per action and part of the invariant.

*Log safety.* The other theorems need the past. An entry is committed when a quorum has acknowledged it,
but nothing in a later state says so: the leader may have crashed, its entry may be compacted, and its
followers may be in later terms. `Explained` says that there is a past that explains the state:
`L[t]` the log of the leader of term t, `W[t]` that leader, `A[v][t]` how far peer v has acknowledged `L[t]`, and
`F[s]` the whole log of peer s, with the part that its snapshot stands for. The past is
quantified, so the model carries no history variable for it and TLC does not check it: the functions
are over all terms. `Inv /\ Explained` is inductive; its parts say

* `WholeAt`, `TermLogs`, `PeerLogs`: the slice and the snapshot are the two ends of `F[s]`, and up to each of
  its entries every log is the log of the leader that wrote the entry. Log matching is a consequence.
* `Winners`, `LeaderAt`: a term's winner has the votes of a quorum that nobody else can get any more.
* `AckAt`: what a peer has acknowledged it still has as long as it is in that term, and, after that, as long as
  the entry may still become part of a commit (`Choosable`: no quorum is past the term without it).
* `Safe`: the log of every later leader has what an earlier one has committed or still may commit. This is where
  `Backing` is needed, for candidates on their way to a majority: with each vote a candidate has what that
  voter may have made a commit of. `VotesMeet` and `QuorumsMeet` find the voter. The quorums differ: a leader
  needs more than N/2 votes but commits with N - N/2 acknowledgements (raft.go:701-711), and any two of these meet,
  also when N is even.
* `AppendSound`, `InstallSound`, `Replies`, `Commits`, `ServiceAt`: what messages, commitIndex, the applier's
  batch and the service say is true of that past.

For each kind of step there is a lemma that extends the past and shows that it explains the next state
(`PlainExplained`, `WinsExplained`, `StartExplained`, `AckedExplained`, `AcceptExplained`, `InstallExplained`,
`SkipExplained`, `SnapshotExplained`, `ApplyExplained`, `CrashExplained`), and that no whole log loses a
committed entry; `StepExplained` puts them together. A follower that truncates at a conflict and one that replaces
its log by a snapshot are the same case for the past (`FollowExplained`): the new log has what the
request covers, and all that the old one shared with the leader's.

### Key/value service and lock

| theorem | module | statement |
|---|---|---|
| `PutsTruthful` | `KVServiceProofs` | `Spec => []PutTruthful`, whatever versions callers pass |
| `ServiceRefinesStore` | `KVServiceProofs` | `Spec => Linearizable`, if `Blind = FALSE` |
| `OneHolder` | `LockProofs` | `Spec => []MutualExclusion` |
| `VersionKnown` | `LockProofs` | `Spec => []HolderKnowsVersion` |
| `ReleasesSucceed` | `LockProofs` | `Spec => []ReleaseNotRefused` |

Assumptions: "" is a value, `Nil` is no call and no answer; for the lock also that ids are values and
none is "".

`PutTruthful` is not inductive: that a Put refused with ErrVersion is never performed later depends on
which copies of its request are on their way. `ServiceInv` adds that a performed Put left a newer version
behind (`Once`), that without a failed Call there was one request (`Attempts`) and it is gone once it was
answered (`InFlight`), and what the reply on its way back says (`Replied`, `Returned`). The refinement adds
that versions of open Puts are not from the future and that an answered Put can no longer match
(`Passed`), so that late copies map to stuttering.

The lock's argument (`LockInv`) is about who may write the key: equal versions mean equal values
(`Known`), an Acquire claims only at a version at which it saw the key free (`Acquiring`), so while the
key holds a client's id only that client's Release writes it (`OwnerAlone`). From this the id that
Acquire finds after ErrMaybe is still current, and the holder's version is the key's (`Releasing`).

### Replicated key/value service

| theorem | statement |
|---|---|
| `RsmInvariant` | `Spec => []RsmInv` |
| `StateTheorem` | `Spec => []StateIsPrefix` |
| `WaiterTheorem` | `Spec => []WaiterNotLost` |
| `Named` | `Spec => []NamedUntilRestart` |
| `NamedLinearizable` | `Spec /\ []RequestNamed => Linearizable` |
| `LinearizableUntilRestart` | `Spec /\ [](restarts = 0) => Linearizable` |

for any finite sets of servers and calls, any keys and values, and any bound on requests and crashes, terms and
snapshots. Assumptions: `Nil` is none of the records that it stands beside. Of Raft the proofs use what
`KVRaft` says of it: a new leader's log begins with what is committed, only the latest leader commits, and a
leader gives its reader nothing committed in a later term.

The first two properties are not inductive. The invariant `RsmInv` adds to them:

* `HistoryInv`: `history` is what the committed commands do one after the other. So a command has the same
  outcome at the second server as at the first, which `StateIsPrefix` needs for every server that runs it
  later. It rests on `LogInv`: a command in a log is a request that was sent, whose arguments are settled.
* `ReaderInv`: where the reader is. A snapshot that waits for the reader is ahead of it, so that
  `applySnapshot` never takes the state back, and `lastApplied` is never ahead of the index taken.
* `CommitInv` and `LeadInv`: what is committed is in the latest leader's log, and a leader's log covers all
  that its reader has taken, in its own term or before. The index that Start returns is therefore still to
  come, and a waiter registered there cannot be passed by: this is `WaiterNotLost` for `Submit`.
* `WaitInv`: a waiter has an index within the log of its term. When another Submit of the same server takes over
  its index, that one is of another term, so the earlier waiter is stale and gives up at its next tick.

`LogInv` also says that no attempt is twice in one log: by counting, a log is no longer than the number of requests
sent, so that the function `pending` has a place for every index.

`NameInv` is why a request is named: a number is at most the counter of its server, so that a Submit that starts has one
that no entry of any log has (`Numbers`), and a waiter is registered only with the server that its Submit is at
(`Claims`). A restart sets the counter back, which is where `Numbers` ends.

The refinement maps `store <- Last(history)`, `applied <- executed > 0` and `answer <- result`. A command takes
effect when it runs for the first time at any server (`RunFirst`); running at the next server, elections, snapshots,
crashes and repeated requests are stuttering. `CallInv` says what the callers may rely on:

* `Grounded`: an answer other than ErrWrongLeader is what the command of that attempt found in the committed order, and
  a call that is done has such a command. Only here `RequestNamed` is used, in `RunAnswers`.
* `Passed`: a Put that has run finds a later version from then on, so of all its attempts one at most is performed; the
  others find ErrVersion, which the clerk returns as ErrMaybe when it has sent more than one request.
* `Recorded`: the history of a call says whether a command of it was performed, and what the attempt that the clerk waits for
  found if not; this makes ErrVersion and ErrMaybe true.

### Shard configurations

| theorem | module | statement |
|---|---|---|
| `ConfigsPass` | `ShardCfgProofs` | `CfgSpec => []CheckConfig` |
| `OnlyNecessaryMoves` | `ShardCfgProofs` | `CfgSpec => MovesOnlyWhatItMust` |

for any finite set of groups, any number of shards and configurations. `ShardCfg` writes the two
loops of Rebalance as recursive functions of the number of rounds, and `ShardCfgProofs` shows what they
compute (`RebalanceFacts`). The first loop has one shard less without a group after each round
(`AssignedRounds`). For the second the question is why it ends, and after how many rounds: a round that
finds the groups unbalanced moves one shard from a fullest group to an emptiest one, and a group that was
given a shard never becomes a fullest one with two more than the emptiest, so that no shard moves twice
(`MoveOneSettled`, `EvenedRounds`). As many rounds as there are shards are enough, which is the bound the
model uses where the code loops until balanced. `MoveOneJoins` shows that in a balanced configuration to which groups are added
only those receive. Induction over the rounds (`Induct`) is proved with the predicate given as a set, by counting the
numbers below a first gap; the least element of a set of naturals (`Least`) follows from it.

### Sharded service

| theorem | statement |
|---|---|
| `ShardInvariant` | `SpecRecoversNext => []ShardInv` |
| `OneServerTheorem` | `SpecRecoversNext => []OneServer` |
| `DataKeptTheorem` | `SpecRecoversNext => []DataKept` |
| `PublishedServesTheorem` | `SpecRecoversNext => []PublishedServes` |
| `ShardsRefineStore` | `SpecRecoversNext => Linearizable` |

for any set of groups, controllers and calls, any number of shards, configurations, requests and late RPCs.
The theorems are about `SpecRecoversNext`, since `shard_recovery` refutes them for `Spec`: the one condition
they need beyond the code is that `InitController` takes over the change that follows what it read.

The inductive invariant `ShardInv` says where a change stands:

* `NextInv`: config_next is at most one configuration ahead of config.
* `GroupInv`: a group that has not seen the next number serves exactly what the configuration gives it; one
  that has seen it has frozen the shard or received it.
* `DataInv`: who serves a shard has its data, and until the shard has arrived its old group has it.
* `sound(q)` for every RPC still to be executed: one of an earlier configuration cannot change anything any
  more (`harmless`), an InstallShard of the change under way carries what was frozen, a DeleteShard
  comes after the arrival.
* `ControllerInv`: a controller works on the change under way, and has moved every shard up to where it
  is, or on one that is over (`finished`), in which all it can send is harmless. This is what makes a superseded
  controller, one that meets ErrStale and goes on to publish, and two controllers at the same change safe.

That a step which publishes and claims nothing keeps all this is one lemma (`Keeps` and what follows from
it); `publish` turns the change under way into one that is finished.

For the refinement `RefineInv` adds to it what `ServiceInv` says of `KVService` (performed at most once, copies in
flight, what a reply says), with `GroupInv` and `DataInv` in the place of the single server: the group that
performs a Put serves the shard, so it has the abstract store's node. The mapping is `store <- store`,
`applied <- executed > 0`, `answer <- result`; moves of shards and steps of controllers map to stuttering.

### MapReduce

| theorem | statement |
|---|---|
| `CoordInvHolds` | `Spec => []CoordInv` |
| `OneNode` | `Spec => []OneNodePerTask` |
| `Merging` | `Spec => []MergesRight` |
| `Outputs` | `Spec => []OutputsRight` |

for any set of workers, any number of tasks, any set of inputs, any size of the buffer, and any bound on crashes and
slow executions. Assumption: `Nil` is no list of output lines. The coordinator's handlers work on intrusive lists and a pool of nodes, and `CoordInv` is about these:

* `Lists`: a node is in one list or in the pool, once, and the state of a listed node names its list. The state of a
  recycled node is stale, and so is the number of a node that a worker remembers: a report is taken only when
  the task's node is running, and then that node is in the running list, from which it is removed.
* `Tasks`: a task that is not done and the node listed for it name each other. A timeout gives the task a new node
  before the old one is recycled, so the two never mix, also when `alloc` hands a recycled node out again.
* `PhaseInv`: each map that is done has reported its files once, to every partition, and the reduce tasks are made
  when all have. So what a worker gets for a reduce is an order of all maps (`WorkerInv`).

The lemmas on lists (`TailFacts`, `AppendFacts`, `ConcatFacts`, `RemoveFacts`) and on the pool (`AllocFacts`,
`InitialisedFacts`) say what the operators return; `HandOut`, `Reported`, `TimedOut` and `Started` say what the
handlers do to any lists and tasks. That the lists are as long as there are tasks to do is counting (`CountNodes`).
`OutInv` then follows an output from its link to the report and the end of the job.

What one reduce computes is proved along its loops, with the induction over 0 .. n of `ShardCfgProofs`:

* `DoMapFacts`: after each word, buffer and file of a partition hold the pairs so far, none twice. A flush only puts
  them in another order (`SortedFacts`; that there is a sorted order at all is `Descending`).
* `SegmentsFacts`: every line is in one segment, none overlap, and the keys in each ascend, because a cut is wherever
  they do not. So the merge would be right with unsorted batches too; sorting only makes the segments long.
* `MergeInv`: what has been taken is in the output, each pair once, and every key that is left is at least the last
  one of the output. The top of the heap is the least key that is left (`TopFacts`), so that a word that is finished does not
  come back (`EmitFacts`). Each turn takes one line (`TurnFacts`), so after as many turns as there are lines nothing is left.

### Only model-checked

`Linearizable` of `KVRaft` in behaviours where a server restarts and an entry of its previous life takes the
index and the number of a new request (excluded by `RequestNamed`, see section 3; `rsm` has restarts within its bounds);
and `CatchUp`, `Progress` and `EndsUnlessOrphaned` (liveness, which is outside the prover's reach).

## 5. Plan

1. Raft: model, runs, proofs (done).
2. kvsrv server and clerk with the abstract store they implement; the lock on top of it (done).
3. rsm over an abstract Raft, with the replicated server and its clerk (model, runs and proofs done).
4. Shard configurations, groups, controllers and the sharded clerk (model, runs and proofs done).
5. MapReduce: coordinator, workers and what they compute (model, runs and proofs of the safety
   invariants done).
6. Proofs: log matching, leader completeness and commitment of Raft; the refinement of
   `KVStore` by `KVRaft` (done). Open: a run large enough to reach the reuse of a request's number after a restart.

## 6. Not modelled

`labgob` (encoding, no state), the test harness (`tester1`, `kvtest1`, `models1`, `raft1/test.go`,
`raft1/proxy.go`, `kvraft1/rsm/{server,proxy,test}.go`, `kvraft1/test.go`, `shardkv1/test.go` apart from how it
makes configurations, `mr/util.go`),
`mrapps` (map and reduce functions plugged in by the user) and `main` (programs that start the
parts). They hold no logic of the systems themselves.
