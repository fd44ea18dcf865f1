-------------------------------- MODULE Raft --------------------------------
(***************************************************************************)
(* The Raft peer of src/src/raft1/raft.go: leader election, log            *)
(* replication with fast back-up, log compaction by snapshots, the applier *)
(* that feeds the service, and crash recovery from the persister.          *)
(*                                                                         *)
(* Every action is one critical section of rf.mu.  What a peer has handed  *)
(* to the network, or holds outside the lock (the batch the applier is     *)
(* pushing on applyCh), is state of its own.  Time is left out: a peer     *)
(* that is not leader may time out whenever it likes.                      *)
(*                                                                         *)
(* The network (labrpc) loses, delays and reorders requests and replies.   *)
(* A vote request is sent once.  A replicator sends the same arguments     *)
(* again every heartbeat, so several equal copies of an AppendEntries or   *)
(* InstallSnapshot request, and of the replies to them, may travel: such a *)
(* message may survive its delivery.                                       *)
(***************************************************************************)
EXTENDS Integers, Sequences, FiniteSets, FiniteSetsExt

CONSTANTS
  Server,        \* rf.peers, by identity
  Command,       \* what the service hands to Start
  Nil,           \* votedFor = -1, a nil Command, no pending snapshot
  maxBatchSize,  \* entries in one AppendEntries (raft.go:82)
  MaxTerm,       \* bound: elections stop at this term
  MaxIndex,      \* bound: Start stops at this log index
  MaxSnapIndex,  \* bound: the service takes no snapshot beyond this index
  MaxRestarts,   \* bound: crashes of all peers together
  MaxVotes,      \* bound: vote requests and replies in the network at once
  MaxInFlight    \* bound: replication messages in the network at once

ASSUME ServerAssumption == IsFiniteSet(Server) /\ Nil \notin Server
ASSUME CommandAssumption == Nil \notin Command
ASSUME BoundsAssumption ==
  /\ maxBatchSize \in Nat \ {0}
  /\ MaxTerm \in Nat /\ MaxIndex \in Nat /\ MaxSnapIndex \in Nat
  /\ MaxRestarts \in Nat /\ MaxVotes \in Nat /\ MaxInFlight \in Nat

VARIABLES
  currentTerm, votedFor,      \* persistent, raft.go:26-27
  state,                      \* "Follower", "Candidate" or "Leader"
  voteCount,                  \* votes of the current candidacy
  log,                        \* physical log; its head is the sentinel
  lastIncludeIndex, lastIncludeTerm,
  snapshot,                   \* commands 1..lastIncludeIndex, as the service encodes them
  commitIndex, applyIndex,
  nextIndex, matchIndex,      \* leader's view of each peer
  pendingSnapshot,            \* installed, not yet taken by the applier
  disk,                       \* what the persister holds
  applyMsgs,                  \* messages the applier has taken and not yet delivered
  app,                        \* commands the service has applied, in order
  inc,                        \* incarnation: restarts of this peer so far
  voters,                     \* history: whose votes voteCount counts
  voteReq, voteRep, appReq, appRep, snapReq, snapRep   \* the network

electVars == <<currentTerm, votedFor, state>>
candVars  == <<voteCount, voters>>
logVars   == <<log, lastIncludeIndex, lastIncludeTerm, snapshot>>
indexVars == <<commitIndex, applyIndex, pendingSnapshot>>
leadVars  == <<nextIndex, matchIndex>>
svcVars   == <<applyMsgs, app>>
voteNet   == <<voteReq, voteRep>>
appNet    == <<appReq, appRep>>
snapNet   == <<snapReq, snapRep>>
vars == <<electVars, candVars, logVars, indexVars, leadVars, disk, svcVars, inc,
          voteNet, appNet, snapNet>>

-----------------------------------------------------------------------------
\* Types

Entry == [term : Nat, cmd : Command \cup {Nil}]
Value == Command \cup {Nil}
ApplyMsg == [snap : BOOLEAN, index : Nat, data : Seq(Value)]
ASSUME NilAssumption == Nil \notin ApplyMsg
Persisted == [currentTerm : Nat, votedFor : Server \cup {Nil}, log : Seq(Entry),
              lastIncludeIndex : Nat, lastIncludeTerm : Nat, snapshot : Seq(Value)]

RequestVoteArgs == [src : Server, dst : Server, inc : Nat, term : Nat,
                    lastLogIndex : Nat, lastLogTerm : Nat]
RequestVoteReply == [src : Server, dst : Server, argTerm : Nat, term : Nat,
                     voteGranted : BOOLEAN]
AppendEntriesArgs == [src : Server, dst : Server, inc : Nat, term : Nat,
                      prevLogIndex : Nat, prevLogTerm : Nat,
                      entries : Seq(Entry), leaderCommit : Nat]
AppendEntriesReply == [src : Server, dst : Server, argTerm : Nat, matched : Nat,
                       term : Nat, success : BOOLEAN,
                       xTerm : Int, xIndex : Int, xLen : Nat]
InstallSnapshotArgs == [src : Server, dst : Server, inc : Nat, term : Nat,
                        lastIncludeIndex : Nat, lastIncludeTerm : Nat, data : Seq(Value)]
InstallSnapshotReply == [src : Server, dst : Server, argTerm : Nat, matched : Nat,
                         term : Nat, success : BOOLEAN]

-----------------------------------------------------------------------------
\* Helpers (raft.go:100-128).  Logical index i is slot i - lastIncludeIndex
\* of the Go slice, hence one more in a TLA+ sequence.

MaxOf(a, b) == IF a >= b THEN a ELSE b
MinOf(a, b) == IF a <= b THEN a ELSE b

logIdx(s, i) == i - lastIncludeIndex[s] + 1
lastIndex(s) == Len(log[s]) + lastIncludeIndex[s] - 1
lastTerm(s) == log[s][Len(log[s])].term
entry(s, i) == log[s][logIdx(s, i)]
entries(s, from, to) == SubSeq(log[s], logIdx(s, from), logIdx(s, to) - 1)

\* Mutant: the entry before from is kept as well
truncateFront_before(s, from) == SubSeq(log[s], logIdx(s, from) - 1, Len(log[s]))

truncateFront(s, from) == SubSeq(log[s], logIdx(s, from), Len(log[s]))

\* len(rf.peers)/2: a candidate needs more votes than this
Half == Cardinality(Server) \div 2

\* Mutant: the log is left out of the encoding
persist_noLog(s) ==
  disk' = [disk EXCEPT ![s] =
             [currentTerm |-> currentTerm'[s], votedFor |-> votedFor'[s],
              log |-> disk[s].log, lastIncludeIndex |-> lastIncludeIndex'[s],
              lastIncludeTerm |-> lastIncludeTerm'[s], snapshot |-> snapshot'[s]]]
\* Mutant: Save(state, nil) wipes the stored snapshot
persist_nilSnapshot(s) ==
  disk' = [disk EXCEPT ![s] =
             [currentTerm |-> currentTerm'[s], votedFor |-> votedFor'[s],
              log |-> log'[s], lastIncludeIndex |-> lastIncludeIndex'[s],
              lastIncludeTerm |-> lastIncludeTerm'[s], snapshot |-> <<>>]]

\* persist(): the whole persistent state in one atomic Save
persist(s) ==
  disk' = [disk EXCEPT ![s] =
             [currentTerm |-> currentTerm'[s], votedFor |-> votedFor'[s],
              log |-> log'[s], lastIncludeIndex |-> lastIncludeIndex'[s],
              lastIncludeTerm |-> lastIncludeTerm'[s], snapshot |-> snapshot'[s]]]

\* A request or reply that a retransmission may repeat: it is consumed, or a
\* copy of it is still on its way.
Receive(net, m) == {net, net \ {m}}
\* A reply reaches the network unless it is lost or its caller has crashed.
SendReply(net, r, alive) == IF alive THEN {net, net \cup {r}} ELSE {net}

InFlight == Cardinality(appReq) + Cardinality(appRep)
              + Cardinality(snapReq) + Cardinality(snapRep)

-----------------------------------------------------------------------------
\* Elections

\* rf.currentTerm++, vote for oneself, ask everybody else (startElection).
\* The network loses every request but those to the peers in sent.
startElection(s, sent) ==
  /\ state[s] # "Leader"
  /\ currentTerm[s] < MaxTerm
  /\ Cardinality(voteReq) + Cardinality(voteRep) + Cardinality(sent) <= MaxVotes
  /\ state' = [state EXCEPT ![s] = "Candidate"]
  /\ currentTerm' = [currentTerm EXCEPT ![s] = @ + 1]
  /\ votedFor' = [votedFor EXCEPT ![s] = s]
  /\ voteCount' = [voteCount EXCEPT ![s] = 1]
  /\ voters' = [voters EXCEPT ![s] = {s}]
  /\ voteReq' = voteReq \cup
       {[src |-> s, dst |-> p, inc |-> inc[s], term |-> currentTerm[s] + 1,
         lastLogIndex |-> lastIndex(s), lastLogTerm |-> lastTerm(s)] : p \in sent}
  /\ UNCHANGED <<logVars, indexVars, leadVars, svcVars, inc, voteRep, appNet, snapNet>>
  /\ persist(s)

\* Mutant: the candidate's log is not looked at
upToDate_always(s, m) == TRUE

\* The candidate's log is at least as up to date as the voter's
upToDate(s, m) ==
  \/ m.lastLogTerm > lastTerm(s)
  \/ m.lastLogTerm = lastTerm(s) /\ m.lastLogIndex >= lastIndex(s)

\* Whom s may still vote for once it has seen the request's term
votedForAt(s, t) == IF t > currentTerm[s] THEN Nil ELSE votedFor[s]

\* Mutant: votedFor is not consulted
canGrant_anyCandidate(s, m) == m.term >= currentTerm[s] /\ upToDate(s, m)

canGrant(s, m) ==
  /\ m.term >= currentTerm[s]
  /\ votedForAt(s, m.term) \in {Nil, m.src}
  /\ upToDate(s, m)

RequestVote(m) ==
  LET s == m.dst
      granted == canGrant(s, m)
      reply == [src |-> s, dst |-> m.src, argTerm |-> m.term,
                term |-> MaxOf(m.term, currentTerm[s]), voteGranted |-> granted]
  IN /\ m \in voteReq
     /\ voteReq' = voteReq \ {m}
     /\ voteRep' = IF m.inc = inc[m.src] THEN voteRep \cup {reply} ELSE voteRep
     /\ currentTerm' = [currentTerm EXCEPT ![s] = MaxOf(m.term, @)]
     /\ votedFor' = [votedFor EXCEPT ![s] = IF granted THEN m.src ELSE votedForAt(s, m.term)]
     /\ state' = [state EXCEPT ![s] =
                    IF granted \/ m.term > currentTerm[s] THEN "Follower" ELSE @]
     /\ UNCHANGED <<candVars, logVars, indexVars, leadVars, svcVars, inc, appNet, snapNet>>
     /\ IF granted \/ m.term > currentTerm[s] THEN persist(s) ELSE UNCHANGED disk

\* A reply with a higher term: become a follower of that term
stepDown(s, t) ==
  /\ currentTerm' = [currentTerm EXCEPT ![s] = t]
  /\ votedFor' = [votedFor EXCEPT ![s] = Nil]
  /\ state' = [state EXCEPT ![s] = "Follower"]
  /\ UNCHANGED <<candVars, logVars, indexVars, leadVars, svcVars, inc>>
  /\ persist(s)

\* Mutant: nextIndex starts one too high
becomeLeader_offByOne(s) ==
  /\ state' = [state EXCEPT ![s] = "Leader"]
  /\ nextIndex' = [nextIndex EXCEPT ![s] = [p \in Server |-> lastIndex(s) + 2]]
  /\ matchIndex' = [matchIndex EXCEPT ![s] =
                      [p \in Server |-> IF p = s THEN lastIndex(s) ELSE 0]]

becomeLeader(s) ==
  /\ state' = [state EXCEPT ![s] = "Leader"]
  /\ nextIndex' = [nextIndex EXCEPT ![s] = [p \in Server |-> lastIndex(s) + 1]]
  /\ matchIndex' = [matchIndex EXCEPT ![s] =
                      [p \in Server |-> IF p = s THEN lastIndex(s) ELSE 0]]

\* The vote counts: s is still the candidate of the term it asked for
countable(s, m) ==
  /\ state[s] = "Candidate"
  /\ currentTerm[s] = m.argTerm
  /\ m.term = m.argTerm
  /\ m.voteGranted
  /\ voteCount[s] <= Half

\* The goroutine that waits for one vote (raft.go:803-830)
handleVoteReply(m) ==
  LET s == m.dst
  IN /\ m \in voteRep
     /\ voteRep' = voteRep \ {m}
     /\ UNCHANGED <<voteReq, appNet, snapNet>>
     /\ \/ /\ m.term > currentTerm[s]
           /\ stepDown(s, m.term)
        \/ /\ m.term <= currentTerm[s]
           /\ ~ countable(s, m)
           /\ UNCHANGED <<electVars, candVars, logVars, indexVars, leadVars, disk, svcVars, inc>>
        \/ /\ m.term <= currentTerm[s]
           /\ countable(s, m)
           /\ voteCount' = [voteCount EXCEPT ![s] = @ + 1]
           /\ voters' = [voters EXCEPT ![s] = @ \cup {m.src}]
           /\ IF voteCount[s] + 1 > Half
                THEN becomeLeader(s)
                ELSE UNCHANGED <<state, leadVars>>
           /\ UNCHANGED <<currentTerm, votedFor, logVars, indexVars, disk, svcVars, inc>>

-----------------------------------------------------------------------------
\* The leader

\* The service proposes a command (Start)
Start(s, c) ==
  /\ state[s] = "Leader"
  /\ lastIndex(s) < MaxIndex
  /\ log' = [log EXCEPT ![s] = Append(@, [term |-> currentTerm[s], cmd |-> c])]
  /\ UNCHANGED <<electVars, candVars, lastIncludeIndex, lastIncludeTerm, snapshot, indexVars,
                 leadVars, svcVars, inc, voteNet, appNet, snapNet>>
  /\ persist(s)

\* replicator: p is so far behind that what it needs has been compacted away
sendInstallSnapshot(s, p) ==
  /\ state[s] = "Leader"
  /\ p # s
  /\ nextIndex[s][p] <= lastIncludeIndex[s]
  /\ InFlight < MaxInFlight
  /\ snapReq' = snapReq \cup
       {[src |-> s, dst |-> p, inc |-> inc[s], term |-> currentTerm[s],
         lastIncludeIndex |-> lastIncludeIndex[s],
         lastIncludeTerm |-> lastIncludeTerm[s], data |-> snapshot[s]]}
  /\ UNCHANGED <<electVars, candVars, logVars, indexVars, leadVars, disk, svcVars, inc,
                 voteNet, appNet, snapRep>>

\* replicator: a batch of entries from nextIndex on, or an empty heartbeat
sendAppendEntries(s, p) ==
  LET next == nextIndex[s][p]
  IN /\ state[s] = "Leader"
     /\ p # s
     /\ next > lastIncludeIndex[s]
     /\ InFlight < MaxInFlight
     /\ appReq' = appReq \cup
          {[src |-> s, dst |-> p, inc |-> inc[s], term |-> currentTerm[s],
            prevLogIndex |-> next - 1, prevLogTerm |-> entry(s, next - 1).term,
            entries |-> entries(s, next, MinOf(lastIndex(s) + 1, next + maxBatchSize)),
            leaderCommit |-> commitIndex[s]]}
     /\ UNCHANGED <<electVars, candVars, logVars, indexVars, leadVars, disk, svcVars, inc,
                    voteNet, appRep, snapNet>>

\* sort.Ints(m)[len(m)/2]: the largest value that Cardinality(Server) - Half
\* peers have reached (a singleton)
orderStatistic(m) ==
  LET reached(v) == Cardinality({q \in Server : m[q] >= v})
      quorum == Cardinality(Server) - Half
  IN {v \in {m[q] : q \in Server} :
        /\ reached(v) >= quorum
        /\ reached(v + 1) < quorum}

\* Mutant: an entry of any term is committed by counting replicas (Figure 8)
committable_anyTerm(s, match) ==
  {n \in orderStatistic([match EXCEPT ![s] = lastIndex(s)]) : n > commitIndex[s]}

\* Indexes the leader may commit given what its peers acknowledged: only an
\* entry of its own term is committed by counting replicas
committable(s, match) ==
  {n \in orderStatistic([match EXCEPT ![s] = lastIndex(s)]) :
     n > commitIndex[s] /\ entry(s, n).term = currentTerm[s]}

advanceCommitIndex(s, match) ==
  \/ /\ committable(s, match) = {}
     /\ UNCHANGED commitIndex
  \/ \E n \in committable(s, match) : commitIndex' = [commitIndex EXCEPT ![s] = n]

\* Mutant: the reply is taken to cover the leader's log as it is now
acknowledge_lastIndex(s, p, matched) ==
  LET match == [matchIndex[s] EXCEPT ![p] = lastIndex(s)]
  IN /\ matchIndex' = [matchIndex EXCEPT ![s] = match]
     /\ nextIndex' = [nextIndex EXCEPT ![s][p] = match[p] + 1]
     /\ advanceCommitIndex(s, match)

\* peer p holds everything up to matched
acknowledge(s, p, matched) ==
  LET match == [matchIndex[s] EXCEPT ![p] = MaxOf(@, matched)]
  IN /\ matchIndex' = [matchIndex EXCEPT ![s] = match]
     /\ nextIndex' = [nextIndex EXCEPT ![s][p] = match[p] + 1]
     /\ advanceCommitIndex(s, match)

\* The last entry of term t that the leader still has, past its sentinel
lastOfTerm(s, t) ==
  {i \in lastIncludeIndex[s] + 1 .. lastIndex(s) :
     /\ entry(s, i).term = t
     /\ \A j \in i + 1 .. lastIndex(s) : entry(s, j).term # t}

\* Where nextIndex falls back to after a rejection, before it is clamped
backup(s, m) ==
  IF m.xTerm = -1 THEN {m.xLen}
  ELSE IF lastOfTerm(s, m.xTerm) = {} THEN {m.xIndex}
  ELSE {i + 1 : i \in lastOfTerm(s, m.xTerm)}

clamp(s, x) == MinOf(MaxOf(x, MaxOf(1, lastIncludeIndex[s])), lastIndex(s) + 1)

\* The reply belongs to the leadership that asked
current(s, m) == state[s] = "Leader" /\ currentTerm[s] = m.argTerm

handleAppendReply(m) ==
  LET s == m.dst
  IN /\ m \in appRep
     /\ appRep' \in Receive(appRep, m)
     /\ UNCHANGED <<appReq, voteNet, snapNet>>
     /\ \/ /\ ~ current(s, m)
           /\ UNCHANGED <<electVars, candVars, logVars, indexVars, leadVars, disk, svcVars, inc>>
        \/ /\ current(s, m)
           /\ m.term > currentTerm[s]
           /\ stepDown(s, m.term)
        \/ /\ current(s, m)
           /\ m.term <= currentTerm[s]
           /\ \/ /\ m.success
                 /\ acknowledge(s, m.src, m.matched)
              \/ /\ ~ m.success
                 /\ \E x \in backup(s, m) :
                      nextIndex' = [nextIndex EXCEPT ![s][m.src] = clamp(s, x)]
                 /\ UNCHANGED <<matchIndex, commitIndex>>
           /\ UNCHANGED <<electVars, candVars, logVars, applyIndex, pendingSnapshot,
                          disk, svcVars, inc>>

handleInstallReply(m) ==
  LET s == m.dst
  IN /\ m \in snapRep
     /\ snapRep' \in Receive(snapRep, m)
     /\ UNCHANGED <<snapReq, voteNet, appNet>>
     /\ \/ /\ \/ ~ current(s, m)
              \/ m.term <= currentTerm[s] /\ ~ m.success
           /\ UNCHANGED <<electVars, candVars, logVars, indexVars, leadVars, disk, svcVars, inc>>
        \/ /\ current(s, m)
           /\ m.term > currentTerm[s]
           /\ stepDown(s, m.term)
        \/ /\ current(s, m)
           /\ m.term <= currentTerm[s]
           /\ m.success
           /\ acknowledge(s, m.src, m.matched)
           /\ UNCHANGED <<electVars, candVars, logVars, applyIndex, pendingSnapshot,
                          disk, svcVars, inc>>

-----------------------------------------------------------------------------
\* The follower

\* A request of a leader whose term is not stale: follow it
follow(s, t) ==
  /\ currentTerm' = [currentTerm EXCEPT ![s] = t]
  /\ votedFor' = [votedFor EXCEPT ![s] = votedForAt(s, t)]
  /\ state' = [state EXCEPT ![s] = "Follower"]

persistTerm(s, t) == IF t > currentTerm[s] THEN persist(s) ELSE UNCHANGED disk

appendReply(m, term, success, xTerm, xIndex) ==
  [src |-> m.dst, dst |-> m.src, argTerm |-> m.term,
   matched |-> m.prevLogIndex + Len(m.entries), term |-> term, success |-> success,
   xTerm |-> xTerm, xIndex |-> xIndex, xLen |-> lastIndex(m.dst) + 1]

\* args.Term < rf.currentTerm
rejectStale(m) ==
  LET s == m.dst
  IN /\ m.term < currentTerm[s]
     /\ appRep' \in SendReply(appRep, appendReply(m, currentTerm[s], FALSE, -1, -1),
                              m.inc = inc[m.src])
     /\ UNCHANGED <<electVars, logVars, commitIndex, disk>>

\* The follower's log ends before PrevLogIndex
rejectShort(m) ==
  LET s == m.dst
  IN /\ m.term >= currentTerm[s]
     /\ m.prevLogIndex > lastIndex(s)
     /\ appRep' \in SendReply(appRep, appendReply(m, m.term, FALSE, -1, -1), m.inc = inc[m.src])
     /\ follow(s, m.term)
     /\ UNCHANGED <<logVars, commitIndex>>
     /\ persistTerm(s, m.term)

\* Mutant: PrevLogTerm is not compared
mismatch_never(m) == FALSE

\* Entry PrevLogIndex is retained and has the wrong term
mismatch(m) ==
  /\ m.prevLogIndex <= lastIndex(m.dst)
  /\ m.prevLogIndex >= lastIncludeIndex[m.dst]
  /\ entry(m.dst, m.prevLogIndex).term # m.prevLogTerm

\* Mutant: XIndex is the entry after the conflict
runStart_after(s, i) == {i + 1}

\* The first entry of the run of equal terms that ends at i, not below the sentinel
runStart(s, i) ==
  {x \in lastIncludeIndex[s] .. i :
     /\ \A j \in x .. i : entry(s, j).term = entry(s, i).term
     /\ x > lastIncludeIndex[s] => entry(s, x - 1).term # entry(s, i).term}

rejectMismatch(m) ==
  LET s == m.dst
  IN /\ m.term >= currentTerm[s]
     /\ mismatch(m)
     /\ \E x \in runStart(s, m.prevLogIndex) :
          appRep' \in SendReply(appRep,
                        appendReply(m, m.term, FALSE, entry(s, m.prevLogIndex).term, x),
                        m.inc = inc[m.src])
     /\ follow(s, m.term)
     /\ UNCHANGED <<logVars, commitIndex>>
     /\ persistTerm(s, m.term)

\* Indexes, past the snapshot, where the follower's entry contradicts the leader's
conflicts(m) ==
  {i \in MaxOf(m.prevLogIndex, lastIncludeIndex[m.dst]) + 1
           .. MinOf(lastIndex(m.dst), m.prevLogIndex + Len(m.entries)) :
     entry(m.dst, i).term # m.entries[i - m.prevLogIndex].term}

\* Mutant: everything after PrevLogIndex is replaced by the batch
keepUpTo_prev(m) == {MaxOf(m.prevLogIndex, lastIncludeIndex[m.dst])}

\* How much of its own log the follower keeps
keepUpTo(m) ==
  IF conflicts(m) = {} THEN {lastIndex(m.dst)}
  ELSE {c - 1 : c \in {d \in conflicts(m) : \A e \in conflicts(m) : d <= e}}

\* The log cut back to index k and extended with the rest of the batch
extended(m, k) ==
  SubSeq(log[m.dst], 1, logIdx(m.dst, k))
    \o SubSeq(m.entries, k - m.prevLogIndex + 1, Len(m.entries))

\* Mutant: commitIndex is not capped by what the request covers
followCommit_uncapped(s, leaderCommit, matched) == MaxOf(commitIndex[s], leaderCommit)

\* commitIndex after a request that covers the log up to matched
followCommit(s, leaderCommit, matched) ==
  IF leaderCommit > commitIndex[s]
    THEN MaxOf(commitIndex[s], MinOf(leaderCommit, matched))
    ELSE commitIndex[s]

accept(m) ==
  LET s == m.dst
  IN /\ m.term >= currentTerm[s]
     /\ m.prevLogIndex <= lastIndex(s)
     /\ ~ mismatch(m)
     /\ appRep' \in SendReply(appRep, appendReply(m, m.term, TRUE, -1, -1), m.inc = inc[m.src])
     /\ follow(s, m.term)
     /\ IF m.entries = <<>>
          THEN UNCHANGED log
          ELSE \E k \in keepUpTo(m) : log' = [log EXCEPT ![s] = extended(m, k)]
     /\ commitIndex' = [commitIndex EXCEPT ![s] =
          followCommit(s, m.leaderCommit, m.prevLogIndex + Len(m.entries))]
     /\ UNCHANGED <<lastIncludeIndex, lastIncludeTerm, snapshot>>
     /\ IF m.entries # <<>> THEN persist(s) ELSE persistTerm(s, m.term)

AppendEntries(m) ==
  /\ m \in appReq
  /\ appReq' \in Receive(appReq, m)
  /\ rejectStale(m) \/ rejectShort(m) \/ rejectMismatch(m) \/ accept(m)
  /\ Cardinality(appReq') + Cardinality(appRep') + Cardinality(snapReq)
       + Cardinality(snapRep) <= MaxInFlight
  /\ UNCHANGED <<candVars, applyIndex, pendingSnapshot, leadVars, svcVars, inc, voteNet, snapNet>>

installReply(m, term, success) ==
  [src |-> m.dst, dst |-> m.src, argTerm |-> m.term, matched |-> m.lastIncludeIndex,
   term |-> term, success |-> success]

rejectInstall(m) ==
  /\ m.term < currentTerm[m.dst]
  /\ snapRep' \in SendReply(snapRep, installReply(m, currentTerm[m.dst], FALSE), m.inc = inc[m.src])
  /\ UNCHANGED <<electVars, logVars, indexVars, disk>>

\* Mutant: only the follower's own snapshot is compared
alreadyHas_snapshotOnly(m) == m.lastIncludeIndex <= lastIncludeIndex[m.dst]

\* The follower already has everything the snapshot covers
alreadyHas(m) ==
  \/ m.lastIncludeIndex <= lastIncludeIndex[m.dst]
  \/ m.lastIncludeIndex <= commitIndex[m.dst]

skipInstall(m) ==
  /\ m.term >= currentTerm[m.dst]
  /\ alreadyHas(m)
  /\ snapRep' \in SendReply(snapRep, installReply(m, m.term, TRUE), m.inc = inc[m.src])
  /\ follow(m.dst, m.term)
  /\ UNCHANGED <<logVars, indexVars>>
  /\ persistTerm(m.dst, m.term)

\* Mutant: the discarded log is not given a sentinel
logAfterInstall_empty(m) ==
  IF lastIndex(m.dst) >= m.lastIncludeIndex
    THEN truncateFront(m.dst, m.lastIncludeIndex) ELSE <<>>

\* The suffix after the snapshot survives if it grows out of the snapshot's last entry
logAfterInstall(m) ==
  LET s == m.dst
  IN IF /\ lastIndex(s) >= m.lastIncludeIndex
        /\ entry(s, m.lastIncludeIndex).term = m.lastIncludeTerm
       THEN truncateFront(s, m.lastIncludeIndex)
       ELSE <<[term |-> m.lastIncludeTerm, cmd |-> Nil]>>

install(m) ==
  LET s == m.dst
      i == m.lastIncludeIndex
  IN /\ m.term >= currentTerm[s]
     /\ ~ alreadyHas(m)
     /\ snapRep' \in SendReply(snapRep, installReply(m, m.term, TRUE), m.inc = inc[m.src])
     /\ follow(s, m.term)
     /\ log' = [log EXCEPT ![s] = logAfterInstall(m)]
     /\ lastIncludeIndex' = [lastIncludeIndex EXCEPT ![s] = i]
     /\ lastIncludeTerm' = [lastIncludeTerm EXCEPT ![s] = m.lastIncludeTerm]
     /\ snapshot' = [snapshot EXCEPT ![s] = m.data]
     /\ applyIndex' = [applyIndex EXCEPT ![s] = MaxOf(@, i)]
     /\ commitIndex' = [commitIndex EXCEPT ![s] = MaxOf(@, i)]
     /\ pendingSnapshot' = [pendingSnapshot EXCEPT ![s] =
                              [snap |-> TRUE, index |-> i, data |-> m.data]]
     /\ persist(s)

InstallSnapshot(m) ==
  /\ m \in snapReq
  /\ snapReq' \in Receive(snapReq, m)
  /\ rejectInstall(m) \/ skipInstall(m) \/ install(m)
  /\ Cardinality(appReq) + Cardinality(appRep) + Cardinality(snapReq')
       + Cardinality(snapRep') <= MaxInFlight
  /\ UNCHANGED <<candVars, leadVars, svcVars, inc, voteNet, appNet>>

-----------------------------------------------------------------------------
\* The applier and the service above it

\* The command at index i.  AppendEntries clears the slots it cuts off, so a slot
\* past the end of the log would read as an empty entry (CommitInLog excludes it).
commandAt(s, i) == IF i <= lastIndex(s) THEN entry(s, i).cmd ELSE Nil

\* The batch of commands up to commitIndex
takeCommands(s) ==
  /\ applyIndex[s] < commitIndex[s]
  /\ applyMsgs' = [applyMsgs EXCEPT ![s] =
       [k \in 1 .. commitIndex[s] - applyIndex[s] |->
          [snap |-> FALSE, index |-> applyIndex[s] + k,
           data |-> <<commandAt(s, applyIndex[s] + k)>>]]]
  /\ applyIndex' = [applyIndex EXCEPT ![s] = commitIndex[s]]
  /\ UNCHANGED pendingSnapshot

takeSnapshot(s) ==
  /\ pendingSnapshot[s] # Nil
  /\ applyMsgs' = [applyMsgs EXCEPT ![s] = <<pendingSnapshot[s]>>]
  /\ pendingSnapshot' = [pendingSnapshot EXCEPT ![s] = Nil]
  /\ UNCHANGED applyIndex

\* Mutant: committed commands go first
applier_commandsFirst(s) ==
  /\ applyMsgs[s] = <<>>
  /\ takeCommands(s) \/ (applyIndex[s] >= commitIndex[s] /\ takeSnapshot(s))
  /\ UNCHANGED <<electVars, candVars, logVars, commitIndex, leadVars, disk, app, inc,
                 voteNet, appNet, snapNet>>

\* The applier takes the installed snapshot, or else every committed entry it
\* has not taken yet, and lets go of the lock to push them on applyCh
applier(s) ==
  /\ applyMsgs[s] = <<>>
  /\ takeSnapshot(s) \/ (pendingSnapshot[s] = Nil /\ takeCommands(s))
  /\ UNCHANGED <<electVars, candVars, logVars, commitIndex, leadVars, disk, app, inc,
                 voteNet, appNet, snapNet>>

\* The service reads one message from applyCh: it applies the command, or
\* replaces its state by the snapshot (rfsrv.applierSnap, ingestSnap)
deliver(s) ==
  /\ applyMsgs[s] # <<>>
  /\ app' = [app EXCEPT ![s] = IF Head(applyMsgs[s]).snap THEN Head(applyMsgs[s]).data
                               ELSE @ \o Head(applyMsgs[s]).data]
  /\ applyMsgs' = [applyMsgs EXCEPT ![s] = Tail(@)]
  /\ UNCHANGED <<electVars, candVars, logVars, indexVars, leadVars, disk, inc,
                 voteNet, appNet, snapNet>>

\* The service has encoded its state after the last command it applied and
\* hands it over; the log up to there is dropped
Snapshot(s) ==
  LET index == Len(app[s])
  IN /\ index <= MaxSnapIndex
     /\ index > lastIncludeIndex[s]
     /\ index <= lastIndex(s) /\ index <= applyIndex[s]
     /\ log' = [log EXCEPT ![s] = truncateFront(s, index)]
     /\ lastIncludeIndex' = [lastIncludeIndex EXCEPT ![s] = index]
     /\ lastIncludeTerm' = [lastIncludeTerm EXCEPT ![s] = entry(s, index).term]
     /\ snapshot' = [snapshot EXCEPT ![s] = app[s]]
     /\ UNCHANGED <<electVars, candVars, indexVars, leadVars, svcVars, inc, voteNet, appNet, snapNet>>
     /\ persist(s)

-----------------------------------------------------------------------------
\* Crashes

\* Process s dies and comes back with what is on disk d: Make, readPersist, and
\* the service's recovery from the snapshot.  Nobody waits for its calls any more.
restartFrom(s, d) ==
  /\ MapThenSumSet(LAMBDA p : inc[p], Server) < MaxRestarts
  /\ inc' = [inc EXCEPT ![s] = @ + 1]
  /\ disk' = [disk EXCEPT ![s] = d]
  /\ currentTerm' = [currentTerm EXCEPT ![s] = d.currentTerm]
  /\ votedFor' = [votedFor EXCEPT ![s] = d.votedFor]
  /\ state' = [state EXCEPT ![s] = "Follower"]
  /\ voteCount' = [voteCount EXCEPT ![s] = 0]
  /\ voters' = [voters EXCEPT ![s] = {}]
  /\ log' = [log EXCEPT ![s] = d.log]
  /\ lastIncludeIndex' = [lastIncludeIndex EXCEPT ![s] = d.lastIncludeIndex]
  /\ lastIncludeTerm' = [lastIncludeTerm EXCEPT ![s] = d.lastIncludeTerm]
  /\ snapshot' = [snapshot EXCEPT ![s] = d.snapshot]
  /\ commitIndex' = [commitIndex EXCEPT ![s] = d.lastIncludeIndex]
  /\ applyIndex' = [applyIndex EXCEPT ![s] = d.lastIncludeIndex]
  /\ pendingSnapshot' = [pendingSnapshot EXCEPT ![s] = Nil]
  /\ nextIndex' = [nextIndex EXCEPT ![s] = [p \in Server |-> 0]]
  /\ matchIndex' = [matchIndex EXCEPT ![s] = [p \in Server |-> 0]]
  /\ applyMsgs' = [applyMsgs EXCEPT ![s] = <<>>]
  /\ app' = [app EXCEPT ![s] = d.snapshot]
  /\ voteRep' = {r \in voteRep : r.dst # s}
  /\ appRep' = {r \in appRep : r.dst # s}
  /\ snapRep' = {r \in snapRep : r.dst # s}
  /\ UNCHANGED <<appReq, snapReq>>

\* Mutant: votedFor is not decoded
Restart_forgetsVote(s) ==
  restartFrom(s, [disk[s] EXCEPT !.votedFor = Nil]) /\ UNCHANGED voteReq

Restart(s) == restartFrom(s, disk[s]) /\ UNCHANGED voteReq

\* The process dies inside a handler, between the persist() of a newer term and
\* the persist() of what the request brings
crashInHandler(m) ==
  /\ m \in voteReq \cup appReq \cup snapReq
  /\ m.term > currentTerm[m.dst]
  /\ restartFrom(m.dst, [disk[m.dst] EXCEPT !.currentTerm = m.term, !.votedFor = Nil])
  /\ voteReq' = voteReq \ {m}

-----------------------------------------------------------------------------
\* Make: all peers start from what their persisters hold
InitFrom(d) ==
  /\ disk = d
  /\ currentTerm = [s \in Server |-> d[s].currentTerm]
  /\ votedFor = [s \in Server |-> d[s].votedFor]
  /\ state = [s \in Server |-> "Follower"]
  /\ voteCount = [s \in Server |-> 0]
  /\ voters = [s \in Server |-> {}]
  /\ log = [s \in Server |-> d[s].log]
  /\ lastIncludeIndex = [s \in Server |-> d[s].lastIncludeIndex]
  /\ lastIncludeTerm = [s \in Server |-> d[s].lastIncludeTerm]
  /\ snapshot = [s \in Server |-> d[s].snapshot]
  /\ commitIndex = [s \in Server |-> d[s].lastIncludeIndex]
  /\ applyIndex = [s \in Server |-> d[s].lastIncludeIndex]
  /\ nextIndex = [s \in Server |-> [p \in Server |-> 0]]
  /\ matchIndex = [s \in Server |-> [p \in Server |-> 0]]
  /\ pendingSnapshot = [s \in Server |-> Nil]
  /\ applyMsgs = [s \in Server |-> <<>>]
  /\ app = [s \in Server |-> d[s].snapshot]
  /\ inc = [s \in Server |-> 0]
  /\ voteReq = {} /\ voteRep = {}
  /\ appReq = {} /\ appRep = {}
  /\ snapReq = {} /\ snapRep = {}

\* An empty persister: readPersist leaves what Make has set, a lone sentinel of term 0
emptyDisk == [currentTerm |-> 0, votedFor |-> Nil, log |-> <<[term |-> 0, cmd |-> Nil]>>,
              lastIncludeIndex |-> 0, lastIncludeTerm |-> 0, snapshot |-> <<>>]

Init == InitFrom([s \in Server |-> emptyDisk])

Next ==
  \/ \E s \in Server : \E sent \in SUBSET (Server \ {s}) : startElection(s, sent)
  \/ \E m \in voteReq : RequestVote(m)
  \/ \E m \in voteRep : handleVoteReply(m)
  \/ \E s \in Server, c \in Command : Start(s, c)
  \/ \E s, p \in Server : sendInstallSnapshot(s, p)
  \/ \E s, p \in Server : sendAppendEntries(s, p)
  \/ \E m \in appReq : AppendEntries(m)
  \/ \E m \in appRep : handleAppendReply(m)
  \/ \E m \in snapReq : InstallSnapshot(m)
  \/ \E m \in snapRep : handleInstallReply(m)
  \/ \E s \in Server : applier(s)
  \/ \E s \in Server : deliver(s)
  \/ \E s \in Server : Snapshot(s)
  \/ \E s \in Server : Restart(s)
  \/ \E m \in voteReq \cup appReq \cup snapReq : crashInHandler(m)

Spec == Init /\ [][Next]_vars

-----------------------------------------------------------------------------
\* Properties

ElectTypeOK ==
  /\ currentTerm \in [Server -> Nat]
  /\ votedFor \in [Server -> Server \cup {Nil}]
  /\ state \in [Server -> {"Follower", "Candidate", "Leader"}]
  /\ voteCount \in [Server -> Nat]
  /\ voters \in [Server -> SUBSET Server]
  /\ inc \in [Server -> Nat]
LogTypeOK ==
  /\ log \in [Server -> Seq(Entry)]
  /\ \A s \in Server : Len(log[s]) >= 1
  /\ lastIncludeIndex \in [Server -> Nat]
  /\ lastIncludeTerm \in [Server -> Nat]
  /\ snapshot \in [Server -> Seq(Value)]
  /\ disk \in [Server -> Persisted]
  /\ \A s \in Server : Len(disk[s].log) >= 1
ApplyTypeOK ==
  /\ commitIndex \in [Server -> Nat]
  /\ applyIndex \in [Server -> Nat]
  /\ pendingSnapshot \in [Server -> ApplyMsg \cup {Nil}]
  /\ applyMsgs \in [Server -> Seq(ApplyMsg)]
  /\ app \in [Server -> Seq(Value)]
LeadTypeOK ==
  /\ nextIndex \in [Server -> [Server -> Nat]]
  /\ matchIndex \in [Server -> [Server -> Nat]]
NetTypeOK ==
  /\ voteReq \subseteq RequestVoteArgs
  /\ voteRep \subseteq RequestVoteReply
  /\ appReq \subseteq AppendEntriesArgs
  /\ appRep \subseteq AppendEntriesReply
  /\ snapReq \subseteq InstallSnapshotArgs
  /\ snapRep \subseteq InstallSnapshotReply

\* Every variable has its type; in particular no operation of raft.go leaves a
\* log, in memory or on disk, without its sentinel.
TypeOK == ElectTypeOK /\ LogTypeOK /\ ApplyTypeOK /\ LeadTypeOK /\ NetTypeOK

\* Two peers never lead the same term, whatever votes were delayed, lost or
\* counted after a restart (RequestVote, startElection, readPersist).
ElectionSafety ==
  \A s, t \in Server :
    state[s] = "Leader" /\ state[t] = "Leader" /\ currentTerm[s] = currentTerm[t] => s = t

\* The indexes whose entries a peer still has, the sentinel's included
Retained(s) == lastIncludeIndex[s] .. lastIndex(s)

\* Logs that agree on the term of an entry agree on everything before it that
\* both still retain (the consistency check of AppendEntries, raft.go:329-349).
\* A sentinel left by InstallSnapshot has lost its command.
LogMatching ==
  \A s, t \in Server : s # t =>
    LET first == MaxOf(lastIncludeIndex[s], lastIncludeIndex[t])
        agree(i) == entry(s, i).term = entry(t, i).term
    IN \A i \in first .. MinOf(lastIndex(s), lastIndex(t)) : agree(i) =>
         /\ i > first => entry(s, i) = entry(t, i)
         /\ \A j \in first .. i - 1 : agree(j)

\* A leader has every entry that a peer of no later term knows to be committed:
\* what lets AppendEntries skip the check inside the snapshot (raft.go:334-339)
\* and truncate without losing a committed entry (raft.go:370-371).
LeaderCompleteness ==
  \A l, s \in Server : state[l] = "Leader" /\ currentTerm[l] >= currentTerm[s] =>
    /\ commitIndex[s] <= lastIndex(l)
    /\ \A i \in Retained(s) \cap Retained(l) :
         i <= commitIndex[s] => entry(s, i).term = entry(l, i).term

\* The services never diverge: of any two, one has applied a prefix of what the
\* other has, through commands and snapshots alike (applier, InstallSnapshot).
Compatible(a, b) == \A i \in 1 .. MinOf(Len(a), Len(b)) : a[i] = b[i]
AppliedAgree ==
  \A s, t \in Server : Compatible(app[s], app[t]) /\ Compatible(app[s], snapshot[t])

\* What arrives on applyCh continues the service's state: the next command, or a
\* snapshot that is ahead of it (rfsrv.applierSnap reports "apply out of order").
\* The service never overtakes Raft, which Snapshot() guards against.
ApplyInOrder ==
  \A s \in Server :
    /\ Len(app[s]) <= applyIndex[s]
    /\ \A k \in 1 .. Len(applyMsgs[s]) :
         LET a == applyMsgs[s][k]
         IN IF a.snap THEN k = 1 /\ a.index > Len(app[s]) /\ Len(a.data) = a.index
            ELSE a.index = Len(app[s]) + k

\* The comment above the log helpers (raft.go:95-96), first part: the sentinel
\* carries the snapshot's term, the stored snapshot ends where the log begins, and
\* lastIncludeIndex <= applyIndex <= commitIndex.
SnapshotChain ==
  \A s \in Server :
    /\ log[s][1].term = lastIncludeTerm[s]
    /\ Len(snapshot[s]) = lastIncludeIndex[s]
    /\ lastIncludeIndex[s] <= applyIndex[s]
    /\ applyIndex[s] <= commitIndex[s]

\* Second part: commitIndex <= lastIndex(), so the applier never reads past the log.
\* A follower may cut its log back, but never below what it knows to be committed.
CommitInLog == \A s \in Server : commitIndex[s] <= lastIndex(s)

\* entry(next-1) never runs off the end of the leader's log, nor does the index
\* that advanceCommitIndex looks up (raft.go:97, 664-669, 714).
NextIndexInRange ==
  \A s, p \in Server : state[s] = "Leader" =>
    /\ 1 <= nextIndex[s][p] /\ nextIndex[s][p] <= lastIndex(s) + 1
    /\ matchIndex[s][p] <= lastIndex(s)

\* matchIndex is never optimistic: a peer still in the leader's term really has
\* the leader's log up to there (the comment at raft.go:619-621).
MatchIndexTruthful ==
  \A l, p \in Server :
    state[l] = "Leader" /\ p # l /\ currentTerm[p] = currentTerm[l] =>
      /\ matchIndex[l][p] <= lastIndex(p)
      /\ \A i \in Retained(l) \cap Retained(p) :
           i <= matchIndex[l][p] => entry(l, i).term = entry(p, i).term

\* Whenever the lock is free the persister holds all that a restart must bring
\* back: no handler changes persistent state without persist().
PersistComplete ==
  \A s \in Server :
    disk[s] = [currentTerm |-> currentTerm[s], votedFor |-> votedFor[s], log |-> log[s],
               lastIncludeIndex |-> lastIncludeIndex[s],
               lastIncludeTerm |-> lastIncludeTerm[s], snapshot |-> snapshot[s]]

\* Terms only grow and a vote, once given, stands for the rest of its term, also
\* when the peer crashes and comes back (RequestVote, readPersist).
VoteStep ==
  \A s \in Server :
    /\ currentTerm'[s] >= currentTerm[s]
    /\ currentTerm'[s] = currentTerm[s] /\ votedFor[s] # Nil => votedFor'[s] = votedFor[s]
VoteStable == [][VoteStep]_vars

\* No step of a peer, restarts included, drops or rewrites an entry it knows to be
\* committed; compaction only moves it into the snapshot (raft.go:370-371).
CommittedStep ==
  \A s \in Server :
    /\ lastIndex(s)' >= commitIndex[s]
    /\ \A i \in Retained(s) \cap Retained(s)' :
         i <= commitIndex[s] => entry(s, i)'.term = entry(s, i).term
CommittedKept == [][CommittedStep]_vars

\* Within one life of the process commitIndex and applyIndex never fall and the
\* service is never taken back, also when a snapshot replaces its state
\* (raft.go:388-393, 407-408, 582-585).
ForwardStep ==
  \A s \in Server : inc'[s] = inc[s] =>
    /\ commitIndex'[s] >= commitIndex[s]
    /\ applyIndex'[s] >= applyIndex[s]
    /\ Len(app'[s]) >= Len(app[s])
AppliedGrows == [][ForwardStep]_vars

=============================================================================
