---------------------------- MODULE RaftTheorems ----------------------------
(***************************************************************************)
(* Raft, for every number of peers, every set of commands and every bound: *)
(* the invariant that is about the present state alone, and what follows   *)
(* from it.  One lemma per action and part of the invariant: the types,    *)
(* and the agreement of persistent state and disk; the leader's indexes    *)
(* stay inside its log, however late the replies it reads are, because     *)
(* what a request covered when it was sent, its leader has as long as it   *)
(* leads that term; the snapshot meets the log, and commands and snapshots *)
(* reach the service in order; votes are given and counted once.           *)
(***************************************************************************)
EXTENDS RaftInvariants, TLAPS, FiniteSetTheorems, SequenceTheorems

-----------------------------------------------------------------------------
\* Types

\* A part of a sequence within its bounds
LEMMA PartType ==
  ASSUME NEW S, NEW q \in Seq(S), NEW i \in Int, NEW j \in Int, i >= 1, j <= Len(q)
  PROVE  /\ SubSeq(q, i, j) \in Seq(S)
         /\ Len(SubSeq(q, i, j)) = IF i <= j THEN j - i + 1 ELSE 0
         /\ \A k \in 1 .. j - i + 1 : SubSeq(q, i, j)[k] = q[i + k - 1]
<1>1. \A k \in i .. j : q[k] \in S
  OBVIOUS
<1> QED BY <1>1, SubSeqProperties

\* Shapes of the log helpers
LEMMA LastTypes ==
  ASSUME NEW s \in Server, LogTypeOK
  PROVE  /\ lastIndex(s) \in Nat /\ lastIndex(s) >= lastIncludeIndex[s]
         /\ lastTerm(s) \in Nat
<1>1. log[s] \in Seq(Entry) /\ Len(log[s]) >= 1 /\ lastIncludeIndex[s] \in Nat
  BY DEF LogTypeOK
<1>2. Len(log[s]) \in Nat
  BY <1>1
<1>3. log[s][Len(log[s])] \in Entry
  BY <1>1, <1>2
<1>4. lastTerm(s) \in Nat
  BY <1>3 DEF lastTerm, Entry
<1>5. lastIndex(s) \in Nat /\ lastIndex(s) >= lastIncludeIndex[s]
  BY <1>1, <1>2 DEF lastIndex
<1> QED BY <1>4, <1>5

\* Reading a retained index stays inside the slice (entry, raft.go:111).
LEMMA EntryType ==
  ASSUME NEW s \in Server, LogTypeOK,
         NEW i \in Nat, lastIncludeIndex[s] <= i, i <= lastIndex(s)
  PROVE  entry(s, i) \in Entry /\ logIdx(s, i) \in 1 .. Len(log[s])
<1>1. log[s] \in Seq(Entry) /\ Len(log[s]) \in Nat /\ lastIncludeIndex[s] \in Nat
  BY DEF LogTypeOK
<1>2. logIdx(s, i) \in 1 .. Len(log[s])
  BY <1>1 DEF logIdx, lastIndex
<1> QED BY <1>1, <1>2 DEF entry

\* entries(from, to) copies to - from entries
LEMMA EntriesType ==
  ASSUME NEW s \in Server, LogTypeOK, NEW from \in Int, NEW to \in Int,
         from > lastIncludeIndex[s], to <= lastIndex(s) + 1
  PROVE  /\ entries(s, from, to) \in Seq(Entry)
         /\ Len(entries(s, from, to)) = IF from <= to THEN to - from ELSE 0
<1>1. log[s] \in Seq(Entry) /\ Len(log[s]) \in Nat /\ lastIncludeIndex[s] \in Nat
  BY DEF LogTypeOK
<1> DEFINE a == logIdx(s, from)
           b == logIdx(s, to) - 1
<1>2. a \in Int /\ b \in Int /\ a >= 1 /\ b - a + 1 = to - from
  BY <1>1 DEF logIdx
<1>3. b <= Len(log[s])
  BY <1>1 DEF logIdx, lastIndex
<1>4. entries(s, from, to) = SubSeq(log[s], a, b)
  BY DEF entries
<1> HIDE DEF a, b
<1> QED BY <1>1, <1>2, <1>3, <1>4, PartType

\* persist() writes well-typed state to disk when the state itself is well typed
LEMMA PersistType ==
  ASSUME NEW s \in Server, ElectTypeOK', LogTypeOK, persist(s),
         log' \in [Server -> Seq(Entry)], \A p \in Server : Len(log'[p]) >= 1,
         lastIncludeIndex' \in [Server -> Nat], lastIncludeTerm' \in [Server -> Nat],
         snapshot' \in [Server -> Seq(Value)]
  PROVE  LogTypeOK'
<1> DEFINE d == [currentTerm |-> currentTerm'[s], votedFor |-> votedFor'[s],
              log |-> log'[s], lastIncludeIndex |-> lastIncludeIndex'[s],
              lastIncludeTerm |-> lastIncludeTerm'[s], snapshot |-> snapshot'[s]]
<1>1. d \in Persisted /\ Len(d.log) >= 1
  BY DEF ElectTypeOK, Persisted
<1>2. disk' = [disk EXCEPT ![s] = d]
  BY DEF persist
<1>3. disk \in [Server -> Persisted] /\ \A p \in Server : Len(disk[p].log) >= 1
  BY DEF LogTypeOK
<1> HIDE DEF d
<1>4. disk' \in [Server -> Persisted]
  BY <1>1, <1>2, <1>3
<1>5. ASSUME NEW p \in Server PROVE Len(disk'[p].log) >= 1
  BY <1>1, <1>2, <1>3
<1> QED BY <1>4, <1>5 DEF LogTypeOK

\* Groups of variables that a step leaves alone keep their types
LEMMA LogKept ==
  ASSUME LogTypeOK, UNCHANGED <<logVars, disk>>
  PROVE  LogTypeOK'
BY DEF LogTypeOK, logVars

\* A step that leaves the applier and the service alone keeps their types.
LEMMA ApplyKept ==
  ASSUME ApplyTypeOK, UNCHANGED <<indexVars, svcVars>>
  PROVE  ApplyTypeOK'
BY DEF ApplyTypeOK, indexVars, svcVars

\* A step that leaves nextIndex and matchIndex alone keeps their types.
LEMMA LeadKept ==
  ASSUME LeadTypeOK, UNCHANGED leadVars
  PROVE  LeadTypeOK'
BY DEF LeadTypeOK, leadVars

\* A step that leaves term, vote, role and count alone keeps their types.
LEMMA ElectKept ==
  ASSUME ElectTypeOK, UNCHANGED <<electVars, candVars, inc>>
  PROVE  ElectTypeOK'
BY DEF ElectTypeOK, electVars, candVars

\* startElection keeps the types: the term grows by one and the vote goes to oneself.
LEMMA StartElectionType ==
  ASSUME TypeOK, NEW s \in Server, NEW sent \in SUBSET Server, startElection(s, sent)
  PROVE  TypeOK'
<1> USE DEF TypeOK
<1>1. ElectTypeOK'
  BY DEF ElectTypeOK, startElection
<1>2. UNCHANGED <<log, lastIncludeIndex, lastIncludeTerm, snapshot>> /\ persist(s)
  BY DEF startElection, logVars
<1>3. LogTypeOK'
  BY <1>1, <1>2, PersistType DEF LogTypeOK
<1>4. ApplyTypeOK'
  BY ApplyKept DEF startElection
<1>5. LeadTypeOK'
  BY LeadKept DEF startElection
<1>6. NetTypeOK'
  <2>1. \A p \in sent : [src |-> s, dst |-> p, inc |-> inc[s], term |-> currentTerm[s] + 1,
         lastLogIndex |-> lastIndex(s), lastLogTerm |-> lastTerm(s)] \in RequestVoteArgs
    BY LastTypes DEF ElectTypeOK, RequestVoteArgs
  <2> QED BY <2>1 DEF NetTypeOK, startElection, appNet, snapNet
<1> QED BY <1>1, <1>3, <1>4, <1>5, <1>6

\* RequestVote keeps the types: the reply is a RequestVoteReply.
LEMMA RequestVoteType ==
  ASSUME TypeOK, NEW m \in voteReq, RequestVote(m)
  PROVE  TypeOK'
<1> USE DEF TypeOK
<1> DEFINE s == m.dst
<1>0. m \in RequestVoteArgs /\ s \in Server /\ m.src \in Server /\ m.term \in Nat
  BY DEF NetTypeOK, RequestVoteArgs
<1>1. ElectTypeOK'
  BY <1>0 DEF ElectTypeOK, RequestVote, votedForAt, MaxOf, candVars
<1>2. LogTypeOK'
  <2>1. UNCHANGED <<log, lastIncludeIndex, lastIncludeTerm, snapshot>>
    BY DEF RequestVote, logVars
  <2>2. CASE UNCHANGED disk
    BY <2>1, <2>2, LogKept DEF logVars
  <2>3. CASE persist(s)
    BY <1>0, <1>1, <2>1, <2>3, PersistType DEF LogTypeOK
  <2> QED BY <2>2, <2>3 DEF RequestVote
<1>3. ApplyTypeOK'
  BY ApplyKept DEF RequestVote
<1>4. LeadTypeOK'
  BY LeadKept DEF RequestVote
<1>5. NetTypeOK'
  <2> DEFINE r == [src |-> s, dst |-> m.src, argTerm |-> m.term,
                   term |-> MaxOf(m.term, currentTerm[s]), voteGranted |-> canGrant(s, m)]
  <2>1. canGrant(s, m) \in BOOLEAN
    BY DEF canGrant
  <2>2. MaxOf(m.term, currentTerm[s]) \in Nat
    BY <1>0 DEF MaxOf, ElectTypeOK
  <2>3. r \in RequestVoteReply
    BY <1>0, <2>1, <2>2 DEF RequestVoteReply
  <2>4. voteReq' \subseteq voteReq /\ voteRep' \subseteq voteRep \cup {r}
    BY DEF RequestVote
  <2> QED BY <2>3, <2>4 DEF NetTypeOK, RequestVote, appNet, snapNet
<1> QED BY <1>1, <1>2, <1>3, <1>4, <1>5

\* A peer that steps down to term t keeps the types of everything but the network
LEMMA StepDownType ==
  ASSUME TypeOK, NEW s \in Server, NEW t \in Nat, stepDown(s, t)
  PROVE  ElectTypeOK' /\ LogTypeOK' /\ ApplyTypeOK' /\ LeadTypeOK'
<1> USE DEF TypeOK
<1>1. ElectTypeOK'
  BY DEF ElectTypeOK, stepDown, candVars
<1>2. LogTypeOK'
  BY <1>1, PersistType DEF LogTypeOK, stepDown, logVars
<1>3. ApplyTypeOK'
  BY ApplyKept DEF stepDown
<1>4. LeadTypeOK'
  BY LeadKept DEF stepDown
<1> QED BY <1>1, <1>2, <1>3, <1>4

\* Handling a vote reply keeps the types, also when it makes a leader (becomeLeader).
LEMMA HandleVoteReplyType ==
  ASSUME TypeOK, NEW m \in voteRep, handleVoteReply(m)
  PROVE  TypeOK'
<1> USE DEF TypeOK
<1> DEFINE s == m.dst
<1>0. m \in RequestVoteReply /\ s \in Server /\ m.src \in Server /\ m.term \in Nat
  BY DEF NetTypeOK, RequestVoteReply
<1>1. NetTypeOK'
  BY DEF NetTypeOK, handleVoteReply, appNet, snapNet
<1>2. CASE stepDown(s, m.term)
  BY <1>0, <1>1, <1>2, StepDownType
<1>3. CASE UNCHANGED <<electVars, candVars, logVars, indexVars, leadVars, disk, svcVars, inc>>
  <2>1. ElectTypeOK'
    BY <1>3, ElectKept
  <2>2. LogTypeOK'
    BY <1>3, LogKept
  <2>3. ApplyTypeOK'
    BY <1>3, ApplyKept
  <2>4. LeadTypeOK'
    BY <1>3, LeadKept
  <2> QED BY <1>1, <2>1, <2>2, <2>3, <2>4
<1>4. CASE /\ voteCount' = [voteCount EXCEPT ![s] = @ + 1]
           /\ voters' = [voters EXCEPT ![s] = @ \cup {m.src}]
           /\ IF voteCount[s] + 1 > Half THEN becomeLeader(s) ELSE UNCHANGED <<state, leadVars>>
           /\ UNCHANGED <<currentTerm, votedFor, logVars, indexVars, disk, svcVars, inc>>
  <2>1. ElectTypeOK'
    BY <1>0, <1>4 DEF ElectTypeOK, becomeLeader
  <2>2. LogTypeOK'
    BY <1>4, LogKept
  <2>3. ApplyTypeOK'
    BY <1>4, ApplyKept
  <2>4. LeadTypeOK'
    <3>1. CASE becomeLeader(s)
      BY <3>1, <1>0, LastTypes DEF LeadTypeOK, becomeLeader
    <3>2. CASE UNCHANGED leadVars
      BY <3>2, LeadKept
    <3> QED BY <1>4, <3>1, <3>2
  <2> QED BY <1>1, <2>1, <2>2, <2>3, <2>4
<1> QED BY <1>2, <1>3, <1>4 DEF handleVoteReply

\* Start appends an entry to the log and keeps the types.
LEMMA StartType ==
  ASSUME TypeOK, NEW s \in Server, NEW c \in Command, Start(s, c)
  PROVE  TypeOK'
<1> USE DEF TypeOK
<1> DEFINE e == [term |-> currentTerm[s], cmd |-> c]
<1>1. ElectTypeOK'
  BY ElectKept DEF Start
<1>2. e \in Entry
  BY DEF Entry, ElectTypeOK
<1>3. log' \in [Server -> Seq(Entry)] /\ \A p \in Server : Len(log'[p]) >= 1
  <2>1. log' = [log EXCEPT ![s] = Append(@, e)]
    BY DEF Start
  <2>2. log \in [Server -> Seq(Entry)] /\ \A p \in Server : Len(log[p]) >= 1
    BY DEF LogTypeOK
  <2> HIDE DEF e
  <2>3. Append(log[s], e) \in Seq(Entry) /\ Len(Append(log[s], e)) >= 1
    BY <1>2, <2>2, AppendProperties
  <2> QED BY <2>1, <2>2, <2>3
<1>4. LogTypeOK'
  BY <1>1, <1>3, PersistType DEF LogTypeOK, Start
<1>5. ApplyTypeOK'
  BY ApplyKept DEF Start
<1>6. LeadTypeOK'
  BY LeadKept DEF Start
<1>7. NetTypeOK'
  BY DEF NetTypeOK, Start, voteNet, appNet, snapNet
<1> QED BY <1>1, <1>4, <1>5, <1>6, <1>7

\* The replicator sends a well-formed InstallSnapshot request.
LEMMA SendInstallSnapshotType ==
  ASSUME TypeOK, NEW s \in Server, NEW p \in Server, sendInstallSnapshot(s, p)
  PROVE  TypeOK'
<1> USE DEF TypeOK
<1> DEFINE m == [src |-> s, dst |-> p, inc |-> inc[s], term |-> currentTerm[s],
                 lastIncludeIndex |-> lastIncludeIndex[s],
                 lastIncludeTerm |-> lastIncludeTerm[s], data |-> snapshot[s]]
<1>1. ElectTypeOK'
  BY ElectKept DEF sendInstallSnapshot
<1>2. LogTypeOK'
  BY LogKept DEF sendInstallSnapshot
<1>3. ApplyTypeOK'
  BY ApplyKept DEF sendInstallSnapshot
<1>4. LeadTypeOK'
  BY LeadKept DEF sendInstallSnapshot
<1>5. m \in InstallSnapshotArgs
  BY DEF InstallSnapshotArgs, ElectTypeOK, LogTypeOK
<1>6. NetTypeOK'
  BY <1>5 DEF NetTypeOK, sendInstallSnapshot, voteNet, appNet
<1> QED BY <1>1, <1>2, <1>3, <1>4, <1>6

\* The replicator sends a well-formed AppendEntries request: with nextIndex in range
\* both entry(next-1) and the batch lie inside the leader's log.
LEMMA SendAppendEntriesType ==
  ASSUME TypeOK, NextIndexInRange, NEW s \in Server, NEW p \in Server, sendAppendEntries(s, p)
  PROVE  TypeOK'
<1> USE DEF TypeOK
<1> DEFINE next == nextIndex[s][p]
           hi == MinOf(lastIndex(s) + 1, next + maxBatchSize)
           es == entries(s, next, hi)
           m == [src |-> s, dst |-> p, inc |-> inc[s], term |-> currentTerm[s],
                 prevLogIndex |-> next - 1, prevLogTerm |-> entry(s, next - 1).term,
                 entries |-> es, leaderCommit |-> commitIndex[s]]
<1>1. ElectTypeOK'
  BY ElectKept DEF sendAppendEntries
<1>2. LogTypeOK'
  BY LogKept DEF sendAppendEntries
<1>3. ApplyTypeOK'
  BY ApplyKept DEF sendAppendEntries
<1>4. LeadTypeOK'
  BY LeadKept DEF sendAppendEntries
<1>5. /\ next \in Nat /\ next >= 1 /\ next <= lastIndex(s) + 1
      /\ lastIncludeIndex[s] \in Nat /\ next > lastIncludeIndex[s]
  BY DEF NextIndexInRange, sendAppendEntries, LeadTypeOK, LogTypeOK
<1>6. entry(s, next - 1) \in Entry
  <2>1. lastIndex(s) \in Nat
    BY LastTypes
  <2>2. next - 1 \in Nat /\ lastIncludeIndex[s] <= next - 1 /\ next - 1 <= lastIndex(s)
    BY <1>5, <2>1
  <2> HIDE DEF next
  <2> QED BY <2>2, EntryType
<1>7. es \in Seq(Entry)
  <2>1. hi \in Int /\ hi <= lastIndex(s) + 1
    BY <1>5, LastTypes, BoundsAssumption DEF MinOf
  <2> QED BY <1>5, <2>1, EntriesType
<1>8. m \in AppendEntriesArgs
  <2>1. next - 1 \in Nat /\ entry(s, next - 1).term \in Nat
    BY <1>5, <1>6 DEF Entry
  <2>2. inc[s] \in Nat /\ currentTerm[s] \in Nat /\ commitIndex[s] \in Nat
    BY DEF ElectTypeOK, ApplyTypeOK
  <2> HIDE DEF es, next
  <2> QED BY <1>7, <2>1, <2>2 DEF AppendEntriesArgs
<1>9. NetTypeOK'
  BY <1>8 DEF NetTypeOK, sendAppendEntries, voteNet, snapNet
<1> QED BY <1>1, <1>2, <1>3, <1>4, <1>9

\* What an acknowledgement does to the leader's indexes
LEMMA AcknowledgeType ==
  ASSUME TypeOK, NEW s \in Server, NEW p \in Server, NEW matched \in Nat,
         acknowledge(s, p, matched)
  PROVE  /\ LeadTypeOK'
         /\ commitIndex' \in [Server -> Nat]
<1> USE DEF TypeOK
<1> DEFINE match == [matchIndex[s] EXCEPT ![p] = MaxOf(@, matched)]
<1>1. match \in [Server -> Nat]
  BY DEF LeadTypeOK, MaxOf
<1>2. LeadTypeOK'
  <2>1. /\ matchIndex' = [matchIndex EXCEPT ![s] = match]
        /\ nextIndex' = [nextIndex EXCEPT ![s][p] = match[p] + 1]
    BY DEF acknowledge
  <2> HIDE DEF match
  <2> QED BY <1>1, <2>1 DEF LeadTypeOK
<1>3. \A n \in committable(s, match) : n \in Nat
  <2>1. [match EXCEPT ![s] = lastIndex(s)] \in [Server -> Nat]
    BY <1>1, LastTypes
  <2> HIDE DEF match
  <2> QED BY <2>1 DEF committable, orderStatistic
<1>4. advanceCommitIndex(s, match)
  BY DEF acknowledge
<1> HIDE DEF match
<1> QED BY <1>2, <1>3, <1>4 DEF advanceCommitIndex, ApplyTypeOK

\* handleAppendReply keeps the types: clamp keeps nextIndex at least 1.
LEMMA HandleAppendReplyType ==
  ASSUME TypeOK, NEW m \in appRep, handleAppendReply(m)
  PROVE  TypeOK'
<1> USE DEF TypeOK
<1> DEFINE s == m.dst
<1>0. /\ s \in Server /\ m.src \in Server /\ m.term \in Nat /\ m.matched \in Nat
      /\ m.xTerm \in Int /\ m.xIndex \in Int /\ m.xLen \in Nat
  BY DEF NetTypeOK, AppendEntriesReply
<1>1. NetTypeOK'
  BY DEF NetTypeOK, handleAppendReply, Receive, voteNet, snapNet
<1>2. CASE stepDown(s, m.term)
  BY <1>0, <1>1, <1>2, StepDownType
<1>3. CASE UNCHANGED <<electVars, candVars, logVars, indexVars, leadVars, disk, svcVars, inc>>
  <2>1. ElectTypeOK'
    BY <1>3, ElectKept
  <2>2. LogTypeOK'
    BY <1>3, LogKept
  <2>3. ApplyTypeOK'
    BY <1>3, ApplyKept
  <2>4. LeadTypeOK'
    BY <1>3, LeadKept
  <2> QED BY <1>1, <2>1, <2>2, <2>3, <2>4
<1>4. CASE /\ \/ acknowledge(s, m.src, m.matched)
              \/ /\ \E x \in backup(s, m) :
                      nextIndex' = [nextIndex EXCEPT ![s][m.src] = clamp(s, x)]
                 /\ UNCHANGED <<matchIndex, commitIndex>>
           /\ UNCHANGED <<electVars, candVars, logVars, applyIndex, pendingSnapshot,
                          disk, svcVars, inc>>
  <2>1. ElectTypeOK'
    BY <1>4, ElectKept
  <2>2. LogTypeOK'
    BY <1>4, LogKept
  <2>3. LeadTypeOK' /\ commitIndex' \in [Server -> Nat]
    <3>1. CASE acknowledge(s, m.src, m.matched)
      BY <3>1, <1>0, AcknowledgeType
    <3>2. CASE /\ \E x \in backup(s, m) :
                    nextIndex' = [nextIndex EXCEPT ![s][m.src] = clamp(s, x)]
               /\ UNCHANGED <<matchIndex, commitIndex>>
      <4>1. PICK x \in backup(s, m) :
              nextIndex' = [nextIndex EXCEPT ![s][m.src] = clamp(s, x)]
        BY <3>2
      <4>2. lastIncludeIndex[s] \in Nat /\ lastIndex(s) \in Nat
        BY <1>0, LastTypes DEF LogTypeOK
      <4>3. x \in Int
        <5>1. \A i \in lastOfTerm(s, m.xTerm) : i \in Int
          BY <4>2 DEF lastOfTerm
        <5> QED BY <1>0, <4>1, <5>1 DEF backup
      <4>4. clamp(s, x) \in Nat
        BY <4>2, <4>3 DEF clamp, MinOf, MaxOf
      <4> QED BY <1>0, <3>2, <4>1, <4>4 DEF LeadTypeOK, ApplyTypeOK
    <3> QED BY <1>4, <3>1, <3>2
  <2>4. ApplyTypeOK'
    BY <1>4, <2>3 DEF ApplyTypeOK, svcVars
  <2> QED BY <1>1, <2>1, <2>2, <2>3, <2>4
<1> QED BY <1>2, <1>3, <1>4 DEF handleAppendReply

\* handleInstallReply keeps the types.
LEMMA HandleInstallReplyType ==
  ASSUME TypeOK, NEW m \in snapRep, handleInstallReply(m)
  PROVE  TypeOK'
<1> USE DEF TypeOK
<1> DEFINE s == m.dst
<1>0. s \in Server /\ m.src \in Server /\ m.term \in Nat /\ m.matched \in Nat
  BY DEF NetTypeOK, InstallSnapshotReply
<1>1. NetTypeOK'
  BY DEF NetTypeOK, handleInstallReply, Receive, voteNet, appNet
<1>2. CASE stepDown(s, m.term)
  BY <1>0, <1>1, <1>2, StepDownType
<1>3. CASE UNCHANGED <<electVars, candVars, logVars, indexVars, leadVars, disk, svcVars, inc>>
  <2>1. ElectTypeOK'
    BY <1>3, ElectKept
  <2>2. LogTypeOK'
    BY <1>3, LogKept
  <2>3. ApplyTypeOK'
    BY <1>3, ApplyKept
  <2>4. LeadTypeOK'
    BY <1>3, LeadKept
  <2> QED BY <1>1, <2>1, <2>2, <2>3, <2>4
<1>4. CASE /\ acknowledge(s, m.src, m.matched)
           /\ UNCHANGED <<electVars, candVars, logVars, applyIndex, pendingSnapshot,
                          disk, svcVars, inc>>
  <2>1. ElectTypeOK'
    BY <1>4, ElectKept
  <2>2. LogTypeOK'
    BY <1>4, LogKept
  <2>3. LeadTypeOK' /\ commitIndex' \in [Server -> Nat]
    BY <1>0, <1>4, AcknowledgeType
  <2>4. ApplyTypeOK'
    BY <1>4, <2>3 DEF ApplyTypeOK, svcVars
  <2> QED BY <1>1, <2>1, <2>2, <2>3, <2>4
<1> QED BY <1>2, <1>3, <1>4 DEF handleInstallReply

\* Following a leader of term t
LEMMA FollowType ==
  ASSUME TypeOK, NEW s \in Server, NEW t \in Nat, follow(s, t), UNCHANGED <<candVars, inc>>
  PROVE  ElectTypeOK'
BY DEF TypeOK, ElectTypeOK, follow, votedForAt, candVars

\* Persisting a newer term keeps the types of the log and of the disk.
LEMMA PersistTermType ==
  ASSUME LogTypeOK, ElectTypeOK', NEW s \in Server, NEW t \in Nat, persistTerm(s, t),
         UNCHANGED logVars
  PROVE  LogTypeOK'
<1>1. UNCHANGED <<log, lastIncludeIndex, lastIncludeTerm, snapshot>>
  BY DEF logVars
<1>2. CASE persist(s)
  BY <1>1, <1>2, PersistType DEF LogTypeOK
<1>3. CASE UNCHANGED disk
  BY <1>3, LogKept
<1> QED BY <1>2, <1>3 DEF persistTerm

\* The follower keeps its log up to some index of its own, PrevLogIndex or later
LEMMA KeepRange ==
  ASSUME TypeOK, NEW m \in appReq, m.prevLogIndex <= lastIndex(m.dst), NEW k \in keepUpTo(m)
  PROVE  /\ k \in Int /\ k >= lastIncludeIndex[m.dst] /\ k >= m.prevLogIndex
         /\ k <= lastIndex(m.dst)
<1> USE DEF TypeOK
<1> DEFINE s == m.dst
<1>1. s \in Server /\ m.prevLogIndex \in Nat /\ m.entries \in Seq(Entry) /\ Len(m.entries) \in Nat
  BY DEF NetTypeOK, AppendEntriesArgs
<1>2. lastIncludeIndex[s] \in Nat /\ lastIndex(s) \in Nat /\ lastIndex(s) >= lastIncludeIndex[s]
  BY <1>1, LastTypes DEF LogTypeOK
<1>3. \A c \in conflicts(m) : /\ c \in Int /\ c > lastIncludeIndex[s] /\ c > m.prevLogIndex
                              /\ c <= lastIndex(s)
  BY <1>1, <1>2 DEF conflicts, MaxOf, MinOf
<1>4. CASE conflicts(m) = {}
  BY <1>1, <1>2, <1>4 DEF keepUpTo
<1>5. CASE conflicts(m) # {}
  <2>1. PICK c \in conflicts(m) : k = c - 1
    BY <1>5 DEF keepUpTo
  <2> QED BY <1>1, <1>2, <1>3, <2>1
<1> QED BY <1>4, <1>5

\* The log after AppendEntries is a log: what the follower keeps, then the rest of the batch
LEMMA ExtendedType ==
  ASSUME TypeOK, NEW m \in appReq, m.prevLogIndex <= lastIndex(m.dst), NEW k \in keepUpTo(m)
  PROVE  /\ extended(m, k) \in Seq(Entry)
         /\ Len(extended(m, k)) >= 1
         /\ extended(m, k)[1] = log[m.dst][1]
<1> USE DEF TypeOK
<1> DEFINE s == m.dst
<1>1. s \in Server /\ m.prevLogIndex \in Nat /\ m.entries \in Seq(Entry) /\ Len(m.entries) \in Nat
  BY DEF NetTypeOK, AppendEntriesArgs
<1>2. /\ log[s] \in Seq(Entry) /\ Len(log[s]) \in Nat /\ Len(log[s]) >= 1
      /\ lastIncludeIndex[s] \in Nat
  BY <1>1 DEF LogTypeOK
<1>3. k \in Int /\ k >= lastIncludeIndex[s] /\ k >= m.prevLogIndex /\ k <= lastIndex(s)
  BY KeepRange
<1>4. logIdx(s, k) \in Int /\ logIdx(s, k) >= 1
  BY <1>2, <1>3 DEF logIdx
<1>5. logIdx(s, k) <= Len(log[s])
  BY <1>2, <1>3 DEF logIdx, lastIndex
<1> DEFINE l1 == SubSeq(log[s], 1, logIdx(s, k))
           l2 == SubSeq(m.entries, k - m.prevLogIndex + 1, Len(m.entries))
<1>6. l1 \in Seq(Entry) /\ Len(l1) >= 1 /\ l1[1] = log[s][1]
  BY <1>2, <1>4, <1>5, PartType
<1>7. l2 \in Seq(Entry) /\ Len(l2) \in Nat
  <2>1. k - m.prevLogIndex + 1 \in Int /\ k - m.prevLogIndex + 1 >= 1
    BY <1>1, <1>3
  <2> QED BY <1>1, <2>1, PartType
<1>8. extended(m, k) = l1 \o l2
  BY DEF extended
<1> HIDE DEF l1, l2
<1> QED BY <1>6, <1>7, <1>8, ConcatProperties

\* AppendEntries keeps the types on each of its four ways out.
LEMMA AppendEntriesType ==
  ASSUME TypeOK, NEW m \in appReq, AppendEntries(m)
  PROVE  TypeOK'
<1> USE DEF TypeOK
<1> DEFINE s == m.dst
<1>0. /\ s \in Server /\ m.src \in Server /\ m.term \in Nat /\ m.prevLogIndex \in Nat
      /\ m.entries \in Seq(Entry) /\ Len(m.entries) \in Nat /\ m.leaderCommit \in Nat
  BY DEF NetTypeOK, AppendEntriesArgs
<1>1. LeadTypeOK'
  BY LeadKept DEF AppendEntries
<1>2. UNCHANGED <<candVars, applyIndex, pendingSnapshot, svcVars, inc, voteNet, snapNet>>
  BY DEF AppendEntries
<1>3. lastIndex(s) + 1 \in Nat /\ m.prevLogIndex + Len(m.entries) \in Nat
  BY <1>0, LastTypes
<1>4. ASSUME NEW r \in AppendEntriesReply, NEW alive, appRep' \in SendReply(appRep, r, alive)
      PROVE  NetTypeOK'
  <2>1. appReq' \subseteq appReq
    BY DEF AppendEntries, Receive
  <2>2. appRep' \subseteq appRep \cup {r}
    BY <1>4 DEF SendReply
  <2> QED BY <1>2, <2>1, <2>2 DEF NetTypeOK, voteNet, snapNet
<1>5. CASE rejectStale(m)
  <2>1. NetTypeOK'
    <3>1. currentTerm[s] \in Nat
      BY <1>0 DEF ElectTypeOK
    <3>2. appendReply(m, currentTerm[s], FALSE, -1, -1) \in AppendEntriesReply
      BY <1>0, <1>3, <3>1 DEF appendReply, AppendEntriesReply
    <3> QED BY <1>4, <1>5, <3>2 DEF rejectStale
  <2>2. ElectTypeOK'
    BY <1>2, <1>5, ElectKept DEF rejectStale
  <2>3. LogTypeOK'
    BY <1>5, LogKept DEF rejectStale
  <2>4. ApplyTypeOK'
    BY <1>2, <1>5, ApplyKept DEF rejectStale, indexVars
  <2> QED BY <1>1, <2>1, <2>2, <2>3, <2>4
<1>6. CASE rejectShort(m)
  <2>1. NetTypeOK'
    <3>1. appendReply(m, m.term, FALSE, -1, -1) \in AppendEntriesReply
      BY <1>0, <1>3 DEF appendReply, AppendEntriesReply
    <3> QED BY <1>4, <1>6, <3>1 DEF rejectShort
  <2>2. ElectTypeOK'
    BY <1>0, <1>2, <1>6, FollowType DEF rejectShort
  <2>3. LogTypeOK'
    BY <1>0, <1>6, <2>2, PersistTermType DEF rejectShort
  <2>4. ApplyTypeOK'
    BY <1>2, <1>6, ApplyKept DEF rejectShort, indexVars
  <2> QED BY <1>1, <2>1, <2>2, <2>3, <2>4
<1>7. CASE rejectMismatch(m)
  <2>1. NetTypeOK'
    <3>1. PICK x \in runStart(s, m.prevLogIndex) :
            appRep' \in SendReply(appRep,
                          appendReply(m, m.term, FALSE, entry(s, m.prevLogIndex).term, x),
                          m.inc = inc[m.src])
      BY <1>7 DEF rejectMismatch
    <3>2. entry(s, m.prevLogIndex).term \in Nat
      BY <1>0, <1>7, EntryType DEF rejectMismatch, mismatch, Entry
    <3>3. x \in Int
      BY <1>0, <3>1 DEF runStart, LogTypeOK
    <3>4. appendReply(m, m.term, FALSE, entry(s, m.prevLogIndex).term, x) \in AppendEntriesReply
      BY <1>0, <1>3, <3>2, <3>3 DEF appendReply, AppendEntriesReply
    <3> QED BY <1>4, <3>1, <3>4
  <2>2. ElectTypeOK'
    BY <1>0, <1>2, <1>7, FollowType DEF rejectMismatch
  <2>3. LogTypeOK'
    BY <1>0, <1>7, <2>2, PersistTermType DEF rejectMismatch
  <2>4. ApplyTypeOK'
    BY <1>2, <1>7, ApplyKept DEF rejectMismatch, indexVars
  <2> QED BY <1>1, <2>1, <2>2, <2>3, <2>4
<1>8. CASE accept(m)
  <2>1. NetTypeOK'
    <3>1. appendReply(m, m.term, TRUE, -1, -1) \in AppendEntriesReply
      BY <1>0, <1>3 DEF appendReply, AppendEntriesReply
    <3> QED BY <1>4, <1>8, <3>1 DEF accept
  <2>2. ElectTypeOK'
    BY <1>0, <1>2, <1>8, FollowType DEF accept
  <2>3. log' \in [Server -> Seq(Entry)] /\ \A p \in Server : Len(log'[p]) >= 1
    <3>1. CASE UNCHANGED log
      BY <3>1 DEF LogTypeOK
    <3>2. CASE \E k \in keepUpTo(m) : log' = [log EXCEPT ![s] = extended(m, k)]
      <4>1. PICK k \in keepUpTo(m) : log' = [log EXCEPT ![s] = extended(m, k)]
        BY <3>2
      <4>2. extended(m, k) \in Seq(Entry) /\ Len(extended(m, k)) >= 1
        BY <1>8, ExtendedType DEF accept
      <4> QED BY <1>0, <4>1, <4>2 DEF LogTypeOK
    <3> QED BY <1>8, <3>1, <3>2 DEF accept
  <2>4. LogTypeOK'
    <3>1. UNCHANGED <<lastIncludeIndex, lastIncludeTerm, snapshot>>
      BY <1>8 DEF accept
    <3>2. CASE persist(s)
      BY <1>0, <2>2, <2>3, <3>1, <3>2, PersistType DEF LogTypeOK
    <3>3. CASE UNCHANGED disk
      BY <2>3, <3>1, <3>3 DEF LogTypeOK
    <3> QED BY <1>8, <3>2, <3>3 DEF accept, persistTerm
  <2>5. ApplyTypeOK'
    <3>1. followCommit(s, m.leaderCommit, m.prevLogIndex + Len(m.entries)) \in Nat
      BY <1>0 DEF followCommit, MaxOf, MinOf, ApplyTypeOK
    <3> QED BY <1>0, <1>2, <1>8, <3>1 DEF accept, ApplyTypeOK, svcVars
  <2> QED BY <1>1, <2>1, <2>2, <2>4, <2>5
<1> QED BY <1>5, <1>6, <1>7, <1>8 DEF AppendEntries

\* InstallSnapshot leaves a log that has its sentinel.
LEMMA LogAfterInstallType ==
  ASSUME TypeOK, NEW m \in snapReq, m.lastIncludeIndex > lastIncludeIndex[m.dst]
  PROVE  /\ logAfterInstall(m) \in Seq(Entry)
         /\ Len(logAfterInstall(m)) >= 1
<1> USE DEF TypeOK
<1> DEFINE s == m.dst
           i == m.lastIncludeIndex
<1>1. s \in Server /\ i \in Nat /\ m.lastIncludeTerm \in Nat
  BY DEF NetTypeOK, InstallSnapshotArgs
<1>2. CASE i <= lastIndex(s)
  <2>1. log[s] \in Seq(Entry) /\ Len(log[s]) \in Nat /\ logIdx(s, i) \in 1 .. Len(log[s])
    <3>1. log[s] \in Seq(Entry) /\ Len(log[s]) \in Nat /\ lastIncludeIndex[s] \in Nat
      BY <1>1 DEF LogTypeOK
    <3> QED BY <1>1, <1>2, <3>1, EntryType
  <2>2. truncateFront(s, i) \in Seq(Entry) /\ Len(truncateFront(s, i)) >= 1
    BY <2>1, PartType DEF truncateFront
  <2>3. <<[term |-> m.lastIncludeTerm, cmd |-> Nil]>> \in Seq(Entry)
    BY <1>1 DEF Entry
  <2> QED BY <2>2, <2>3 DEF logAfterInstall
<1>3. CASE ~ (i <= lastIndex(s))
  <2>1. <<[term |-> m.lastIncludeTerm, cmd |-> Nil]>> \in Seq(Entry)
    BY <1>1 DEF Entry
  <2>2. lastIndex(s) \in Nat
    BY <1>1, LastTypes
  <2> QED BY <1>1, <1>3, <2>1, <2>2 DEF logAfterInstall
<1> QED BY <1>2, <1>3

\* InstallSnapshot keeps the types on each of its three ways out.
LEMMA InstallSnapshotType ==
  ASSUME TypeOK, NEW m \in snapReq, InstallSnapshot(m)
  PROVE  TypeOK'
<1> USE DEF TypeOK
<1> DEFINE s == m.dst
           i == m.lastIncludeIndex
<1>0. /\ s \in Server /\ m.src \in Server /\ m.term \in Nat /\ i \in Nat
      /\ m.lastIncludeTerm \in Nat /\ m.data \in Seq(Value)
  BY DEF NetTypeOK, InstallSnapshotArgs
<1>1. LeadTypeOK'
  BY LeadKept DEF InstallSnapshot
<1>2. UNCHANGED <<candVars, svcVars, inc, voteNet, appNet>>
  BY DEF InstallSnapshot
<1>3. ASSUME NEW t \in Nat, NEW ok \in BOOLEAN
      PROVE  installReply(m, t, ok) \in InstallSnapshotReply
  BY <1>0 DEF installReply, InstallSnapshotReply
<1>4. ASSUME NEW r \in InstallSnapshotReply, NEW alive, snapRep' \in SendReply(snapRep, r, alive)
      PROVE  NetTypeOK'
  <2>1. snapReq' \subseteq snapReq
    BY DEF InstallSnapshot, Receive
  <2>2. snapRep' \subseteq snapRep \cup {r}
    BY <1>4 DEF SendReply
  <2> QED BY <1>2, <2>1, <2>2 DEF NetTypeOK, voteNet, appNet
<1>5. CASE rejectInstall(m)
  <2>1. NetTypeOK'
    <3>1. currentTerm[s] \in Nat
      BY <1>0 DEF ElectTypeOK
    <3> QED BY <1>3, <1>4, <1>5, <3>1 DEF rejectInstall
  <2>2. ElectTypeOK'
    BY <1>2, <1>5, ElectKept DEF rejectInstall
  <2>3. LogTypeOK'
    BY <1>5, LogKept DEF rejectInstall
  <2>4. ApplyTypeOK'
    BY <1>2, <1>5, ApplyKept DEF rejectInstall
  <2> QED BY <1>1, <2>1, <2>2, <2>3, <2>4
<1>6. CASE skipInstall(m)
  <2>1. NetTypeOK'
    BY <1>0, <1>3, <1>4, <1>6 DEF skipInstall
  <2>2. ElectTypeOK'
    BY <1>0, <1>2, <1>6, FollowType DEF skipInstall
  <2>3. LogTypeOK'
    BY <1>0, <1>6, <2>2, PersistTermType DEF skipInstall
  <2>4. ApplyTypeOK'
    BY <1>2, <1>6, ApplyKept DEF skipInstall
  <2> QED BY <1>1, <2>1, <2>2, <2>3, <2>4
<1>7. CASE install(m)
  <2>1. NetTypeOK'
    BY <1>0, <1>3, <1>4, <1>7 DEF install
  <2>2. ElectTypeOK'
    BY <1>0, <1>2, <1>7, FollowType DEF install
  <2>3. logAfterInstall(m) \in Seq(Entry) /\ Len(logAfterInstall(m)) >= 1
    <3>1. lastIncludeIndex[s] \in Nat
      BY <1>0 DEF LogTypeOK
    <3>2. i > lastIncludeIndex[s]
      BY <1>0, <1>7, <3>1 DEF install, alreadyHas
    <3> QED BY <3>2, LogAfterInstallType
  <2>4. log' \in [Server -> Seq(Entry)] /\ \A p \in Server : Len(log'[p]) >= 1
    BY <1>0, <1>7, <2>3 DEF install, LogTypeOK
  <2>5. /\ lastIncludeIndex' \in [Server -> Nat] /\ lastIncludeTerm' \in [Server -> Nat]
        /\ snapshot' \in [Server -> Seq(Value)]
    BY <1>0, <1>7 DEF install, LogTypeOK
  <2>6. LogTypeOK'
    BY <1>0, <1>7, <2>2, <2>4, <2>5, PersistType DEF install
  <2>7. ApplyTypeOK'
    <3>1. [snap |-> TRUE, index |-> i, data |-> m.data] \in ApplyMsg
      BY <1>0 DEF ApplyMsg
    <3> QED BY <1>0, <1>2, <1>7, <3>1 DEF install, ApplyTypeOK, MaxOf, svcVars
  <2> QED BY <1>1, <2>1, <2>2, <2>6, <2>7
<1> QED BY <1>5, <1>6, <1>7 DEF InstallSnapshot

\* The applier takes a well-formed batch: with applyIndex <= commitIndex, and
\* lastIncludeIndex <= applyIndex, it reads retained entries only.
LEMMA ApplierType ==
  ASSUME TypeOK, SnapshotChain, NEW s \in Server, applier(s)
  PROVE  TypeOK'
<1> USE DEF TypeOK
<1>1. ElectTypeOK'
  BY ElectKept DEF applier
<1>2. LogTypeOK'
  BY LogKept DEF applier
<1>3. LeadTypeOK'
  BY LeadKept DEF applier
<1>4. NetTypeOK'
  BY DEF NetTypeOK, applier, voteNet, appNet, snapNet
<1>5. CASE takeSnapshot(s)
  <2>1. <<pendingSnapshot[s]>> \in Seq(ApplyMsg)
    BY <1>5 DEF takeSnapshot, ApplyTypeOK
  <2>2. ApplyTypeOK'
    BY <1>5, <2>1 DEF applier, takeSnapshot, ApplyTypeOK
  <2> QED BY <1>1, <1>2, <1>3, <1>4, <2>2
<1>6. CASE takeCommands(s)
  <2> DEFINE n == commitIndex[s] - applyIndex[s]
             msg(k) == [snap |-> FALSE, index |-> applyIndex[s] + k,
                        data |-> <<commandAt(s, applyIndex[s] + k)>>]
  <2>1. n \in Nat /\ applyIndex[s] \in Nat
    BY <1>6 DEF takeCommands, ApplyTypeOK
  <2>2. lastIncludeIndex[s] \in Nat /\ lastIndex(s) \in Nat
    BY LastTypes DEF LogTypeOK
  <2>3. lastIncludeIndex[s] <= applyIndex[s]
    BY DEF SnapshotChain
  <2>4. ASSUME NEW k \in 1 .. n
        PROVE  msg(k) \in ApplyMsg
    <3>1. commandAt(s, applyIndex[s] + k) \in Value
      <4>1. CASE applyIndex[s] + k <= lastIndex(s)
        <5>1. entry(s, applyIndex[s] + k) \in Entry
          BY <2>1, <2>2, <2>3, <4>1, EntryType
        <5> QED BY <4>1, <5>1 DEF commandAt, Entry, Value
      <4>2. CASE ~ (applyIndex[s] + k <= lastIndex(s))
        BY <4>2 DEF commandAt, Value
      <4> QED BY <4>1, <4>2
    <3>2. applyIndex[s] + k \in Nat
      BY <2>1
    <3>3. <<commandAt(s, applyIndex[s] + k)>> \in Seq(Value)
      BY <3>1
    <3> QED BY <3>2, <3>3 DEF ApplyMsg
  <2> DEFINE batch == [k \in 1 .. n |-> msg(k)]
  <2>5. batch \in Seq(ApplyMsg)
    <3> HIDE DEF msg, n
    <3> QED BY <2>1, <2>4
  <2>6. applyMsgs' = [applyMsgs EXCEPT ![s] = batch]
    BY <1>6 DEF takeCommands
  <2> HIDE DEF batch
  <2>7. ApplyTypeOK'
    BY <1>6, <2>5, <2>6 DEF applier, takeCommands, ApplyTypeOK
  <2> QED BY <1>1, <1>2, <1>3, <1>4, <2>7
<1> QED BY <1>5, <1>6 DEF applier

\* Delivering one message keeps the types.
LEMMA DeliverType ==
  ASSUME TypeOK, NEW s \in Server, deliver(s)
  PROVE  TypeOK'
<1> USE DEF TypeOK
<1>1. ElectTypeOK'
  BY ElectKept DEF deliver
<1>2. LogTypeOK'
  BY LogKept DEF deliver
<1>3. LeadTypeOK'
  BY LeadKept DEF deliver
<1>4. NetTypeOK'
  BY DEF NetTypeOK, deliver, voteNet, appNet, snapNet
<1>5. applyMsgs[s] \in Seq(ApplyMsg) /\ applyMsgs[s] # <<>> /\ app[s] \in Seq(Value)
  BY DEF deliver, ApplyTypeOK
<1>6. Head(applyMsgs[s]) \in ApplyMsg /\ Tail(applyMsgs[s]) \in Seq(ApplyMsg)
  BY <1>5, HeadTailProperties
<1>7. Head(applyMsgs[s]).data \in Seq(Value)
  BY <1>6 DEF ApplyMsg
<1>8. app[s] \o Head(applyMsgs[s]).data \in Seq(Value)
  BY <1>5, <1>7, ConcatProperties
<1>9. ApplyTypeOK'
  BY <1>6, <1>7, <1>8 DEF deliver, ApplyTypeOK, indexVars
<1> QED BY <1>1, <1>2, <1>3, <1>4, <1>9

\* Compaction by Snapshot() keeps the types: the entry at index becomes the sentinel.
LEMMA SnapshotType ==
  ASSUME TypeOK, NEW s \in Server, Snapshot(s)
  PROVE  TypeOK'
<1> USE DEF TypeOK
<1> DEFINE i == Len(app[s])
<1>1. ElectTypeOK'
  BY ElectKept DEF Snapshot
<1>2. ApplyTypeOK'
  BY ApplyKept DEF Snapshot
<1>3. LeadTypeOK'
  BY LeadKept DEF Snapshot
<1>4. NetTypeOK'
  BY DEF NetTypeOK, Snapshot, voteNet, appNet, snapNet
<1>5. app[s] \in Seq(Value) /\ i \in Nat
  BY DEF ApplyTypeOK
<1>6. lastIncludeIndex[s] \in Nat /\ lastIncludeIndex[s] < i /\ i <= lastIndex(s)
  BY DEF LogTypeOK, Snapshot
<1>7. entry(s, i) \in Entry /\ logIdx(s, i) \in 1 .. Len(log[s])
  BY <1>5, <1>6, EntryType
<1>8. truncateFront(s, i) \in Seq(Entry) /\ Len(truncateFront(s, i)) >= 1
  <2>1. log[s] \in Seq(Entry) /\ Len(log[s]) \in Nat
    BY DEF LogTypeOK
  <2> QED BY <1>7, <2>1, PartType DEF truncateFront
<1>9. log' \in [Server -> Seq(Entry)] /\ \A p \in Server : Len(log'[p]) >= 1
  <2>1. log' = [log EXCEPT ![s] = truncateFront(s, i)]
    BY DEF Snapshot
  <2> QED BY <1>8, <2>1 DEF LogTypeOK
<1>10. /\ lastIncludeIndex' \in [Server -> Nat] /\ snapshot' \in [Server -> Seq(Value)]
  BY <1>5 DEF Snapshot, LogTypeOK
<1>11. lastIncludeTerm' \in [Server -> Nat]
  BY <1>7 DEF Snapshot, LogTypeOK, Entry
<1>12. LogTypeOK'
  BY <1>1, <1>9, <1>10, <1>11, PersistType DEF Snapshot
<1> QED BY <1>1, <1>2, <1>3, <1>4, <1>12

\* A restart from a well-formed disk keeps the types.
LEMMA RestartFromType ==
  ASSUME TypeOK, NEW s \in Server, NEW d \in Persisted, Len(d.log) >= 1, restartFrom(s, d),
         voteReq' \subseteq voteReq
  PROVE  TypeOK'
<1> USE DEF TypeOK
<1>0. /\ d.currentTerm \in Nat /\ d.votedFor \in Server \cup {Nil} /\ d.log \in Seq(Entry)
      /\ d.lastIncludeIndex \in Nat /\ d.lastIncludeTerm \in Nat /\ d.snapshot \in Seq(Value)
  BY DEF Persisted
<1>1. ElectTypeOK'
  BY <1>0 DEF ElectTypeOK, restartFrom
<1>2. LogTypeOK'
  <2>1. /\ log' \in [Server -> Seq(Entry)] /\ \A p \in Server : Len(log'[p]) >= 1
    BY <1>0 DEF LogTypeOK, restartFrom
  <2>2. /\ disk' \in [Server -> Persisted] /\ \A p \in Server : Len(disk'[p].log) >= 1
    BY DEF LogTypeOK, restartFrom
  <2>3. /\ lastIncludeIndex' \in [Server -> Nat] /\ lastIncludeTerm' \in [Server -> Nat]
        /\ snapshot' \in [Server -> Seq(Value)]
    BY <1>0 DEF LogTypeOK, restartFrom
  <2> QED BY <2>1, <2>2, <2>3 DEF LogTypeOK
<1>3. ApplyTypeOK'
  <2>1. <<>> \in Seq(ApplyMsg)
    OBVIOUS
  <2> QED BY <1>0, <2>1 DEF ApplyTypeOK, restartFrom
<1>4. LeadTypeOK'
  BY DEF LeadTypeOK, restartFrom
<1>5. NetTypeOK'
  BY DEF NetTypeOK, restartFrom
<1> QED BY <1>1, <1>2, <1>3, <1>4, <1>5

\* A restart keeps the types.
LEMMA RestartType ==
  ASSUME TypeOK, NEW s \in Server, Restart(s)
  PROVE  TypeOK'
<1>1. disk[s] \in Persisted /\ Len(disk[s].log) >= 1
  BY DEF TypeOK, LogTypeOK
<1> QED BY <1>1, RestartFromType DEF Restart

\* A crash inside a handler keeps the types: the first persist() wrote a whole record.
LEMMA CrashInHandlerType ==
  ASSUME TypeOK, NEW m \in voteReq \cup appReq \cup snapReq, crashInHandler(m)
  PROVE  TypeOK'
<1> DEFINE d == [disk[m.dst] EXCEPT !.currentTerm = m.term, !.votedFor = Nil]
<1>1. m.dst \in Server /\ m.term \in Nat
  BY DEF TypeOK, NetTypeOK, RequestVoteArgs, AppendEntriesArgs, InstallSnapshotArgs
<1>2. disk[m.dst] \in Persisted /\ Len(disk[m.dst].log) >= 1
  BY <1>1 DEF TypeOK, LogTypeOK
<1>3. d \in Persisted /\ Len(d.log) >= 1
  BY <1>1, <1>2 DEF Persisted
<1>4. restartFrom(m.dst, d) /\ voteReq' \subseteq voteReq
  BY DEF crashInHandler
<1> HIDE DEF d
<1> QED BY <1>1, <1>3, <1>4, RestartFromType

-----------------------------------------------------------------------------
\* What is on disk is what is in memory

\* A step that touches neither persistent state nor disk keeps them equal.
LEMMA PersistKept ==
  ASSUME PersistComplete, UNCHANGED <<currentTerm, votedFor, logVars, disk>>
  PROVE  PersistComplete'
BY DEF PersistComplete, logVars

\* persist(s) in a step that touches no other peer's persistent state
LEMMA PersistDone ==
  ASSUME TypeOK, PersistComplete, NEW s \in Server, persist(s),
         \A p \in Server : p # s =>
           /\ currentTerm'[p] = currentTerm[p] /\ votedFor'[p] = votedFor[p]
           /\ log'[p] = log[p] /\ lastIncludeIndex'[p] = lastIncludeIndex[p]
           /\ lastIncludeTerm'[p] = lastIncludeTerm[p] /\ snapshot'[p] = snapshot[p]
  PROVE  PersistComplete'
<1> DEFINE d == [currentTerm |-> currentTerm'[s], votedFor |-> votedFor'[s],
              log |-> log'[s], lastIncludeIndex |-> lastIncludeIndex'[s],
              lastIncludeTerm |-> lastIncludeTerm'[s], snapshot |-> snapshot'[s]]
<1>1. disk' = [disk EXCEPT ![s] = d]
  BY DEF persist
<1>2. ASSUME NEW p \in Server, p # s
      PROVE  disk'[p] = disk[p]
  BY <1>1, <1>2
<1>3. disk'[s] = d
  BY <1>1 DEF TypeOK, LogTypeOK
<1> QED BY <1>2, <1>3 DEF PersistComplete

\* Following a leader persists the term exactly when the term is new; otherwise term
\* and vote are what the disk already has.
LEMMA PersistTermDone ==
  ASSUME TypeOK, PersistComplete, NEW s \in Server, NEW t \in Nat, t >= currentTerm[s],
         follow(s, t), UNCHANGED logVars, persistTerm(s, t)
  PROVE  PersistComplete'
<1>1. CASE t > currentTerm[s]
  <2>1. persist(s)
    BY <1>1 DEF persistTerm
  <2> QED BY <2>1, PersistDone DEF follow, logVars, TypeOK, ElectTypeOK
<1>2. CASE ~ (t > currentTerm[s])
  <2>1. t = currentTerm[s]
    BY <1>2 DEF TypeOK, ElectTypeOK
  <2>2. UNCHANGED <<currentTerm, votedFor, disk>>
    BY <1>2, <2>1 DEF follow, votedForAt, persistTerm, TypeOK, ElectTypeOK
  <2> QED BY <2>2, PersistKept
<1> QED BY <1>1, <1>2

\* Stepping down persists the new term.
LEMMA StepDownPersists ==
  ASSUME TypeOK, PersistComplete, NEW s \in Server, NEW t \in Nat, stepDown(s, t)
  PROVE  PersistComplete'
BY PersistDone DEF stepDown, logVars, TypeOK, ElectTypeOK

\* After a restart memory is what the disk holds.
LEMMA RestartPersists ==
  ASSUME TypeOK, PersistComplete, NEW s \in Server, NEW d \in Persisted, restartFrom(s, d)
  PROVE  PersistComplete'
<1>1. d = [currentTerm |-> d.currentTerm, votedFor |-> d.votedFor, log |-> d.log,
           lastIncludeIndex |-> d.lastIncludeIndex,
           lastIncludeTerm |-> d.lastIncludeTerm, snapshot |-> d.snapshot]
  BY DEF Persisted
<1>2. /\ disk'[s] = d /\ currentTerm'[s] = d.currentTerm /\ votedFor'[s] = d.votedFor
      /\ log'[s] = d.log /\ lastIncludeIndex'[s] = d.lastIncludeIndex
      /\ lastIncludeTerm'[s] = d.lastIncludeTerm /\ snapshot'[s] = d.snapshot
  BY DEF restartFrom, TypeOK, ElectTypeOK, LogTypeOK
<1>3. ASSUME NEW p \in Server, p # s
      PROVE  /\ disk'[p] = disk[p] /\ currentTerm'[p] = currentTerm[p]
             /\ votedFor'[p] = votedFor[p] /\ log'[p] = log[p]
             /\ lastIncludeIndex'[p] = lastIncludeIndex[p]
             /\ lastIncludeTerm'[p] = lastIncludeTerm[p] /\ snapshot'[p] = snapshot[p]
  BY <1>3 DEF restartFrom, TypeOK, ElectTypeOK, LogTypeOK
<1> QED BY <1>1, <1>2, <1>3 DEF PersistComplete

\* No step of raft.go leaves memory and disk apart once the lock is released.
LEMMA PersistStep ==
  ASSUME TypeOK, PersistComplete, Next
  PROVE  PersistComplete'
<1>1. ASSUME NEW s \in Server, NEW sent \in SUBSET Server, startElection(s, sent)
      PROVE  PersistComplete'
  BY <1>1, PersistDone DEF startElection, logVars, TypeOK, ElectTypeOK
<1>2. ASSUME NEW m \in voteReq, RequestVote(m) PROVE PersistComplete'
  <2>1. m.dst \in Server /\ m.term \in Nat
    BY DEF TypeOK, NetTypeOK, RequestVoteArgs
  <2>2. CASE persist(m.dst)
    BY <1>2, <2>1, <2>2, PersistDone DEF RequestVote, logVars, TypeOK, ElectTypeOK
  <2>3. CASE ~ (canGrant(m.dst, m) \/ m.term > currentTerm[m.dst])
    <3>1. UNCHANGED <<currentTerm, votedFor, disk>>
      BY <1>2, <2>1, <2>3 DEF RequestVote, MaxOf, votedForAt, TypeOK, ElectTypeOK
    <3> QED BY <1>2, <3>1, PersistKept DEF RequestVote
  <2> QED BY <1>2, <2>2, <2>3 DEF RequestVote
<1>3. ASSUME NEW m \in voteRep, handleVoteReply(m) PROVE PersistComplete'
  <2>1. m.dst \in Server /\ m.term \in Nat
    BY DEF TypeOK, NetTypeOK, RequestVoteReply
  <2>2. CASE stepDown(m.dst, m.term)
    BY <2>1, <2>2, StepDownPersists
  <2>3. CASE UNCHANGED <<currentTerm, votedFor, logVars, disk>>
    BY <2>3, PersistKept
  <2> QED BY <1>3, <2>2, <2>3 DEF handleVoteReply, electVars
<1>4. ASSUME NEW s \in Server, NEW c \in Command, Start(s, c) PROVE PersistComplete'
  BY <1>4, PersistDone DEF Start, electVars, TypeOK, LogTypeOK
<1>5. ASSUME NEW s \in Server, NEW p \in Server, sendInstallSnapshot(s, p) PROVE PersistComplete'
  BY <1>5, PersistKept DEF sendInstallSnapshot, electVars
<1>6. ASSUME NEW s \in Server, NEW p \in Server, sendAppendEntries(s, p) PROVE PersistComplete'
  BY <1>6, PersistKept DEF sendAppendEntries, electVars
<1>7. ASSUME NEW m \in appReq, AppendEntries(m) PROVE PersistComplete'
  <2>1. m.dst \in Server /\ m.term \in Nat /\ currentTerm[m.dst] \in Nat
    BY DEF TypeOK, NetTypeOK, AppendEntriesArgs, ElectTypeOK
  <2>2. CASE rejectStale(m)
    BY <2>2, PersistKept DEF rejectStale, electVars
  <2>3. CASE rejectShort(m)
    BY <2>1, <2>3, PersistTermDone DEF rejectShort
  <2>4. CASE rejectMismatch(m)
    BY <2>1, <2>4, PersistTermDone DEF rejectMismatch
  <2>5. CASE accept(m)
    <3>1. CASE m.entries = <<>>
      <4>1. UNCHANGED logVars /\ persistTerm(m.dst, m.term)
        BY <2>5, <3>1 DEF accept, logVars
      <4> QED BY <2>1, <2>5, <4>1, PersistTermDone DEF accept
    <3>2. CASE m.entries # <<>>
      <4>1. persist(m.dst) /\ UNCHANGED <<lastIncludeIndex, lastIncludeTerm, snapshot>>
        BY <2>5, <3>2 DEF accept
      <4>2. PICK k \in keepUpTo(m) : log' = [log EXCEPT ![m.dst] = extended(m, k)]
        BY <2>5, <3>2 DEF accept
      <4>3. ASSUME NEW p \in Server, p # m.dst
            PROVE  log'[p] = log[p] /\ currentTerm'[p] = currentTerm[p] /\ votedFor'[p] = votedFor[p]
        BY <2>5, <4>2, <4>3 DEF accept, follow, TypeOK, ElectTypeOK, LogTypeOK
      <4> QED BY <2>1, <4>1, <4>3, PersistDone
    <3> QED BY <3>1, <3>2
  <2> QED BY <1>7, <2>2, <2>3, <2>4, <2>5 DEF AppendEntries
<1>8. ASSUME NEW m \in appRep, handleAppendReply(m) PROVE PersistComplete'
  <2>1. m.dst \in Server /\ m.term \in Nat
    BY DEF TypeOK, NetTypeOK, AppendEntriesReply
  <2>2. CASE stepDown(m.dst, m.term)
    BY <2>1, <2>2, StepDownPersists
  <2>3. CASE UNCHANGED <<electVars, logVars, disk>>
    BY <2>3, PersistKept DEF electVars
  <2> QED BY <1>8, <2>2, <2>3 DEF handleAppendReply
<1>9. ASSUME NEW m \in snapReq, InstallSnapshot(m) PROVE PersistComplete'
  <2>1. m.dst \in Server /\ m.term \in Nat /\ currentTerm[m.dst] \in Nat
    BY DEF TypeOK, NetTypeOK, InstallSnapshotArgs, ElectTypeOK
  <2>2. CASE rejectInstall(m)
    BY <2>2, PersistKept DEF rejectInstall, electVars
  <2>3. CASE skipInstall(m)
    BY <2>1, <2>3, PersistTermDone DEF skipInstall
  <2>4. CASE install(m)
    <3>1. ASSUME NEW p \in Server, p # m.dst
          PROVE  /\ currentTerm'[p] = currentTerm[p] /\ votedFor'[p] = votedFor[p]
                 /\ log'[p] = log[p] /\ lastIncludeIndex'[p] = lastIncludeIndex[p]
                 /\ lastIncludeTerm'[p] = lastIncludeTerm[p] /\ snapshot'[p] = snapshot[p]
      BY <2>4, <3>1 DEF install, follow, TypeOK, ElectTypeOK, LogTypeOK
    <3> QED BY <2>1, <2>4, <3>1, PersistDone DEF install
  <2> QED BY <1>9, <2>2, <2>3, <2>4 DEF InstallSnapshot
<1>10. ASSUME NEW m \in snapRep, handleInstallReply(m) PROVE PersistComplete'
  <2>1. m.dst \in Server /\ m.term \in Nat
    BY DEF TypeOK, NetTypeOK, InstallSnapshotReply
  <2>2. CASE stepDown(m.dst, m.term)
    BY <2>1, <2>2, StepDownPersists
  <2>3. CASE UNCHANGED <<electVars, logVars, disk>>
    BY <2>3, PersistKept DEF electVars
  <2> QED BY <1>10, <2>2, <2>3 DEF handleInstallReply
<1>11. ASSUME NEW s \in Server, applier(s) PROVE PersistComplete'
  BY <1>11, PersistKept DEF applier, electVars
<1>12. ASSUME NEW s \in Server, deliver(s) PROVE PersistComplete'
  BY <1>12, PersistKept DEF deliver, electVars
<1>13. ASSUME NEW s \in Server, Snapshot(s) PROVE PersistComplete'
  BY <1>13, PersistDone DEF Snapshot, electVars, TypeOK, LogTypeOK
<1>14. ASSUME NEW s \in Server, Restart(s) PROVE PersistComplete'
  BY <1>14, RestartPersists DEF Restart, TypeOK, LogTypeOK
<1>15. ASSUME NEW m \in voteReq \cup appReq \cup snapReq, crashInHandler(m)
       PROVE  PersistComplete'
  <2> DEFINE d == [disk[m.dst] EXCEPT !.currentTerm = m.term, !.votedFor = Nil]
  <2>1. m.dst \in Server /\ m.term \in Nat
    BY DEF TypeOK, NetTypeOK, RequestVoteArgs, AppendEntriesArgs, InstallSnapshotArgs
  <2>2. d \in Persisted
    BY <2>1 DEF TypeOK, LogTypeOK, Persisted
  <2>3. restartFrom(m.dst, d)
    BY <1>15 DEF crashInHandler
  <2> HIDE DEF d
  <2> QED BY <2>1, <2>2, <2>3, RestartPersists
<1> QED BY <1>1, <1>2, <1>3, <1>4, <1>5, <1>6, <1>7, <1>8, <1>9, <1>10, <1>11, <1>12,
           <1>13, <1>14, <1>15 DEF Next

-----------------------------------------------------------------------------
\* Log, snapshots and service

\* How a step may move peer l: to a later term, back to following, from candidate
\* to leader, or on in the same role with a log that as leader it never cuts.
Advances(l) ==
  \/ currentTerm'[l] > currentTerm[l]
  \/ /\ currentTerm'[l] = currentTerm[l]
     /\ \/ state'[l] = "Follower"
        \/ state[l] = "Candidate"
        \/ state'[l] = state[l] /\ (state[l] = "Leader" => lastIndex(l)' >= lastIndex(l))

\* A peer the step does not touch advances trivially.
LEMMA AdvancesSame ==
  ASSUME TypeOK, NEW l \in Server, currentTerm'[l] = currentTerm[l], state'[l] = state[l],
         log'[l] = log[l], lastIncludeIndex'[l] = lastIncludeIndex[l]
  PROVE  Advances(l)
<1>1. lastIndex(l)' = lastIndex(l)
  BY DEF lastIndex
<1>2. lastIndex(l) \in Nat
  BY LastTypes DEF TypeOK
<1> QED BY <1>1, <1>2 DEF Advances

\* What a leader once covered it still covers after any step that only advances it.
LEMMA FitsKept ==
  ASSUME TypeOK, TypeOK', NEW l \in Server, NEW t \in Nat, NEW i \in Nat,
         Advances(l), Fits(l, t, i)
  PROVE  Fits(l, t, i)'
<1>1. currentTerm[l] \in Nat /\ currentTerm'[l] \in Nat /\ lastIndex(l) \in Nat /\ lastIndex(l)' \in Nat
  <2>1. lastIndex(l)' \in Nat
    <3>1. log'[l] \in Seq(Entry) /\ Len(log'[l]) >= 1 /\ lastIncludeIndex'[l] \in Nat
      BY DEF TypeOK, LogTypeOK
    <3> QED BY <3>1 DEF lastIndex
  <2> QED BY <2>1, LastTypes DEF TypeOK, ElectTypeOK
<1>2. state[l] \in {"Follower", "Candidate", "Leader"}
  BY DEF TypeOK, ElectTypeOK
<1> QED BY <1>1, <1>2 DEF Fits, Advances

\* Stepping down moves to a later term.
LEMMA AdvancesStepDown ==
  ASSUME TypeOK, NEW s \in Server, NEW t \in Nat, t > currentTerm[s], stepDown(s, t),
         NEW l \in Server
  PROVE  Advances(l)
<1>1. CASE l = s
  BY <1>1 DEF stepDown, Advances, TypeOK, ElectTypeOK
<1>2. CASE l # s
  BY <1>2, AdvancesSame DEF stepDown, logVars, TypeOK, ElectTypeOK
<1> QED BY <1>1, <1>2

\* A peer that follows keeps, or raises, its term; nobody else moves
LEMMA AdvancesFollow ==
  ASSUME TypeOK, NEW s \in Server, NEW t \in Nat, t >= currentTerm[s], follow(s, t),
         NEW l \in Server, l # s => log'[l] = log[l] /\ lastIncludeIndex'[l] = lastIncludeIndex[l]
  PROVE  Advances(l)
<1>1. CASE l = s
  BY <1>1 DEF follow, Advances, TypeOK, ElectTypeOK
<1>2. CASE l # s
  BY <1>2, AdvancesSame DEF follow, TypeOK, ElectTypeOK
<1> QED BY <1>1, <1>2

\* A restart leaves a follower of the same or a later term.
LEMMA AdvancesRestart ==
  ASSUME TypeOK, NEW s \in Server, NEW d \in Persisted, d.currentTerm >= currentTerm[s],
         restartFrom(s, d), NEW l \in Server
  PROVE  Advances(l)
<1>0. d.currentTerm \in Nat
  BY DEF Persisted
<1>1. CASE l = s
  BY <1>0, <1>1 DEF restartFrom, Advances, TypeOK, ElectTypeOK
<1>2. CASE l # s
  BY <1>2, AdvancesSame DEF restartFrom, TypeOK, ElectTypeOK, LogTypeOK
<1> QED BY <1>1, <1>2

\* Compaction does not move the end of the log
LEMMA SnapshotLastIndex ==
  ASSUME TypeOK, NEW s \in Server, Snapshot(s)
  PROVE  lastIndex(s)' = lastIndex(s)
<1> DEFINE i == Len(app[s])
<1>1. /\ log[s] \in Seq(Entry) /\ Len(log[s]) \in Nat /\ lastIncludeIndex[s] \in Nat /\ i \in Nat
      /\ log \in [Server -> Seq(Entry)] /\ lastIncludeIndex \in [Server -> Nat]
  BY DEF TypeOK, LogTypeOK, ApplyTypeOK
<1>2. lastIncludeIndex[s] < i /\ i <= lastIndex(s)
  BY DEF Snapshot
<1>3. logIdx(s, i) \in 1 .. Len(log[s])
  BY <1>1, <1>2, EntryType DEF TypeOK
<1>4. Len(truncateFront(s, i)) = Len(log[s]) - logIdx(s, i) + 1
  BY <1>1, <1>3, PartType DEF truncateFront
<1>5. Len(log'[s]) = Len(log[s]) - (i - lastIncludeIndex[s])
  <2>1. log'[s] = truncateFront(s, i)
    BY <1>1 DEF Snapshot
  <2> QED BY <1>1, <1>4, <2>1 DEF logIdx
<1>6. lastIncludeIndex'[s] = i
  BY <1>1 DEF Snapshot
<1> QED BY <1>1, <1>5, <1>6 DEF lastIndex

\* Appending moves it by one
LEMMA StartLastIndex ==
  ASSUME TypeOK, NEW s \in Server, NEW c \in Command, Start(s, c)
  PROVE  lastIndex(s)' = lastIndex(s) + 1
<1>1. log[s] \in Seq(Entry) /\ Len(log[s]) \in Nat /\ lastIncludeIndex[s] \in Nat
  BY DEF TypeOK, LogTypeOK
<1>2. log'[s] = Append(log[s], [term |-> currentTerm[s], cmd |-> c])
  BY DEF Start, TypeOK, LogTypeOK
<1>3. [term |-> currentTerm[s], cmd |-> c] \in Entry
  BY DEF Entry, TypeOK, ElectTypeOK
<1>4. Len(log'[s]) = Len(log[s]) + 1
  BY <1>1, <1>2, <1>3, AppendProperties
<1>5. lastIncludeIndex'[s] = lastIncludeIndex[s]
  BY DEF Start
<1> QED BY <1>1, <1>4, <1>5 DEF lastIndex

\* Every step of raft.go advances every peer: in particular no leader cuts its log.
LEMMA AdvancesStep ==
  ASSUME TypeOK, PersistComplete, Next, NEW l \in Server
  PROVE  Advances(l)
<1>1. ASSUME NEW s \in Server, NEW sent \in SUBSET Server, startElection(s, sent) PROVE Advances(l)
  <2>1. CASE l = s
    BY <1>1, <2>1 DEF startElection, Advances, TypeOK, ElectTypeOK
  <2>2. CASE l # s
    BY <1>1, <2>2, AdvancesSame DEF startElection, logVars, TypeOK, ElectTypeOK
  <2> QED BY <2>1, <2>2
<1>2. ASSUME NEW m \in voteReq, RequestVote(m) PROVE Advances(l)
  <2>1. m.dst \in Server /\ m.term \in Nat
    BY DEF TypeOK, NetTypeOK, RequestVoteArgs
  <2>2. CASE l = m.dst /\ (canGrant(m.dst, m) \/ m.term > currentTerm[m.dst])
    BY <1>2, <2>1, <2>2 DEF RequestVote, Advances, MaxOf, TypeOK, ElectTypeOK
  <2>3. CASE l # m.dst \/ ~ (canGrant(m.dst, m) \/ m.term > currentTerm[m.dst])
    <3>1. currentTerm'[l] = currentTerm[l] /\ state'[l] = state[l]
      BY <1>2, <2>1, <2>3 DEF RequestVote, MaxOf, TypeOK, ElectTypeOK
    <3> QED BY <1>2, <3>1, AdvancesSame DEF RequestVote, logVars
  <2> QED BY <2>2, <2>3
<1>3. ASSUME NEW m \in voteRep, handleVoteReply(m) PROVE Advances(l)
  <2>1. m.dst \in Server /\ m.term \in Nat
    BY DEF TypeOK, NetTypeOK, RequestVoteReply
  <2>2. CASE m.term > currentTerm[m.dst] /\ stepDown(m.dst, m.term)
    BY <2>1, <2>2, AdvancesStepDown
  <2>3. CASE UNCHANGED <<electVars, logVars>>
    BY <2>3, AdvancesSame DEF electVars, logVars
  <2>4. CASE /\ countable(m.dst, m)
             /\ becomeLeader(m.dst) \/ UNCHANGED state
             /\ UNCHANGED <<currentTerm, logVars>>
    <3>1. CASE l = m.dst
      BY <2>4, <3>1 DEF countable, Advances
    <3>2. CASE l # m.dst
      BY <2>4, <3>2, AdvancesSame DEF becomeLeader, logVars, TypeOK, ElectTypeOK
    <3> QED BY <3>1, <3>2
  <2> QED BY <1>3, <2>2, <2>3, <2>4 DEF handleVoteReply
<1>4. ASSUME NEW s \in Server, NEW c \in Command, Start(s, c) PROVE Advances(l)
  <2>1. CASE l = s
    <3>1. lastIndex(s)' >= lastIndex(s)
      BY <1>4, StartLastIndex, LastTypes DEF TypeOK
    <3> QED BY <1>4, <2>1, <3>1 DEF Start, electVars, Advances
  <2>2. CASE l # s
    BY <1>4, <2>2, AdvancesSame DEF Start, electVars, TypeOK, LogTypeOK
  <2> QED BY <2>1, <2>2
<1>5. ASSUME NEW s \in Server, NEW p \in Server, sendInstallSnapshot(s, p) PROVE Advances(l)
  BY <1>5, AdvancesSame DEF sendInstallSnapshot, electVars, logVars
<1>6. ASSUME NEW s \in Server, NEW p \in Server, sendAppendEntries(s, p) PROVE Advances(l)
  BY <1>6, AdvancesSame DEF sendAppendEntries, electVars, logVars
<1>7. ASSUME NEW m \in appReq, AppendEntries(m) PROVE Advances(l)
  <2>1. m.dst \in Server /\ m.term \in Nat
    BY DEF TypeOK, NetTypeOK, AppendEntriesArgs
  <2>2. CASE rejectStale(m)
    BY <2>2, AdvancesSame DEF rejectStale, electVars, logVars
  <2>3. CASE rejectShort(m)
    BY <2>1, <2>3, AdvancesFollow DEF rejectShort, logVars
  <2>4. CASE rejectMismatch(m)
    BY <2>1, <2>4, AdvancesFollow DEF rejectMismatch, logVars
  <2>5. CASE accept(m)
    <3>1. l # m.dst => log'[l] = log[l]
      BY <2>1, <2>5 DEF accept, TypeOK, LogTypeOK
    <3> QED BY <2>1, <2>5, <3>1, AdvancesFollow DEF accept
  <2> QED BY <1>7, <2>2, <2>3, <2>4, <2>5 DEF AppendEntries
<1>8. ASSUME NEW m \in appRep, handleAppendReply(m) PROVE Advances(l)
  <2>1. m.dst \in Server /\ m.term \in Nat
    BY DEF TypeOK, NetTypeOK, AppendEntriesReply
  <2>2. CASE m.term > currentTerm[m.dst] /\ stepDown(m.dst, m.term)
    BY <2>1, <2>2, AdvancesStepDown
  <2>3. CASE UNCHANGED <<electVars, logVars>>
    BY <2>3, AdvancesSame DEF electVars, logVars
  <2> QED BY <1>8, <2>2, <2>3 DEF handleAppendReply
<1>9. ASSUME NEW m \in snapReq, InstallSnapshot(m) PROVE Advances(l)
  <2>1. m.dst \in Server /\ m.term \in Nat
    BY DEF TypeOK, NetTypeOK, InstallSnapshotArgs
  <2>2. CASE rejectInstall(m)
    BY <2>2, AdvancesSame DEF rejectInstall, electVars, logVars
  <2>3. CASE skipInstall(m)
    BY <2>1, <2>3, AdvancesFollow DEF skipInstall, logVars
  <2>4. CASE install(m)
    <3>1. l # m.dst => log'[l] = log[l] /\ lastIncludeIndex'[l] = lastIncludeIndex[l]
      BY <2>1, <2>4 DEF install, TypeOK, LogTypeOK
    <3> QED BY <2>1, <2>4, <3>1, AdvancesFollow DEF install
  <2> QED BY <1>9, <2>2, <2>3, <2>4 DEF InstallSnapshot
<1>10. ASSUME NEW m \in snapRep, handleInstallReply(m) PROVE Advances(l)
  <2>1. m.dst \in Server /\ m.term \in Nat
    BY DEF TypeOK, NetTypeOK, InstallSnapshotReply
  <2>2. CASE m.term > currentTerm[m.dst] /\ stepDown(m.dst, m.term)
    BY <2>1, <2>2, AdvancesStepDown
  <2>3. CASE UNCHANGED <<electVars, logVars>>
    BY <2>3, AdvancesSame DEF electVars, logVars
  <2> QED BY <1>10, <2>2, <2>3 DEF handleInstallReply
<1>11. ASSUME NEW s \in Server, applier(s) PROVE Advances(l)
  BY <1>11, AdvancesSame DEF applier, electVars, logVars
<1>12. ASSUME NEW s \in Server, deliver(s) PROVE Advances(l)
  BY <1>12, AdvancesSame DEF deliver, electVars, logVars
<1>13. ASSUME NEW s \in Server, Snapshot(s) PROVE Advances(l)
  <2>1. CASE l = s
    <3>1. lastIndex(s)' >= lastIndex(s)
      BY <1>13, SnapshotLastIndex, LastTypes DEF TypeOK
    <3> QED BY <1>13, <2>1, <3>1 DEF Snapshot, electVars, Advances
  <2>2. CASE l # s
    BY <1>13, <2>2, AdvancesSame DEF Snapshot, electVars, TypeOK, LogTypeOK
  <2> QED BY <2>1, <2>2
<1>14. ASSUME NEW s \in Server, Restart(s) PROVE Advances(l)
  <2>1. disk[s] \in Persisted /\ disk[s].currentTerm = currentTerm[s] /\ currentTerm[s] \in Nat
    BY DEF TypeOK, LogTypeOK, ElectTypeOK, PersistComplete
  <2> QED BY <1>14, <2>1, AdvancesRestart DEF Restart
<1>15. ASSUME NEW m \in voteReq \cup appReq \cup snapReq, crashInHandler(m) PROVE Advances(l)
  <2> DEFINE d == [disk[m.dst] EXCEPT !.currentTerm = m.term, !.votedFor = Nil]
  <2>1. m.dst \in Server /\ m.term \in Nat
    BY DEF TypeOK, NetTypeOK, RequestVoteArgs, AppendEntriesArgs, InstallSnapshotArgs
  <2>2. d \in Persisted /\ d.currentTerm = m.term
    BY <2>1 DEF TypeOK, LogTypeOK, Persisted
  <2>3. restartFrom(m.dst, d) /\ m.term >= currentTerm[m.dst]
    BY <1>15, <2>1 DEF crashInHandler, TypeOK, ElectTypeOK
  <2> HIDE DEF d
  <2> QED BY <2>1, <2>2, <2>3, AdvancesRestart
<1> QED BY <1>1, <1>2, <1>3, <1>4, <1>5, <1>6, <1>7, <1>8, <1>9, <1>10, <1>11, <1>12,
           <1>13, <1>14, <1>15 DEF Next

-----------------------------------------------------------------------------
\* Every message fits the leader it came from

\* What the replicator sends ends within the leader's log
LEMMA BatchFits ==
  ASSUME TypeOK, NextIndexInRange, NEW s \in Server, NEW p \in Server,
         sendAppendEntries(s, p), NEW m \in appReq', m \notin appReq
  PROVE  Fits(m.src, m.term, m.prevLogIndex + Len(m.entries))
<1> USE DEF TypeOK
<1> DEFINE next == nextIndex[s][p]
           hi == MinOf(lastIndex(s) + 1, next + maxBatchSize)
           es == entries(s, next, hi)
<1>1. /\ next \in Nat /\ next <= lastIndex(s) + 1 /\ lastIndex(s) \in Nat
      /\ lastIncludeIndex[s] \in Nat /\ next > lastIncludeIndex[s]
  BY LastTypes DEF NextIndexInRange, sendAppendEntries, LeadTypeOK, LogTypeOK
<1>2. hi \in Nat /\ hi <= lastIndex(s) + 1 /\ next <= hi
  BY <1>1, BoundsAssumption DEF MinOf
<1>3. Len(es) = hi - next
  BY <1>1, <1>2, EntriesType
<1>4. m.src = s /\ m.term = currentTerm[s] /\ m.prevLogIndex = next - 1 /\ m.entries = es
  BY DEF sendAppendEntries
<1>5. m.prevLogIndex + Len(m.entries) <= lastIndex(s)
  <2> HIDE DEF es, hi, next
  <2> QED BY <1>1, <1>2, <1>3, <1>4
<1>6. state[s] = "Leader" /\ currentTerm[s] \in Nat
  BY DEF sendAppendEntries, ElectTypeOK
<1> HIDE DEF es, hi, next
<1> QED BY <1>4, <1>5, <1>6 DEF Fits

\* A snapshot that is sent lies within the log of the leader that sends it.
LEMMA SnapshotFits ==
  ASSUME TypeOK, NEW s \in Server, NEW p \in Server,
         sendInstallSnapshot(s, p), NEW m \in snapReq', m \notin snapReq
  PROVE  Fits(m.src, m.term, m.lastIncludeIndex)
<1>1. m.src = s /\ m.term = currentTerm[s] /\ m.lastIncludeIndex = lastIncludeIndex[s]
  BY DEF sendInstallSnapshot
<1>2. state[s] = "Leader" /\ currentTerm[s] \in Nat
  BY DEF sendInstallSnapshot, TypeOK, ElectTypeOK
<1>3. lastIncludeIndex[s] <= lastIndex(s)
  BY LastTypes DEF TypeOK, LogTypeOK
<1> QED BY <1>1, <1>2, <1>3 DEF Fits

\* A reply speaks for the request it answers
LEMMA AppendReplyEchoes ==
  ASSUME NEW m \in appReq, AppendEntries(m), NEW r \in appRep', r \notin appRep
  PROVE  /\ r.dst = m.src /\ r.argTerm = m.term
         /\ r.matched = m.prevLogIndex + Len(m.entries)
<1>1. CASE rejectStale(m)
  BY <1>1 DEF rejectStale, SendReply, appendReply
<1>2. CASE rejectShort(m)
  BY <1>2 DEF rejectShort, SendReply, appendReply
<1>3. CASE rejectMismatch(m)
  BY <1>3 DEF rejectMismatch, SendReply, appendReply
<1>4. CASE accept(m)
  BY <1>4 DEF accept, SendReply, appendReply
<1> QED BY <1>1, <1>2, <1>3, <1>4 DEF AppendEntries

\* The reply to an InstallSnapshot request carries what the request covered.
LEMMA InstallReplyEchoes ==
  ASSUME NEW m \in snapReq, InstallSnapshot(m), NEW r \in snapRep', r \notin snapRep
  PROVE  r.dst = m.src /\ r.argTerm = m.term /\ r.matched = m.lastIncludeIndex
<1>1. CASE rejectInstall(m)
  BY <1>1 DEF rejectInstall, SendReply, installReply
<1>2. CASE skipInstall(m)
  BY <1>2 DEF skipInstall, SendReply, installReply
<1>3. CASE install(m)
  BY <1>3 DEF install, SendReply, installReply
<1> QED BY <1>1, <1>2, <1>3 DEF InstallSnapshot

\* Who puts a replication message into the network
LEMMA Senders ==
  ASSUME Next
  PROVE  /\ \/ appReq' \subseteq appReq
            \/ \E s, p \in Server : sendAppendEntries(s, p)
         /\ \/ snapReq' \subseteq snapReq
            \/ \E s, p \in Server : sendInstallSnapshot(s, p)
         /\ \/ appRep' \subseteq appRep
            \/ \E m \in appReq : AppendEntries(m)
         /\ \/ snapRep' \subseteq snapRep
            \/ \E m \in snapReq : InstallSnapshot(m)
<1>1. ASSUME NEW s \in Server, NEW sent, startElection(s, sent)
      PROVE  UNCHANGED <<appReq, snapReq, appRep, snapRep>>
  BY <1>1 DEF startElection, appNet, snapNet
<1>2. ASSUME NEW m \in voteReq, RequestVote(m) PROVE UNCHANGED <<appReq, snapReq, appRep, snapRep>>
  BY <1>2 DEF RequestVote, appNet, snapNet
<1>3. ASSUME NEW m \in voteRep, handleVoteReply(m) PROVE UNCHANGED <<appReq, snapReq, appRep, snapRep>>
  BY <1>3 DEF handleVoteReply, appNet, snapNet
<1>4. ASSUME NEW s \in Server, NEW c \in Command, Start(s, c)
      PROVE  UNCHANGED <<appReq, snapReq, appRep, snapRep>>
  BY <1>4 DEF Start, appNet, snapNet
<1>5. ASSUME NEW s \in Server, NEW p \in Server, sendInstallSnapshot(s, p)
      PROVE  UNCHANGED <<appReq, appRep, snapRep>>
  BY <1>5 DEF sendInstallSnapshot, appNet
<1>6. ASSUME NEW s \in Server, NEW p \in Server, sendAppendEntries(s, p)
      PROVE  UNCHANGED <<appRep, snapReq, snapRep>>
  BY <1>6 DEF sendAppendEntries, snapNet
<1>7. ASSUME NEW m \in appReq, AppendEntries(m)
      PROVE  appReq' \subseteq appReq /\ UNCHANGED <<snapReq, snapRep>>
  BY <1>7 DEF AppendEntries, Receive, snapNet
<1>8. ASSUME NEW m \in appRep, handleAppendReply(m)
      PROVE  appRep' \subseteq appRep /\ UNCHANGED <<appReq, snapReq, snapRep>>
  BY <1>8 DEF handleAppendReply, Receive, snapNet
<1>9. ASSUME NEW m \in snapReq, InstallSnapshot(m)
      PROVE  snapReq' \subseteq snapReq /\ UNCHANGED <<appReq, appRep>>
  BY <1>9 DEF InstallSnapshot, Receive, appNet
<1>10. ASSUME NEW m \in snapRep, handleInstallReply(m)
       PROVE  snapRep' \subseteq snapRep /\ UNCHANGED <<snapReq, appReq, appRep>>
  BY <1>10 DEF handleInstallReply, Receive, appNet
<1>11. ASSUME NEW s \in Server, applier(s) \/ deliver(s) \/ Snapshot(s)
       PROVE  UNCHANGED <<appReq, snapReq, appRep, snapRep>>
  BY <1>11 DEF applier, deliver, Snapshot, appNet, snapNet
<1>12. ASSUME NEW s, NEW d, restartFrom(s, d)
       PROVE  /\ UNCHANGED <<appReq, snapReq>>
              /\ appRep' \subseteq appRep /\ snapRep' \subseteq snapRep
  BY <1>12 DEF restartFrom
<1>13. ASSUME NEW s \in Server, Restart(s)
       PROVE  /\ UNCHANGED <<appReq, snapReq>>
              /\ appRep' \subseteq appRep /\ snapRep' \subseteq snapRep
  BY <1>12, <1>13 DEF Restart
<1>14. ASSUME NEW m, crashInHandler(m)
       PROVE  /\ UNCHANGED <<appReq, snapReq>>
              /\ appRep' \subseteq appRep /\ snapRep' \subseteq snapRep
  BY <1>12, <1>14 DEF crashInHandler
<1> QED BY <1>1, <1>2, <1>3, <1>4, <1>5, <1>6, <1>7, <1>8, <1>9, <1>10, <1>11,
           <1>13, <1>14 DEF Next

\* Requests and replies go on to cover only what their leader has, whatever delay
\* they meet in the network.
LEMMA MessagesFitStep ==
  ASSUME TypeOK, TypeOK', PersistComplete, NextIndexInRange, MessagesFit, Next
  PROVE  MessagesFit'
<1>1. ASSUME NEW m \in appReq' PROVE Fits(m.src, m.term, m.prevLogIndex + Len(m.entries))'
  <2>1. Fits(m.src, m.term, m.prevLogIndex + Len(m.entries))
    <3>1. CASE m \in appReq
      BY <3>1 DEF MessagesFit
    <3>2. CASE m \notin appReq
      BY <3>2, Senders, BatchFits
    <3> QED BY <3>1, <3>2
  <2>2. m.src \in Server /\ m.term \in Nat /\ m.prevLogIndex + Len(m.entries) \in Nat
    <3>1. m.src \in Server /\ m.term \in Nat /\ m.prevLogIndex \in Nat /\ m.entries \in Seq(Entry)
      BY DEF TypeOK, NetTypeOK, AppendEntriesArgs
    <3> QED BY <3>1
  <2> QED BY <2>1, <2>2, AdvancesStep, FitsKept
<1>2. ASSUME NEW r \in appRep' PROVE Fits(r.dst, r.argTerm, r.matched)'
  <2>1. Fits(r.dst, r.argTerm, r.matched)
    <3>1. CASE r \in appRep
      BY <3>1 DEF MessagesFit
    <3>2. CASE r \notin appRep
      <4>1. PICK m \in appReq : AppendEntries(m)
        BY <3>2, Senders
      <4> QED BY <3>2, <4>1, AppendReplyEchoes DEF MessagesFit
    <3> QED BY <3>1, <3>2
  <2>2. r.dst \in Server /\ r.argTerm \in Nat /\ r.matched \in Nat
    BY DEF TypeOK, NetTypeOK, AppendEntriesReply
  <2> QED BY <2>1, <2>2, AdvancesStep, FitsKept
<1>3. ASSUME NEW m \in snapReq' PROVE Fits(m.src, m.term, m.lastIncludeIndex)'
  <2>1. Fits(m.src, m.term, m.lastIncludeIndex)
    <3>1. CASE m \in snapReq
      BY <3>1 DEF MessagesFit
    <3>2. CASE m \notin snapReq
      BY <3>2, Senders, SnapshotFits
    <3> QED BY <3>1, <3>2
  <2>2. m.src \in Server /\ m.term \in Nat /\ m.lastIncludeIndex \in Nat
    BY DEF TypeOK, NetTypeOK, InstallSnapshotArgs
  <2> QED BY <2>1, <2>2, AdvancesStep, FitsKept
<1>4. ASSUME NEW r \in snapRep' PROVE Fits(r.dst, r.argTerm, r.matched)'
  <2>1. Fits(r.dst, r.argTerm, r.matched)
    <3>1. CASE r \in snapRep
      BY <3>1 DEF MessagesFit
    <3>2. CASE r \notin snapRep
      <4>1. PICK m \in snapReq : InstallSnapshot(m)
        BY <3>2, Senders
      <4> QED BY <3>2, <4>1, InstallReplyEchoes DEF MessagesFit
    <3> QED BY <3>1, <3>2
  <2>2. r.dst \in Server /\ r.argTerm \in Nat /\ r.matched \in Nat
    BY DEF TypeOK, NetTypeOK, InstallSnapshotReply
  <2> QED BY <2>1, <2>2, AdvancesStep, FitsKept
<1> QED BY <1>1, <1>2, <1>3, <1>4 DEF MessagesFit

-----------------------------------------------------------------------------
\* nextIndex and matchIndex stay within the leader's log

\* NextIndexInRange for one peer
RangeAt(l) ==
  state[l] = "Leader" =>
    \A p \in Server :
      /\ 1 <= nextIndex[l][p] /\ nextIndex[l][p] <= lastIndex(l) + 1
      /\ matchIndex[l][p] <= lastIndex(l)

\* A peer that does not lead has no nextIndex to keep in range.
LEMMA RangeFollower ==
  ASSUME NEW l \in Server, state'[l] # "Leader"
  PROVE  RangeAt(l)'
BY DEF RangeAt

\* A leader that keeps its indexes and does not cut its log
LEMMA RangeKept ==
  ASSUME TypeOK, NextIndexInRange, NEW l \in Server, state'[l] = state[l],
         nextIndex'[l] = nextIndex[l], matchIndex'[l] = matchIndex[l],
         lastIndex(l)' \in Nat, lastIndex(l)' >= lastIndex(l)
  PROVE  RangeAt(l)'
<1> SUFFICES ASSUME state'[l] = "Leader", NEW p \in Server
             PROVE  /\ 1 <= nextIndex[l][p] /\ nextIndex[l][p] <= lastIndex(l)' + 1
                    /\ matchIndex[l][p] <= lastIndex(l)'
  BY DEF RangeAt
<1>1. nextIndex[l][p] \in Nat /\ matchIndex[l][p] \in Nat /\ lastIndex(l) \in Nat
  BY LastTypes DEF TypeOK, LeadTypeOK
<1>2. /\ 1 <= nextIndex[l][p] /\ nextIndex[l][p] <= lastIndex(l) + 1
      /\ matchIndex[l][p] <= lastIndex(l)
  BY DEF NextIndexInRange
<1> QED BY <1>1, <1>2

\* A peer the step does not touch keeps its range.
LEMMA RangeSame ==
  ASSUME TypeOK, NextIndexInRange, NEW l \in Server, state'[l] = state[l],
         nextIndex'[l] = nextIndex[l], matchIndex'[l] = matchIndex[l],
         log'[l] = log[l], lastIncludeIndex'[l] = lastIncludeIndex[l]
  PROVE  RangeAt(l)'
<1>1. lastIndex(l)' = lastIndex(l) /\ lastIndex(l) \in Nat
  BY LastTypes DEF lastIndex, TypeOK
<1> QED BY <1>1, RangeKept

\* Stepping down keeps the ranges of the others.
LEMMA RangeStepDown ==
  ASSUME TypeOK, NextIndexInRange, NEW s \in Server, NEW t \in Nat, stepDown(s, t),
         NEW l \in Server
  PROVE  RangeAt(l)'
<1>1. CASE l = s
  BY <1>1, RangeFollower DEF stepDown, TypeOK, ElectTypeOK
<1>2. CASE l # s
  BY <1>2, RangeSame DEF stepDown, logVars, leadVars, TypeOK, ElectTypeOK
<1> QED BY <1>1, <1>2

\* Following a leader keeps the ranges of the others.
LEMMA RangeFollow ==
  ASSUME TypeOK, NextIndexInRange, NEW s \in Server, NEW t \in Nat, follow(s, t),
         UNCHANGED leadVars, NEW l \in Server,
         l # s => log'[l] = log[l] /\ lastIncludeIndex'[l] = lastIncludeIndex[l]
  PROVE  RangeAt(l)'
<1>1. CASE l = s
  BY <1>1, RangeFollower DEF follow, TypeOK, ElectTypeOK
<1>2. CASE l # s
  BY <1>2, RangeSame DEF follow, leadVars, TypeOK, ElectTypeOK
<1> QED BY <1>1, <1>2

\* An acknowledgement that fits the leader's log
LEMMA RangeAcknowledge ==
  ASSUME TypeOK, NextIndexInRange, NEW s \in Server, NEW p \in Server, NEW matched \in Nat,
         state[s] = "Leader", matched <= lastIndex(s), acknowledge(s, p, matched),
         UNCHANGED <<electVars, logVars>>, NEW l \in Server
  PROVE  RangeAt(l)'
<1>1. CASE l # s
  BY <1>1, RangeSame DEF acknowledge, electVars, logVars, TypeOK, LeadTypeOK
<1>2. CASE l = s
  <2> SUFFICES ASSUME NEW q \in Server
               PROVE  /\ 1 <= nextIndex'[s][q] /\ nextIndex'[s][q] <= lastIndex(s) + 1
                      /\ matchIndex'[s][q] <= lastIndex(s)
    BY <1>2 DEF RangeAt, lastIndex, logVars
  <2>1. /\ nextIndex[s][q] \in Nat /\ matchIndex[s][q] \in Nat /\ lastIndex(s) \in Nat
        /\ 1 <= nextIndex[s][q] /\ nextIndex[s][q] <= lastIndex(s) + 1
        /\ matchIndex[s][q] <= lastIndex(s)
    BY LastTypes DEF TypeOK, LeadTypeOK, NextIndexInRange
  <2>2. CASE q # p
    <3>1. nextIndex'[s][q] = nextIndex[s][q] /\ matchIndex'[s][q] = matchIndex[s][q]
      BY <2>2 DEF acknowledge, TypeOK, LeadTypeOK
    <3> QED BY <2>1, <3>1
  <2>3. CASE q = p
    <3>1. /\ nextIndex'[s][q] = MaxOf(matchIndex[s][q], matched) + 1
          /\ matchIndex'[s][q] = MaxOf(matchIndex[s][q], matched)
      BY <2>3 DEF acknowledge, TypeOK, LeadTypeOK
    <3> QED BY <2>1, <3>1 DEF MaxOf
  <2> QED BY <2>2, <2>3
<1> QED BY <1>1, <1>2

\* The clamp keeps nextIndex inside the log however far the back-up fell (raft.go:664-669).
LEMMA RangeBackup ==
  ASSUME TypeOK, NextIndexInRange, NEW s \in Server, NEW p \in Server, NEW x \in Int,
         nextIndex' = [nextIndex EXCEPT ![s][p] = clamp(s, x)], UNCHANGED matchIndex,
         UNCHANGED <<electVars, logVars>>, NEW l \in Server
  PROVE  RangeAt(l)'
<1>1. CASE l # s
  BY <1>1, RangeSame DEF electVars, logVars, TypeOK, LeadTypeOK
<1>2. CASE l = s
  <2> SUFFICES ASSUME state[s] = "Leader", NEW q \in Server
               PROVE  /\ 1 <= nextIndex'[s][q] /\ nextIndex'[s][q] <= lastIndex(s) + 1
                      /\ matchIndex[s][q] <= lastIndex(s)
    BY <1>2 DEF RangeAt, lastIndex, electVars, logVars
  <2>1. /\ nextIndex[s][q] \in Nat /\ lastIndex(s) \in Nat /\ lastIncludeIndex[s] \in Nat
        /\ 1 <= nextIndex[s][q] /\ nextIndex[s][q] <= lastIndex(s) + 1
        /\ matchIndex[s][q] <= lastIndex(s)
    BY LastTypes DEF TypeOK, LeadTypeOK, LogTypeOK, NextIndexInRange
  <2>2. CASE q # p
    <3>1. nextIndex'[s][q] = nextIndex[s][q]
      BY <2>2 DEF TypeOK, LeadTypeOK
    <3> QED BY <2>1, <3>1
  <2>3. CASE q = p
    <3>1. nextIndex'[s][q] = clamp(s, x)
      BY <2>3 DEF TypeOK, LeadTypeOK
    <3> QED BY <2>1, <3>1 DEF clamp, MaxOf, MinOf
  <2> QED BY <2>2, <2>3
<1> QED BY <1>1, <1>2

\* A new leader starts with nextIndex one past its log (becomeLeader).
LEMMA RangeBecomeLeader ==
  ASSUME TypeOK, NextIndexInRange, NEW s \in Server, becomeLeader(s), UNCHANGED logVars,
         NEW l \in Server
  PROVE  RangeAt(l)'
<1>1. CASE l # s
  BY <1>1, RangeSame DEF becomeLeader, logVars, TypeOK, LeadTypeOK, ElectTypeOK
<1>2. CASE l = s
  <2>1. lastIndex(s)' = lastIndex(s) /\ lastIndex(s) \in Nat
    BY LastTypes DEF lastIndex, logVars, TypeOK
  <2>2. \A p \in Server : /\ nextIndex'[s][p] = lastIndex(s) + 1
                          /\ matchIndex'[s][p] = IF p = s THEN lastIndex(s) ELSE 0
    BY DEF becomeLeader, TypeOK, LeadTypeOK
  <2> QED BY <1>2, <2>1, <2>2 DEF RangeAt
<1> QED BY <1>1, <1>2

\* A restart leaves a follower and keeps the ranges of the others.
LEMMA RangeRestart ==
  ASSUME TypeOK, NextIndexInRange, NEW s \in Server, NEW d \in Persisted, restartFrom(s, d),
         NEW l \in Server
  PROVE  RangeAt(l)'
<1>1. CASE l = s
  BY <1>1, RangeFollower DEF restartFrom, TypeOK, ElectTypeOK
<1>2. CASE l # s
  BY <1>2, RangeSame DEF restartFrom, TypeOK, ElectTypeOK, LogTypeOK, LeadTypeOK
<1> QED BY <1>1, <1>2

\* Every step keeps nextIndex and matchIndex inside the leader's log.
LEMMA NextIndexStep ==
  ASSUME TypeOK, NextIndexInRange, MessagesFit, Next
  PROVE  NextIndexInRange'
<1> SUFFICES ASSUME NEW l \in Server PROVE RangeAt(l)'
  BY DEF NextIndexInRange, RangeAt
<1>1. ASSUME NEW s \in Server, NEW sent \in SUBSET Server, startElection(s, sent) PROVE RangeAt(l)'
  <2>1. CASE l = s
    BY <1>1, <2>1, RangeFollower DEF startElection, TypeOK, ElectTypeOK
  <2>2. CASE l # s
    BY <1>1, <2>2, RangeSame DEF startElection, logVars, leadVars, TypeOK, ElectTypeOK
  <2> QED BY <2>1, <2>2
<1>2. ASSUME NEW m \in voteReq, RequestVote(m) PROVE RangeAt(l)'
  <2>1. state'[l] = "Follower" \/ state'[l] = state[l]
    BY <1>2 DEF RequestVote, TypeOK, ElectTypeOK
  <2> QED BY <1>2, <2>1, RangeFollower, RangeSame DEF RequestVote, logVars, leadVars
<1>3. ASSUME NEW m \in voteRep, handleVoteReply(m) PROVE RangeAt(l)'
  <2>1. m.dst \in Server /\ m.term \in Nat
    BY DEF TypeOK, NetTypeOK, RequestVoteReply
  <2>2. CASE stepDown(m.dst, m.term)
    BY <2>1, <2>2, RangeStepDown
  <2>3. CASE UNCHANGED <<state, logVars, leadVars>>
    BY <2>3, RangeSame DEF logVars, leadVars
  <2>4. CASE becomeLeader(m.dst) /\ UNCHANGED logVars
    BY <2>1, <2>4, RangeBecomeLeader
  <2> QED BY <1>3, <2>2, <2>3, <2>4 DEF handleVoteReply, electVars
<1>4. ASSUME NEW s \in Server, NEW c \in Command, Start(s, c) PROVE RangeAt(l)'
  <2>1. CASE l = s
    <3>1. lastIndex(s)' \in Nat /\ lastIndex(s)' >= lastIndex(s)
      BY <1>4, StartLastIndex, LastTypes DEF TypeOK
    <3> QED BY <1>4, <2>1, <3>1, RangeKept DEF Start, electVars, leadVars
  <2>2. CASE l # s
    BY <1>4, <2>2, RangeSame DEF Start, electVars, leadVars, TypeOK, LogTypeOK
  <2> QED BY <2>1, <2>2
<1>5. ASSUME NEW s \in Server, NEW p \in Server, sendInstallSnapshot(s, p) PROVE RangeAt(l)'
  BY <1>5, RangeSame DEF sendInstallSnapshot, electVars, logVars, leadVars
<1>6. ASSUME NEW s \in Server, NEW p \in Server, sendAppendEntries(s, p) PROVE RangeAt(l)'
  BY <1>6, RangeSame DEF sendAppendEntries, electVars, logVars, leadVars
<1>7. ASSUME NEW m \in appReq, AppendEntries(m) PROVE RangeAt(l)'
  <2>1. m.dst \in Server /\ m.term \in Nat /\ UNCHANGED leadVars
    BY <1>7 DEF TypeOK, NetTypeOK, AppendEntriesArgs, AppendEntries
  <2>2. CASE rejectStale(m)
    BY <2>1, <2>2, RangeSame DEF rejectStale, electVars, logVars, leadVars
  <2>3. CASE rejectShort(m)
    BY <2>1, <2>3, RangeFollow DEF rejectShort, logVars
  <2>4. CASE rejectMismatch(m)
    BY <2>1, <2>4, RangeFollow DEF rejectMismatch, logVars
  <2>5. CASE accept(m)
    <3>1. l # m.dst => log'[l] = log[l]
      BY <2>1, <2>5 DEF accept, TypeOK, LogTypeOK
    <3> QED BY <2>1, <2>5, <3>1, RangeFollow DEF accept
  <2> QED BY <1>7, <2>2, <2>3, <2>4, <2>5 DEF AppendEntries
<1>8. ASSUME NEW m \in appRep, handleAppendReply(m) PROVE RangeAt(l)'
  <2>1. /\ m.dst \in Server /\ m.src \in Server /\ m.term \in Nat /\ m.matched \in Nat
        /\ m.xTerm \in Int /\ m.xIndex \in Int /\ m.xLen \in Nat
    BY DEF TypeOK, NetTypeOK, AppendEntriesReply
  <2>2. CASE stepDown(m.dst, m.term)
    BY <2>1, <2>2, RangeStepDown
  <2>3. CASE UNCHANGED <<state, logVars, leadVars>>
    BY <2>3, RangeSame DEF logVars, leadVars
  <2>4. CASE /\ current(m.dst, m)
             /\ acknowledge(m.dst, m.src, m.matched)
             /\ UNCHANGED <<electVars, logVars>>
    <3>1. Fits(m.dst, m.argTerm, m.matched)
      BY DEF MessagesFit
    <3>2. state[m.dst] = "Leader" /\ m.matched <= lastIndex(m.dst)
      BY <2>4, <3>1 DEF current, Fits
    <3> QED BY <2>1, <2>4, <3>2, RangeAcknowledge
  <2>5. CASE /\ \E x \in backup(m.dst, m) :
                  nextIndex' = [nextIndex EXCEPT ![m.dst][m.src] = clamp(m.dst, x)]
             /\ UNCHANGED <<matchIndex, electVars, logVars>>
    <3>1. PICK x \in backup(m.dst, m) :
            nextIndex' = [nextIndex EXCEPT ![m.dst][m.src] = clamp(m.dst, x)]
      BY <2>5
    <3>2. x \in Int
      <4>1. lastIncludeIndex[m.dst] \in Nat /\ lastIndex(m.dst) \in Nat
        BY <2>1, LastTypes DEF TypeOK, LogTypeOK
      <4>2. \A i \in lastOfTerm(m.dst, m.xTerm) : i \in Int
        BY <4>1 DEF lastOfTerm
      <4> QED BY <2>1, <3>1, <4>2 DEF backup
    <3> QED BY <2>1, <2>5, <3>1, <3>2, RangeBackup
  <2> QED BY <1>8, <2>2, <2>3, <2>4, <2>5 DEF handleAppendReply, electVars
<1>9. ASSUME NEW m \in snapReq, InstallSnapshot(m) PROVE RangeAt(l)'
  <2>1. m.dst \in Server /\ m.term \in Nat /\ UNCHANGED leadVars
    BY <1>9 DEF TypeOK, NetTypeOK, InstallSnapshotArgs, InstallSnapshot
  <2>2. CASE rejectInstall(m)
    BY <2>1, <2>2, RangeSame DEF rejectInstall, electVars, logVars, leadVars
  <2>3. CASE skipInstall(m)
    BY <2>1, <2>3, RangeFollow DEF skipInstall, logVars
  <2>4. CASE install(m)
    <3>1. l # m.dst => log'[l] = log[l] /\ lastIncludeIndex'[l] = lastIncludeIndex[l]
      BY <2>1, <2>4 DEF install, TypeOK, LogTypeOK
    <3> QED BY <2>1, <2>4, <3>1, RangeFollow DEF install
  <2> QED BY <1>9, <2>2, <2>3, <2>4 DEF InstallSnapshot
<1>10. ASSUME NEW m \in snapRep, handleInstallReply(m) PROVE RangeAt(l)'
  <2>1. m.dst \in Server /\ m.src \in Server /\ m.term \in Nat /\ m.matched \in Nat
    BY DEF TypeOK, NetTypeOK, InstallSnapshotReply
  <2>2. CASE stepDown(m.dst, m.term)
    BY <2>1, <2>2, RangeStepDown
  <2>3. CASE UNCHANGED <<state, logVars, leadVars>>
    BY <2>3, RangeSame DEF logVars, leadVars
  <2>4. CASE /\ current(m.dst, m)
             /\ acknowledge(m.dst, m.src, m.matched)
             /\ UNCHANGED <<electVars, logVars>>
    <3>1. Fits(m.dst, m.argTerm, m.matched)
      BY DEF MessagesFit
    <3>2. state[m.dst] = "Leader" /\ m.matched <= lastIndex(m.dst)
      BY <2>4, <3>1 DEF current, Fits
    <3> QED BY <2>1, <2>4, <3>2, RangeAcknowledge
  <2> QED BY <1>10, <2>2, <2>3, <2>4 DEF handleInstallReply, electVars
<1>11. ASSUME NEW s \in Server, applier(s) PROVE RangeAt(l)'
  BY <1>11, RangeSame DEF applier, electVars, logVars, leadVars
<1>12. ASSUME NEW s \in Server, deliver(s) PROVE RangeAt(l)'
  BY <1>12, RangeSame DEF deliver, electVars, logVars, leadVars
<1>13. ASSUME NEW s \in Server, Snapshot(s) PROVE RangeAt(l)'
  <2>1. CASE l = s
    <3>1. lastIndex(s)' \in Nat /\ lastIndex(s)' >= lastIndex(s)
      BY <1>13, SnapshotLastIndex, LastTypes DEF TypeOK
    <3> QED BY <1>13, <2>1, <3>1, RangeKept DEF Snapshot, electVars, leadVars
  <2>2. CASE l # s
    BY <1>13, <2>2, RangeSame DEF Snapshot, electVars, leadVars, TypeOK, LogTypeOK
  <2> QED BY <2>1, <2>2
<1>14. ASSUME NEW s \in Server, Restart(s) PROVE RangeAt(l)'
  BY <1>14, RangeRestart DEF Restart, TypeOK, LogTypeOK
<1>15. ASSUME NEW m \in voteReq \cup appReq \cup snapReq, crashInHandler(m) PROVE RangeAt(l)'
  <2> DEFINE d == [disk[m.dst] EXCEPT !.currentTerm = m.term, !.votedFor = Nil]
  <2>1. m.dst \in Server /\ m.term \in Nat
    BY DEF TypeOK, NetTypeOK, RequestVoteArgs, AppendEntriesArgs, InstallSnapshotArgs
  <2>2. d \in Persisted
    BY <2>1 DEF TypeOK, LogTypeOK, Persisted
  <2>3. restartFrom(m.dst, d)
    BY <1>15 DEF crashInHandler
  <2> HIDE DEF d
  <2> QED BY <2>1, <2>2, <2>3, RangeRestart
<1> QED BY <1>1, <1>2, <1>3, <1>4, <1>5, <1>6, <1>7, <1>8, <1>9, <1>10, <1>11, <1>12,
           <1>13, <1>14, <1>15 DEF Next

-----------------------------------------------------------------------------
\* Snapshots, the applier and the service

\* SnapshotChain for one peer
ChainAt(s) ==
  /\ log[s][1].term = lastIncludeTerm[s]
  /\ Len(snapshot[s]) = lastIncludeIndex[s]
  /\ lastIncludeIndex[s] <= applyIndex[s]
  /\ applyIndex[s] <= commitIndex[s]

\* A step that leaves the snapshot and the head of the log alone
LEMMA ChainKept ==
  ASSUME TypeOK, TypeOK', SnapshotChain, NEW l \in Server,
         log'[l][1] = log[l][1], lastIncludeIndex'[l] = lastIncludeIndex[l],
         lastIncludeTerm'[l] = lastIncludeTerm[l], snapshot'[l] = snapshot[l],
         applyIndex'[l] >= applyIndex[l], applyIndex'[l] <= commitIndex'[l]
  PROVE  ChainAt(l)'
<1>1. /\ lastIncludeIndex[l] \in Nat /\ applyIndex[l] \in Nat /\ applyIndex'[l] \in Nat
  BY DEF TypeOK, LogTypeOK, ApplyTypeOK
<1> QED BY <1>1 DEF ChainAt, SnapshotChain

\* A step that leaves all of it alone but for a commitIndex that may grow
LEMMA ChainSame ==
  ASSUME TypeOK, TypeOK', SnapshotChain, NEW l \in Server, log'[l] = log[l],
         lastIncludeIndex'[l] = lastIncludeIndex[l],
         lastIncludeTerm'[l] = lastIncludeTerm[l], snapshot'[l] = snapshot[l],
         applyIndex'[l] = applyIndex[l], commitIndex'[l] >= commitIndex[l]
  PROVE  ChainAt(l)'
<1>1. applyIndex[l] \in Nat /\ commitIndex[l] \in Nat /\ commitIndex'[l] \in Nat
  BY DEF TypeOK, ApplyTypeOK
<1>2. applyIndex[l] <= commitIndex[l]
  BY DEF SnapshotChain
<1> QED BY <1>1, <1>2, ChainKept

\* The leader's commitIndex only grows
LEMMA AcknowledgeCommit ==
  ASSUME TypeOK, NEW s \in Server, NEW p \in Server, NEW matched \in Nat,
         acknowledge(s, p, matched), NEW l \in Server
  PROVE  commitIndex'[l] >= commitIndex[l]
<1> DEFINE match == [matchIndex[s] EXCEPT ![p] = MaxOf(@, matched)]
<1>1. advanceCommitIndex(s, match)
  BY DEF acknowledge
<1>2. \A n \in committable(s, match) : n > commitIndex[s]
  BY DEF committable
<1> HIDE DEF match
<1>3. commitIndex \in [Server -> Nat]
  BY DEF TypeOK, ApplyTypeOK
<1>4. CASE UNCHANGED commitIndex
  BY <1>3, <1>4
<1>5. CASE \E n \in committable(s, match) : commitIndex' = [commitIndex EXCEPT ![s] = n]
  <2>1. PICK n \in committable(s, match) : commitIndex' = [commitIndex EXCEPT ![s] = n]
    BY <1>5
  <2>2. n > commitIndex[s]
    BY <1>2, <2>1
  <2>3. n \in Nat
    <3>1. commitIndex' \in [Server -> Nat]
      BY AcknowledgeType
    <3> QED BY <1>3, <2>1, <3>1
  <2> QED BY <1>3, <2>1, <2>2, <2>3
<1> QED BY <1>1, <1>4, <1>5 DEF advanceCommitIndex

\* So does a follower's
LEMMA FollowCommitGrows ==
  ASSUME TypeOK, NEW s \in Server, NEW a \in Nat, NEW b \in Nat
  PROVE  followCommit(s, a, b) \in Nat /\ followCommit(s, a, b) >= commitIndex[s]
BY DEF followCommit, MaxOf, MinOf, TypeOK, ApplyTypeOK

\* InstallSnapshot leaves a sentinel of the snapshot's term
LEMMA InstallHead ==
  ASSUME TypeOK, NEW m \in snapReq, m.lastIncludeIndex > lastIncludeIndex[m.dst]
  PROVE  logAfterInstall(m)[1].term = m.lastIncludeTerm
<1> USE DEF TypeOK
<1> DEFINE s == m.dst
           i == m.lastIncludeIndex
<1>1. s \in Server /\ i \in Nat /\ m.lastIncludeTerm \in Nat
  BY DEF NetTypeOK, InstallSnapshotArgs
<1>2. CASE lastIndex(s) >= i /\ entry(s, i).term = m.lastIncludeTerm
  <2>1. log[s] \in Seq(Entry) /\ Len(log[s]) \in Nat /\ logIdx(s, i) \in 1 .. Len(log[s])
    <3>1. log[s] \in Seq(Entry) /\ Len(log[s]) \in Nat /\ lastIncludeIndex[s] \in Nat
      BY <1>1 DEF LogTypeOK
    <3>2. lastIndex(s) \in Nat
      BY <1>1, LastTypes
    <3> QED BY <1>1, <1>2, <3>1, <3>2, EntryType
  <2>2. truncateFront(s, i)[1] = log[s][logIdx(s, i)]
    <3>1. SubSeq(log[s], logIdx(s, i), Len(log[s]))[1] = log[s][logIdx(s, i) + 1 - 1]
      BY <2>1, PartType
    <3> QED BY <2>1, <3>1 DEF truncateFront
  <2>3. logAfterInstall(m) = truncateFront(s, i)
    BY <1>2 DEF logAfterInstall
  <2> QED BY <1>2, <2>2, <2>3 DEF entry
<1>3. CASE ~ (lastIndex(s) >= i /\ entry(s, i).term = m.lastIncludeTerm)
  BY <1>3 DEF logAfterInstall
<1> QED BY <1>2, <1>3

\* So does compaction
LEMMA CompactHead ==
  ASSUME TypeOK, NEW s \in Server, Snapshot(s)
  PROVE  log'[s][1] = entry(s, Len(app[s]))
<1> DEFINE i == Len(app[s])
<1>1. /\ log[s] \in Seq(Entry) /\ Len(log[s]) \in Nat /\ lastIncludeIndex[s] \in Nat /\ i \in Nat
      /\ log \in [Server -> Seq(Entry)]
  BY DEF TypeOK, LogTypeOK, ApplyTypeOK
<1>2. lastIncludeIndex[s] < i /\ i <= lastIndex(s)
  BY DEF Snapshot
<1>3. logIdx(s, i) \in 1 .. Len(log[s])
  BY <1>1, <1>2, EntryType DEF TypeOK
<1>4. SubSeq(log[s], logIdx(s, i), Len(log[s]))[1] = log[s][logIdx(s, i) + 1 - 1]
  BY <1>1, <1>3, PartType
<1>5. log'[s] = truncateFront(s, i)
  BY <1>1 DEF Snapshot
<1> QED BY <1>3, <1>4, <1>5 DEF truncateFront, entry

\* PersistComplete, field by field
LEMMA DiskHolds ==
  ASSUME TypeOK, PersistComplete, NEW s \in Server
  PROVE  /\ disk[s] \in Persisted /\ disk[s].currentTerm = currentTerm[s]
         /\ disk[s].votedFor = votedFor[s] /\ disk[s].log = log[s]
         /\ disk[s].snapshot = snapshot[s] /\ disk[s].lastIncludeIndex = lastIncludeIndex[s]
         /\ disk[s].lastIncludeTerm = lastIncludeTerm[s]
<1>1. disk[s] = [currentTerm |-> currentTerm[s], votedFor |-> votedFor[s], log |-> log[s],
                 lastIncludeIndex |-> lastIncludeIndex[s],
                 lastIncludeTerm |-> lastIncludeTerm[s], snapshot |-> snapshot[s]]
  BY DEF PersistComplete
<1>2. disk[s] \in Persisted
  BY DEF TypeOK, LogTypeOK
<1> QED BY <1>1, <1>2

\* A restart takes commitIndex and applyIndex back to the snapshot (readPersist, raft.go:192-193).
LEMMA ChainRestart ==
  ASSUME TypeOK, TypeOK', SnapshotChain, NEW s \in Server, NEW d \in Persisted,
         d.log = log[s], d.snapshot = snapshot[s],
         d.lastIncludeIndex = lastIncludeIndex[s], d.lastIncludeTerm = lastIncludeTerm[s],
         restartFrom(s, d), NEW l \in Server
  PROVE  ChainAt(l)'
<1>1. CASE l # s
  <2>1. /\ log'[l] = log[l] /\ lastIncludeIndex'[l] = lastIncludeIndex[l]
        /\ lastIncludeTerm'[l] = lastIncludeTerm[l] /\ snapshot'[l] = snapshot[l]
    BY <1>1 DEF restartFrom, TypeOK, LogTypeOK
  <2>2. applyIndex'[l] = applyIndex[l] /\ commitIndex'[l] = commitIndex[l] /\ commitIndex[l] \in Nat
    BY <1>1 DEF restartFrom, TypeOK, ApplyTypeOK
  <2> QED BY <2>1, <2>2, ChainSame
<1>2. CASE l = s
  <2>1. /\ log'[s] = log[s] /\ lastIncludeIndex'[s] = lastIncludeIndex[s]
        /\ lastIncludeTerm'[s] = lastIncludeTerm[s] /\ snapshot'[s] = snapshot[s]
    BY DEF restartFrom, TypeOK, LogTypeOK
  <2>2. applyIndex'[s] = lastIncludeIndex[s] /\ commitIndex'[s] = lastIncludeIndex[s]
    BY DEF restartFrom, TypeOK, ApplyTypeOK
  <2>3. lastIncludeIndex[s] \in Nat
    BY DEF TypeOK, LogTypeOK
  <2> QED BY <1>2, <2>1, <2>2, <2>3 DEF ChainAt, SnapshotChain
<1> QED BY <1>1, <1>2

\* Every step keeps the sentinel, the snapshot and the indexes in their order.
LEMMA SnapshotChainStep ==
  ASSUME TypeOK, TypeOK', PersistComplete, SnapshotChain, SnapshotsWhole, Next
  PROVE  SnapshotChain'
<1> SUFFICES ASSUME NEW l \in Server PROVE ChainAt(l)'
  BY DEF SnapshotChain, ChainAt
<1>0. commitIndex[l] \in Nat /\ applyIndex[l] \in Nat
  BY DEF TypeOK, ApplyTypeOK
<1> DEFINE Same == UNCHANGED <<logVars, indexVars>>
<1>s. ASSUME Same PROVE ChainAt(l)'
  BY <1>s, <1>0, ChainSame DEF logVars, indexVars
<1>1. ASSUME NEW s \in Server, NEW sent, startElection(s, sent) PROVE Same
  BY <1>1 DEF startElection
<1>2. ASSUME NEW m \in voteReq, RequestVote(m) PROVE Same
  BY <1>2 DEF RequestVote
<1>3. ASSUME NEW m \in voteRep, handleVoteReply(m) PROVE Same
  BY <1>3 DEF handleVoteReply, stepDown
<1>4. ASSUME NEW s \in Server, NEW c \in Command, Start(s, c) PROVE ChainAt(l)'
  <2>1. log'[l][1] = log[l][1]
    <3>1. CASE l = s
      <4>1. log[s] \in Seq(Entry) /\ Len(log[s]) >= 1
        BY DEF TypeOK, LogTypeOK
      <4>2. log'[s] = Append(log[s], [term |-> currentTerm[s], cmd |-> c])
        BY <1>4 DEF Start, TypeOK, LogTypeOK
      <4>3. [term |-> currentTerm[s], cmd |-> c] \in Entry
        BY DEF Entry, TypeOK, ElectTypeOK
      <4> QED BY <3>1, <4>1, <4>2, <4>3, AppendProperties
    <3>2. CASE l # s
      BY <1>4, <3>2 DEF Start, TypeOK, LogTypeOK
    <3> QED BY <3>1, <3>2
  <2>2. applyIndex[l] <= commitIndex[l]
    BY DEF SnapshotChain
  <2> QED BY <1>0, <1>4, <2>1, <2>2, ChainKept DEF Start, indexVars
<1>5. ASSUME NEW s \in Server, NEW p \in Server, sendInstallSnapshot(s, p) PROVE Same
  BY <1>5 DEF sendInstallSnapshot
<1>6. ASSUME NEW s \in Server, NEW p \in Server, sendAppendEntries(s, p) PROVE Same
  BY <1>6 DEF sendAppendEntries
<1>7. ASSUME NEW m \in appReq, AppendEntries(m) PROVE ChainAt(l)'
  <2>1. /\ m.dst \in Server /\ m.leaderCommit \in Nat
        /\ m.prevLogIndex \in Nat /\ Len(m.entries) \in Nat
    BY DEF TypeOK, NetTypeOK, AppendEntriesArgs
  <2>2. CASE UNCHANGED <<logVars, commitIndex>>
    BY <1>7, <1>s, <2>2 DEF AppendEntries, indexVars
  <2>3. CASE accept(m)
    <3>1. log'[l][1] = log[l][1]
      <4>1. ASSUME NEW k \in keepUpTo(m), log' = [log EXCEPT ![m.dst] = extended(m, k)]
            PROVE  log'[l][1] = log[l][1]
        <5>1. extended(m, k)[1] = log[m.dst][1]
          BY <2>3, ExtendedType DEF accept
        <5>2. log \in [Server -> Seq(Entry)]
          BY DEF TypeOK, LogTypeOK
        <5>3. CASE l = m.dst
          BY <4>1, <5>1, <5>2, <5>3
        <5>4. CASE l # m.dst
          BY <4>1, <5>2, <5>4
        <5> QED BY <5>3, <5>4
      <4>2. CASE UNCHANGED log
        BY <4>2
      <4>3. UNCHANGED log \/ \E k \in keepUpTo(m) : log' = [log EXCEPT ![m.dst] = extended(m, k)]
        BY <2>3 DEF accept
      <4> QED BY <4>1, <4>2, <4>3
    <3>2. commitIndex'[l] >= commitIndex[l]
      <4> DEFINE n == followCommit(m.dst, m.leaderCommit, m.prevLogIndex + Len(m.entries))
      <4>0. m.prevLogIndex + Len(m.entries) \in Nat
        BY <2>1
      <4>1. n \in Nat /\ n >= commitIndex[m.dst]
        BY <2>1, <4>0, FollowCommitGrows
      <4>2. commitIndex' = [commitIndex EXCEPT ![m.dst] = n]
        BY <2>3 DEF accept
      <4> HIDE DEF n
      <4>3. commitIndex \in [Server -> Nat]
        BY <1>0 DEF TypeOK, ApplyTypeOK
      <4> QED BY <2>1, <4>1, <4>2, <4>3
    <3>3. applyIndex'[l] = applyIndex[l] /\ applyIndex[l] <= commitIndex[l]
      BY <1>7 DEF AppendEntries, SnapshotChain
    <3>4. commitIndex'[l] \in Nat
      BY DEF TypeOK, ApplyTypeOK
    <3>5. applyIndex'[l] <= commitIndex'[l] /\ applyIndex'[l] >= applyIndex[l]
      BY <1>0, <3>2, <3>3, <3>4
    <3> QED BY <2>3, <3>1, <3>5, ChainKept DEF accept
  <2> QED BY <1>7, <2>2, <2>3 DEF AppendEntries, rejectStale, rejectShort, rejectMismatch
<1>8. ASSUME NEW m \in appRep, handleAppendReply(m) PROVE ChainAt(l)'
  <2>1. m.dst \in Server /\ m.src \in Server /\ m.matched \in Nat
    BY DEF TypeOK, NetTypeOK, AppendEntriesReply
  <2>2. CASE Same
    BY <1>s, <2>2
  <2>3. CASE acknowledge(m.dst, m.src, m.matched) /\ UNCHANGED <<logVars, applyIndex>>
    BY <2>1, <2>3, AcknowledgeCommit, ChainSame DEF logVars
  <2> QED BY <1>8, <2>2, <2>3 DEF handleAppendReply, stepDown, indexVars
<1>9. ASSUME NEW m \in snapReq, InstallSnapshot(m) PROVE ChainAt(l)'
  <2>1. m.dst \in Server /\ m.lastIncludeIndex \in Nat /\ m.lastIncludeTerm \in Nat
    BY DEF TypeOK, NetTypeOK, InstallSnapshotArgs
  <2>2. CASE Same
    BY <1>s, <2>2
  <2>3. CASE install(m)
    <3>1. CASE l # m.dst
      <4>1. /\ log'[l] = log[l] /\ lastIncludeIndex'[l] = lastIncludeIndex[l]
            /\ lastIncludeTerm'[l] = lastIncludeTerm[l] /\ snapshot'[l] = snapshot[l]
            /\ applyIndex'[l] = applyIndex[l] /\ commitIndex'[l] = commitIndex[l]
        BY <2>1, <2>3, <3>1 DEF install, TypeOK, LogTypeOK, ApplyTypeOK
      <4> QED BY <1>0, <4>1, ChainSame
    <3>2. CASE l = m.dst
      <4>1. /\ log'[l] = logAfterInstall(m) /\ lastIncludeIndex'[l] = m.lastIncludeIndex
            /\ lastIncludeTerm'[l] = m.lastIncludeTerm /\ snapshot'[l] = m.data
            /\ applyIndex'[l] = MaxOf(applyIndex[l], m.lastIncludeIndex)
            /\ commitIndex'[l] = MaxOf(commitIndex[l], m.lastIncludeIndex)
        BY <2>3, <3>2 DEF install, TypeOK, LogTypeOK, ApplyTypeOK
      <4>2. m.lastIncludeIndex > lastIncludeIndex[m.dst]
        BY <2>1, <2>3 DEF install, alreadyHas, TypeOK, LogTypeOK
      <4>3. logAfterInstall(m)[1].term = m.lastIncludeTerm
        BY <4>2, InstallHead
      <4>4. Len(m.data) = m.lastIncludeIndex
        BY DEF SnapshotsWhole
      <4>5. applyIndex[l] <= commitIndex[l]
        BY DEF SnapshotChain
      <4>6. m.lastIncludeIndex <= applyIndex'[l] /\ applyIndex'[l] <= commitIndex'[l]
        BY <1>0, <2>1, <4>1, <4>5 DEF MaxOf
      <4> QED BY <4>1, <4>3, <4>4, <4>6 DEF ChainAt
    <3> QED BY <3>1, <3>2
  <2> QED BY <1>9, <2>2, <2>3 DEF InstallSnapshot, rejectInstall, skipInstall
<1>10. ASSUME NEW m \in snapRep, handleInstallReply(m) PROVE ChainAt(l)'
  <2>1. m.dst \in Server /\ m.src \in Server /\ m.matched \in Nat
    BY DEF TypeOK, NetTypeOK, InstallSnapshotReply
  <2>2. CASE Same
    BY <1>s, <2>2
  <2>3. CASE acknowledge(m.dst, m.src, m.matched) /\ UNCHANGED <<logVars, applyIndex>>
    BY <2>1, <2>3, AcknowledgeCommit, ChainSame DEF logVars
  <2> QED BY <1>10, <2>2, <2>3 DEF handleInstallReply, stepDown
<1>11. ASSUME NEW s \in Server, applier(s) PROVE ChainAt(l)'
  <2>1. applyIndex[l] <= commitIndex[l]
    BY DEF SnapshotChain
  <2>2. applyIndex'[l] \in {applyIndex[l], commitIndex[l]} /\ commitIndex'[l] = commitIndex[l]
    BY <1>11 DEF applier, takeSnapshot, takeCommands, TypeOK, ApplyTypeOK
  <2>3. applyIndex'[l] >= applyIndex[l] /\ applyIndex'[l] <= commitIndex'[l]
    BY <1>0, <2>1, <2>2
  <2> QED BY <1>11, <2>3, ChainKept DEF applier, logVars
<1>12. ASSUME NEW s \in Server, deliver(s) PROVE Same
  BY <1>12 DEF deliver
<1>13. ASSUME NEW s \in Server, Snapshot(s) PROVE ChainAt(l)'
  <2>1. CASE l # s
    <3>1. /\ log'[l] = log[l] /\ lastIncludeIndex'[l] = lastIncludeIndex[l]
          /\ lastIncludeTerm'[l] = lastIncludeTerm[l] /\ snapshot'[l] = snapshot[l]
          /\ applyIndex'[l] = applyIndex[l] /\ commitIndex'[l] = commitIndex[l]
      BY <1>13, <2>1 DEF Snapshot, indexVars, TypeOK, LogTypeOK
    <3> QED BY <1>0, <3>1, ChainSame
  <2>2. CASE l = s
    <3>1. /\ lastIncludeIndex'[l] = Len(app[l]) /\ snapshot'[l] = app[l]
          /\ lastIncludeTerm'[l] = entry(s, Len(app[l])).term
          /\ applyIndex'[l] = applyIndex[l] /\ commitIndex'[l] = commitIndex[l]
          /\ Len(app[l]) <= applyIndex[l]
      BY <1>13, <2>2 DEF Snapshot, indexVars, TypeOK, LogTypeOK
    <3>2. log'[l][1] = entry(s, Len(app[l]))
      BY <1>13, <2>2, CompactHead
    <3>3. applyIndex[l] <= commitIndex[l]
      BY DEF SnapshotChain
    <3> QED BY <3>1, <3>2, <3>3 DEF ChainAt
  <2> QED BY <2>1, <2>2
<1>14. ASSUME NEW s \in Server, Restart(s) PROVE ChainAt(l)'
  BY <1>14, DiskHolds, ChainRestart DEF Restart
<1>15. ASSUME NEW m \in voteReq \cup appReq \cup snapReq, crashInHandler(m) PROVE ChainAt(l)'
  <2> DEFINE d == [disk[m.dst] EXCEPT !.currentTerm = m.term, !.votedFor = Nil]
  <2>1. m.dst \in Server /\ m.term \in Nat
    BY DEF TypeOK, NetTypeOK, RequestVoteArgs, AppendEntriesArgs, InstallSnapshotArgs
  <2>2. /\ d \in Persisted /\ d.log = log[m.dst] /\ d.snapshot = snapshot[m.dst]
        /\ d.lastIncludeIndex = lastIncludeIndex[m.dst]
        /\ d.lastIncludeTerm = lastIncludeTerm[m.dst]
    <3> QED BY <2>1, DiskHolds DEF Persisted
  <2>3. restartFrom(m.dst, d)
    BY <1>15 DEF crashInHandler
  <2> HIDE DEF d
  <2> QED BY <2>1, <2>2, <2>3, ChainRestart
<1> HIDE DEF Same
<1> QED BY <1>s, <1>1, <1>2, <1>3, <1>4, <1>5, <1>6, <1>7, <1>8, <1>9, <1>10, <1>11, <1>12,
           <1>13, <1>14, <1>15 DEF Next

\* Every snapshot sent ends at the index it is sent for.
LEMMA SnapshotsWholeStep ==
  ASSUME TypeOK, SnapshotChain, SnapshotsWhole, Next
  PROVE  SnapshotsWhole'
<1> SUFFICES ASSUME NEW m \in snapReq' PROVE Len(m.data) = m.lastIncludeIndex
  BY DEF SnapshotsWhole
<1>1. CASE m \in snapReq
  BY <1>1 DEF SnapshotsWhole
<1>2. CASE m \notin snapReq
  <2>1. PICK s \in Server, p \in Server : sendInstallSnapshot(s, p)
    BY <1>2, Senders
  <2>2. m.data = snapshot[s] /\ m.lastIncludeIndex = lastIncludeIndex[s]
    BY <1>2, <2>1 DEF sendInstallSnapshot
  <2> QED BY <2>2 DEF SnapshotChain
<1> QED BY <1>1, <1>2

-----------------------------------------------------------------------------
\* What the applier holds continues what the service has

\* ApplyPosition for one peer
PositionAt(s) ==
  /\ SnapshotBatch(s) \/ CommandBatch(s)
  /\ IF pendingSnapshot[s] = Nil THEN applyIndex[s] = BatchEnd(s)
     ELSE /\ pendingSnapshot[s].snap
          /\ pendingSnapshot[s].index = applyIndex[s]
          /\ Len(pendingSnapshot[s].data) = applyIndex[s]
          /\ applyIndex[s] > BatchEnd(s)

\* A peer whose applier and service the step does not touch keeps its position.
LEMMA PositionSame ==
  ASSUME ApplyPosition, NEW l \in Server, applyMsgs'[l] = applyMsgs[l], app'[l] = app[l],
         pendingSnapshot'[l] = pendingSnapshot[l], applyIndex'[l] = applyIndex[l]
  PROVE  PositionAt(l)'
<1>1. SnapshotBatch(l)' <=> SnapshotBatch(l)
  BY DEF SnapshotBatch
<1>2. CommandBatch(l) => CommandBatch(l)'
  BY DEF CommandBatch
<1>3. BatchEnd(l)' = BatchEnd(l)
  BY <1>1 DEF BatchEnd
<1>4. PositionAt(l)
  BY DEF ApplyPosition, PositionAt
<1> QED BY <1>1, <1>2, <1>3, <1>4 DEF PositionAt

\* An ApplyMsg is not Nil
LEMMA PendingTypes ==
  ASSUME TypeOK, NEW s \in Server
  PROVE  /\ applyIndex[s] \in Nat /\ commitIndex[s] \in Nat /\ Len(app[s]) \in Nat
         /\ Len(applyMsgs[s]) \in Nat
         /\ \A k \in 1 .. Len(applyMsgs[s]) : applyMsgs[s][k] \in ApplyMsg
         /\ BatchEnd(s) \in Nat
<1>1. /\ applyIndex[s] \in Nat /\ commitIndex[s] \in Nat /\ app[s] \in Seq(Value)
      /\ applyMsgs[s] \in Seq(ApplyMsg)
  BY DEF TypeOK, ApplyTypeOK
<1>2. \A k \in 1 .. Len(applyMsgs[s]) : applyMsgs[s][k] \in ApplyMsg
  BY <1>1
<1>3. Len(app[s]) \in Nat /\ Len(applyMsgs[s]) \in Nat
  BY <1>1
<1>4. BatchEnd(s) \in Nat
  <2>1. CASE SnapshotBatch(s)
    <3>1. applyMsgs[s][1] \in ApplyMsg
      BY <1>2, <2>1 DEF SnapshotBatch
    <3> QED BY <2>1, <3>1 DEF BatchEnd, ApplyMsg
  <2>2. CASE ~ SnapshotBatch(s)
    <3>1. BatchEnd(s) = Len(app[s]) + Len(applyMsgs[s])
      BY <2>2 DEF BatchEnd
    <3>2. \A a, b \in Nat : a + b \in Nat
      OBVIOUS
    <3>3. Len(app[s]) + Len(applyMsgs[s]) \in Nat
      BY <1>3, <3>2
    <3> QED BY <3>1, <3>3
  <2> QED BY <2>1, <2>2
<1> QED BY <1>1, <1>2, <1>3, <1>4

\* The applier takes the pending snapshot, which is ahead of the service.
LEMMA PositionTakeSnapshot ==
  ASSUME TypeOK, ApplyPosition, NEW s \in Server, applyMsgs[s] = <<>>, takeSnapshot(s),
         UNCHANGED app
  PROVE  PositionAt(s)'
<1> DEFINE p == pendingSnapshot[s]
<1>1. /\ applyMsgs'[s] = <<p>> /\ pendingSnapshot'[s] = Nil /\ applyIndex'[s] = applyIndex[s]
      /\ p # Nil /\ app'[s] = app[s]
  BY DEF takeSnapshot, TypeOK, ApplyTypeOK
<1>2. ~ SnapshotBatch(s)
  BY DEF SnapshotBatch
<1>3. BatchEnd(s) = Len(app[s])
  <2>1. Len(app[s]) \in Nat /\ Len(applyMsgs[s]) = 0
    BY PendingTypes
  <2> QED BY <1>2, <2>1 DEF BatchEnd
<1>4. p.snap /\ p.index = applyIndex[s] /\ Len(p.data) = applyIndex[s] /\ applyIndex[s] > Len(app[s])
  BY <1>1, <1>3 DEF ApplyPosition
<1> HIDE DEF p
<1>5. SnapshotBatch(s)'
  BY <1>1, <1>4 DEF SnapshotBatch
<1>6. BatchEnd(s)' = applyIndex'[s]
  BY <1>1, <1>4, <1>5 DEF BatchEnd
<1> QED BY <1>1, <1>5, <1>6 DEF PositionAt

\* The applier takes the commands that come next.
LEMMA PositionTakeCommands ==
  ASSUME TypeOK, ApplyPosition, NEW s \in Server, applyMsgs[s] = <<>>,
         pendingSnapshot[s] = Nil, takeCommands(s), UNCHANGED app
  PROVE  PositionAt(s)'
<1> DEFINE n == commitIndex[s] - applyIndex[s]
           batch == [k \in 1 .. n |->
              [snap |-> FALSE, index |-> applyIndex[s] + k,
               data |-> <<commandAt(s, applyIndex[s] + k)>>]]
<1>1. /\ applyMsgs'[s] = batch /\ pendingSnapshot'[s] = Nil /\ applyIndex'[s] = commitIndex[s]
      /\ app'[s] = app[s]
  BY DEF takeCommands, TypeOK, ApplyTypeOK
<1>2. ~ SnapshotBatch(s)
  BY DEF SnapshotBatch
<1>3. applyIndex[s] = Len(app[s])
  <2>1. Len(app[s]) \in Nat /\ Len(applyMsgs[s]) = 0
    BY PendingTypes
  <2>2. BatchEnd(s) = Len(app[s])
    BY <1>2, <2>1 DEF BatchEnd
  <2> QED BY <2>2 DEF ApplyPosition
<1>4. n \in Nat /\ commitIndex[s] \in Nat /\ Len(app[s]) \in Nat /\ n = commitIndex[s] - Len(app[s])
  BY <1>3, PendingTypes DEF takeCommands
<1>5. Len(batch) = n
  <2> HIDE DEF n
  <2> QED BY <1>4
<1>6. ASSUME NEW k \in 1 .. n
      PROVE  /\ ~ batch[k].snap
             /\ batch[k].index = Len(app[s]) + k
             /\ Len(batch[k].data) = 1
  BY <1>3
<1> HIDE DEF batch, n
<1>7. CommandBatch(s)'
  BY <1>1, <1>5, <1>6 DEF CommandBatch
<1>8. ~ SnapshotBatch(s)'
  <2> SUFFICES ASSUME SnapshotBatch(s)' PROVE FALSE
    OBVIOUS
  <2>1. Len(batch) = 1 /\ batch[1].snap
    BY <1>1 DEF SnapshotBatch
  <2>2. n = 1
    BY <1>5, <2>1
  <2>3. 1 \in 1 .. n
    BY <2>2
  <2> QED BY <1>6, <2>1, <2>3
<1>9. BatchEnd(s)' = Len(app[s]) + n
  BY <1>1, <1>5, <1>8 DEF BatchEnd
<1>10. Len(app[s]) + n = commitIndex[s]
  BY <1>4
<1> QED BY <1>1, <1>7, <1>9, <1>10 DEF PositionAt

\* The service reads the snapshot, or the next command: the end of the batch stays
LEMMA PositionDeliver ==
  ASSUME TypeOK, ApplyPosition, NEW s \in Server, deliver(s)
  PROVE  PositionAt(s)' /\ Len(app'[s]) >= Len(app[s])
<1> DEFINE q == applyMsgs[s]
           a == app[s]
           h == Head(q)
<1>0. /\ q \in Seq(ApplyMsg) /\ q # <<>> /\ a \in Seq(Value)
      /\ Len(a) \in Nat /\ Len(q) \in Nat
  BY DEF deliver, TypeOK, ApplyTypeOK
<1>1. /\ app'[s] = IF h.snap THEN h.data ELSE a \o h.data
      /\ applyMsgs'[s] = Tail(q)
      /\ pendingSnapshot'[s] = pendingSnapshot[s] /\ applyIndex'[s] = applyIndex[s]
  BY DEF deliver, indexVars, TypeOK, ApplyTypeOK
<1>2. /\ h = q[1] /\ h \in ApplyMsg /\ Len(q) >= 1 /\ Tail(q) \in Seq(ApplyMsg)
      /\ Len(Tail(q)) = Len(q) - 1 /\ \A k \in 1 .. Len(q) - 1 : Tail(q)[k] = q[k + 1]
  <2> HIDE DEF q
  <2>1. Len(q) >= 1 /\ h = q[1]
    BY <1>0, EmptySeq
  <2> QED BY <1>0, <2>1, HeadTailProperties
<1>3. h.data \in Seq(Value) /\ h.index \in Nat
  BY <1>2 DEF ApplyMsg
<1>4. PositionAt(s)
  BY DEF ApplyPosition, PositionAt
<1>5. CASE SnapshotBatch(s)
  <2>1. h.snap /\ h.index > Len(a) /\ Len(h.data) = h.index /\ Len(q) = 1
    BY <1>2, <1>5 DEF SnapshotBatch
  <2>2. app'[s] = h.data /\ Len(app'[s]) = h.index
    BY <1>1, <2>1
  <2>3. Len(applyMsgs'[s]) = 0
    BY <1>1, <1>2, <2>1
  <2>4. CommandBatch(s)' /\ ~ SnapshotBatch(s)'
    BY <2>3 DEF CommandBatch, SnapshotBatch
  <2>5. BatchEnd(s)' = h.index
    BY <1>3, <2>2, <2>3, <2>4 DEF BatchEnd
  <2>6. BatchEnd(s) = h.index
    BY <1>2, <1>5 DEF BatchEnd
  <2>7. Len(app'[s]) >= Len(a)
    BY <1>0, <1>3, <2>1, <2>2
  <2> QED BY <1>1, <1>4, <2>4, <2>5, <2>6, <2>7 DEF PositionAt
<1>6. CASE ~ SnapshotBatch(s)
  <2>0. CommandBatch(s)
    BY <1>4, <1>6 DEF PositionAt
  <2>1. /\ ~ h.snap /\ Len(h.data) = 1
        /\ \A k \in 1 .. Len(q) : ~ q[k].snap /\ q[k].index = Len(a) + k /\ Len(q[k].data) = 1
    BY <1>0, <1>2, <2>0 DEF CommandBatch
  <2>2. Len(app'[s]) = Len(a) + 1
    <3>1. app'[s] = a \o h.data
      BY <1>1, <2>1
    <3>2. Len(h.data) = 1
      BY <2>1
    <3> HIDE DEF a, h
    <3>3. Len(a \o h.data) = Len(a) + Len(h.data)
      BY <1>0, <1>3, ConcatProperties
    <3> QED BY <3>1, <3>2, <3>3
  <2>3. Len(applyMsgs'[s]) = Len(q) - 1
    BY <1>1, <1>2
  <2>4. ASSUME NEW k \in 1 .. Len(q) - 1
        PROVE  /\ ~ applyMsgs'[s][k].snap
               /\ applyMsgs'[s][k].index = Len(app'[s]) + k
               /\ Len(applyMsgs'[s][k].data) = 1
    <3> HIDE DEF a, q
    <3>1. k + 1 \in 1 .. Len(q) /\ applyMsgs'[s][k] = q[k + 1]
      BY <1>0, <1>1, <1>2
    <3>2. q[k + 1].index = Len(a) + (k + 1) /\ ~ q[k + 1].snap /\ Len(q[k + 1].data) = 1
      BY <2>1, <3>1
    <3> QED BY <1>0, <2>2, <3>1, <3>2
  <2>5. CommandBatch(s)'
    BY <2>3, <2>4 DEF CommandBatch
  <2>6. ~ SnapshotBatch(s)'
    <3> SUFFICES ASSUME SnapshotBatch(s)' PROVE FALSE
      OBVIOUS
    <3>1. Len(q) - 1 = 1 /\ applyMsgs'[s][1].snap
      BY <2>3 DEF SnapshotBatch
    <3>2. 1 \in 1 .. Len(q) - 1
      BY <3>1
    <3> QED BY <2>4, <3>1, <3>2
  <2>7. BatchEnd(s)' = Len(app'[s]) + Len(applyMsgs'[s])
    BY <2>6 DEF BatchEnd
  <2>8. BatchEnd(s) = Len(a) + Len(q)
    BY <1>6 DEF BatchEnd
  <2>9. BatchEnd(s)' = BatchEnd(s) /\ Len(app'[s]) >= Len(a)
    <3> HIDE DEF a, q
    <3> QED BY <1>0, <2>2, <2>3, <2>7, <2>8
  <2> QED BY <1>1, <1>4, <2>5, <2>9 DEF PositionAt
<1> QED BY <1>5, <1>6

\* A snapshot is installed only when it is ahead of commitIndex, hence of the service
LEMMA PositionInstall ==
  ASSUME TypeOK, SnapshotChain, SnapshotsWhole, ApplyPosition, NEW m \in snapReq, install(m),
         UNCHANGED svcVars
  PROVE  PositionAt(m.dst)'
<1> DEFINE s == m.dst
           i == m.lastIncludeIndex
<1>0. s \in Server /\ i \in Nat
  BY DEF TypeOK, NetTypeOK, InstallSnapshotArgs
<1>1. /\ applyMsgs'[s] = applyMsgs[s] /\ app'[s] = app[s]
      /\ pendingSnapshot'[s] = [snap |-> TRUE, index |-> i, data |-> m.data]
      /\ applyIndex'[s] = MaxOf(applyIndex[s], i)
  BY <1>0 DEF install, svcVars, TypeOK, ApplyTypeOK
<1>2. SnapshotBatch(s)' <=> SnapshotBatch(s)
  BY <1>1 DEF SnapshotBatch
<1>3. CommandBatch(s) => CommandBatch(s)'
  BY <1>1 DEF CommandBatch
<1>4. BatchEnd(s)' = BatchEnd(s)
  BY <1>1, <1>2 DEF BatchEnd
<1>5. PositionAt(s)
  BY <1>0 DEF ApplyPosition, PositionAt
<1>6. /\ applyIndex[s] \in Nat /\ commitIndex[s] \in Nat /\ BatchEnd(s) \in Nat
      /\ applyIndex[s] <= commitIndex[s]
  BY <1>0, PendingTypes DEF SnapshotChain
<1>7. i > commitIndex[s]
  BY <1>0, <1>6 DEF install, alreadyHas
<1>8. applyIndex[s] >= BatchEnd(s)
  BY <1>5, <1>6 DEF PositionAt
<1>9. applyIndex'[s] = i /\ i > BatchEnd(s)
  BY <1>0, <1>1, <1>6, <1>7, <1>8 DEF MaxOf
<1>10. Len(m.data) = i
  BY DEF SnapshotsWhole
<1>11. pendingSnapshot'[s] # Nil => PositionAt(s)'
  BY <1>1, <1>2, <1>3, <1>4, <1>5, <1>9, <1>10 DEF PositionAt
<1>12. pendingSnapshot'[s] # Nil
  <2>1. [snap |-> TRUE, index |-> i, data |-> m.data] \in ApplyMsg
    BY <1>0 DEF TypeOK, NetTypeOK, InstallSnapshotArgs, ApplyMsg
  <2> QED BY <1>1, <2>1, NilAssumption
<1> QED BY <1>11, <1>12

\* A restarted service is the snapshot it restored
LEMMA PositionRestart ==
  ASSUME TypeOK, SnapshotChain, ApplyPosition, NEW s \in Server, NEW d \in Persisted,
         d.snapshot = snapshot[s], d.lastIncludeIndex = lastIncludeIndex[s],
         restartFrom(s, d), NEW l \in Server
  PROVE  PositionAt(l)'
<1>1. CASE l # s
  BY <1>1, PositionSame DEF restartFrom, TypeOK, ApplyTypeOK
<1>2. CASE l = s
  <2>1. /\ applyMsgs'[s] = <<>> /\ app'[s] = snapshot[s] /\ pendingSnapshot'[s] = Nil
        /\ applyIndex'[s] = lastIncludeIndex[s]
    BY DEF restartFrom, TypeOK, ApplyTypeOK
  <2>2. Len(snapshot[s]) = lastIncludeIndex[s] /\ lastIncludeIndex[s] \in Nat
    BY DEF SnapshotChain, TypeOK, LogTypeOK
  <2>3. Len(applyMsgs'[s]) = 0
    BY <2>1
  <2>4. CommandBatch(s)' /\ ~ SnapshotBatch(s)'
    BY <2>3 DEF CommandBatch, SnapshotBatch
  <2>5. BatchEnd(s)' = lastIncludeIndex[s]
    BY <2>1, <2>2, <2>3, <2>4 DEF BatchEnd
  <2> QED BY <1>2, <2>1, <2>4, <2>5 DEF PositionAt
<1> QED BY <1>1, <1>2

\* Every step keeps applyIndex where the service will be once all is delivered.
LEMMA ApplyPositionStep ==
  ASSUME TypeOK, PersistComplete, SnapshotChain, SnapshotsWhole, ApplyPosition, Next
  PROVE  ApplyPosition'
<1> SUFFICES ASSUME NEW l \in Server PROVE PositionAt(l)'
  BY DEF ApplyPosition, PositionAt
<1> DEFINE Same == UNCHANGED <<applyIndex, pendingSnapshot, svcVars>>
<1>s. ASSUME Same PROVE PositionAt(l)'
  BY <1>s, PositionSame DEF svcVars
<1>1. ASSUME NEW s \in Server, NEW sent, startElection(s, sent) PROVE Same
  BY <1>1 DEF startElection, indexVars
<1>2. ASSUME NEW m \in voteReq, RequestVote(m) PROVE Same
  BY <1>2 DEF RequestVote, indexVars
<1>3. ASSUME NEW m \in voteRep, handleVoteReply(m) PROVE Same
  BY <1>3 DEF handleVoteReply, stepDown, indexVars
<1>4. ASSUME NEW s \in Server, NEW c \in Command, Start(s, c) PROVE Same
  BY <1>4 DEF Start, indexVars
<1>5. ASSUME NEW s \in Server, NEW p \in Server, sendInstallSnapshot(s, p) PROVE Same
  BY <1>5 DEF sendInstallSnapshot, indexVars
<1>6. ASSUME NEW s \in Server, NEW p \in Server, sendAppendEntries(s, p) PROVE Same
  BY <1>6 DEF sendAppendEntries, indexVars
<1>7. ASSUME NEW m \in appReq, AppendEntries(m) PROVE Same
  BY <1>7 DEF AppendEntries
<1>8. ASSUME NEW m \in appRep, handleAppendReply(m) PROVE Same
  BY <1>8 DEF handleAppendReply, stepDown, indexVars
<1>9. ASSUME NEW m \in snapReq, InstallSnapshot(m) PROVE PositionAt(l)'
  <2>1. CASE Same
    BY <1>s, <2>1
  <2>2. CASE install(m) /\ UNCHANGED svcVars
    <3>1. CASE l = m.dst
      BY <2>2, <3>1, PositionInstall
    <3>2. CASE l # m.dst
      BY <2>2, <3>2, PositionSame DEF install, svcVars, TypeOK, ApplyTypeOK
    <3> QED BY <3>1, <3>2
  <2> QED BY <1>9, <2>1, <2>2 DEF InstallSnapshot, rejectInstall, skipInstall, indexVars
<1>10. ASSUME NEW m \in snapRep, handleInstallReply(m) PROVE Same
  BY <1>10 DEF handleInstallReply, stepDown, indexVars
<1>11. ASSUME NEW s \in Server, applier(s) PROVE PositionAt(l)'
  <2>1. CASE l = s
    BY <1>11, <2>1, PositionTakeSnapshot, PositionTakeCommands DEF applier
  <2>2. CASE l # s
    BY <1>11, <2>2, PositionSame DEF applier, takeSnapshot, takeCommands, TypeOK, ApplyTypeOK
  <2> QED BY <2>1, <2>2
<1>12. ASSUME NEW s \in Server, deliver(s) PROVE PositionAt(l)'
  <2>1. CASE l = s
    BY <1>12, <2>1, PositionDeliver
  <2>2. CASE l # s
    BY <1>12, <2>2, PositionSame DEF deliver, indexVars, TypeOK, ApplyTypeOK
  <2> QED BY <2>1, <2>2
<1>13. ASSUME NEW s \in Server, Snapshot(s) PROVE Same
  BY <1>13 DEF Snapshot, indexVars
<1>14. ASSUME NEW s \in Server, Restart(s) PROVE PositionAt(l)'
  BY <1>14, DiskHolds, PositionRestart DEF Restart
<1>15. ASSUME NEW m \in voteReq \cup appReq \cup snapReq, crashInHandler(m) PROVE PositionAt(l)'
  <2> DEFINE d == [disk[m.dst] EXCEPT !.currentTerm = m.term, !.votedFor = Nil]
  <2>1. m.dst \in Server /\ m.term \in Nat
    BY DEF TypeOK, NetTypeOK, RequestVoteArgs, AppendEntriesArgs, InstallSnapshotArgs
  <2>2. /\ d \in Persisted /\ d.snapshot = snapshot[m.dst]
        /\ d.lastIncludeIndex = lastIncludeIndex[m.dst]
    BY <2>1, DiskHolds DEF Persisted
  <2>3. restartFrom(m.dst, d)
    BY <1>15 DEF crashInHandler
  <2> HIDE DEF d
  <2> QED BY <2>1, <2>2, <2>3, PositionRestart
<1> HIDE DEF Same
<1> QED BY <1>s, <1>1, <1>2, <1>3, <1>4, <1>5, <1>6, <1>7, <1>8, <1>9, <1>10, <1>11, <1>12,
           <1>13, <1>14, <1>15 DEF Next

\* In such a position nothing reaches the service out of order.
LEMMA ApplyInOrderHolds ==
  ASSUME TypeOK, ApplyPosition
  PROVE  ApplyInOrder
<1> SUFFICES ASSUME NEW s \in Server
             PROVE  /\ Len(app[s]) <= applyIndex[s]
                    /\ \A k \in 1 .. Len(applyMsgs[s]) :
                         IF applyMsgs[s][k].snap
                         THEN k = 1 /\ applyMsgs[s][k].index > Len(app[s])
                                /\ Len(applyMsgs[s][k].data) = applyMsgs[s][k].index
                         ELSE applyMsgs[s][k].index = Len(app[s]) + k
  BY DEF ApplyInOrder
<1>1. /\ applyIndex[s] \in Nat /\ Len(app[s]) \in Nat /\ BatchEnd(s) \in Nat
      /\ Len(applyMsgs[s]) \in Nat
      /\ \A k \in 1 .. Len(applyMsgs[s]) : applyMsgs[s][k] \in ApplyMsg
  BY PendingTypes
<1>2. PositionAt(s)
  BY DEF ApplyPosition, PositionAt
<1>3. applyIndex[s] >= BatchEnd(s)
  BY <1>1, <1>2 DEF PositionAt
<1>4. CASE SnapshotBatch(s)
  <2>1. Len(app[s]) <= BatchEnd(s)
    <3>1. BatchEnd(s) = applyMsgs[s][1].index /\ applyMsgs[s][1].index > Len(app[s])
      BY <1>4 DEF BatchEnd, SnapshotBatch
    <3> QED BY <1>1, <3>1
  <2>2. ASSUME NEW k \in 1 .. Len(applyMsgs[s]) PROVE k = 1
    BY <1>4 DEF SnapshotBatch
  <2> QED BY <1>1, <1>3, <1>4, <2>1, <2>2 DEF SnapshotBatch
<1>5. CASE ~ SnapshotBatch(s)
  <2>1. CommandBatch(s)
    BY <1>2, <1>5 DEF PositionAt
  <2>2. BatchEnd(s) = Len(app[s]) + Len(applyMsgs[s])
    BY <1>5 DEF BatchEnd
  <2>3. Len(app[s]) <= applyIndex[s]
    <3>1. \A a, b, n \in Nat : n >= a + b => a <= n
      OBVIOUS
    <3>2. applyIndex[s] >= Len(app[s]) + Len(applyMsgs[s])
      BY <1>3, <2>2
    <3> QED BY <1>1, <3>1, <3>2
  <2> QED BY <2>1, <2>3 DEF CommandBatch
<1> QED BY <1>4, <1>5

-----------------------------------------------------------------------------
\* Nothing moves back within one life of a process

\* ForwardStep for one peer
ForwardAt(l) ==
  /\ commitIndex'[l] >= commitIndex[l]
  /\ applyIndex'[l] >= applyIndex[l]
  /\ Len(app'[l]) >= Len(app[l])

\* A step that only commits moves forward.
LEMMA ForwardSame ==
  ASSUME TypeOK, NEW l \in Server, commitIndex'[l] >= commitIndex[l],
         applyIndex'[l] = applyIndex[l], app'[l] = app[l]
  PROVE  ForwardAt(l)
<1>1. applyIndex[l] \in Nat /\ Len(app[l]) \in Nat
  BY PendingTypes
<1> QED BY <1>1 DEF ForwardAt

\* No step but a restart takes commitIndex, applyIndex or the service back.
LEMMA ForwardHolds ==
  ASSUME TypeOK, SnapshotChain, ApplyPosition, Next
  PROVE  ForwardStep
<1> SUFFICES ASSUME NEW l \in Server, inc'[l] = inc[l] PROVE ForwardAt(l)
  BY DEF ForwardStep, ForwardAt
<1>0. commitIndex[l] \in Nat /\ applyIndex[l] \in Nat /\ Len(app[l]) \in Nat
  BY PendingTypes
<1> DEFINE Same == UNCHANGED <<commitIndex, applyIndex, app>>
<1>s. ASSUME Same PROVE ForwardAt(l)
  BY <1>s, <1>0, ForwardSame
<1>1. ASSUME NEW s \in Server, NEW sent, startElection(s, sent) PROVE Same
  BY <1>1 DEF startElection, indexVars, svcVars
<1>2. ASSUME NEW m \in voteReq, RequestVote(m) PROVE Same
  BY <1>2 DEF RequestVote, indexVars, svcVars
<1>3. ASSUME NEW m \in voteRep, handleVoteReply(m) PROVE Same
  BY <1>3 DEF handleVoteReply, stepDown, indexVars, svcVars
<1>4. ASSUME NEW s \in Server, NEW c \in Command, Start(s, c) PROVE Same
  BY <1>4 DEF Start, indexVars, svcVars
<1>5. ASSUME NEW s \in Server, NEW p \in Server, sendInstallSnapshot(s, p) PROVE Same
  BY <1>5 DEF sendInstallSnapshot, indexVars, svcVars
<1>6. ASSUME NEW s \in Server, NEW p \in Server, sendAppendEntries(s, p) PROVE Same
  BY <1>6 DEF sendAppendEntries, indexVars, svcVars
<1>7. ASSUME NEW m \in appReq, AppendEntries(m) PROVE ForwardAt(l)
  <2>1. /\ m.dst \in Server /\ m.leaderCommit \in Nat
        /\ m.prevLogIndex \in Nat /\ Len(m.entries) \in Nat
    BY DEF TypeOK, NetTypeOK, AppendEntriesArgs
  <2>2. UNCHANGED <<applyIndex, app>>
    BY <1>7 DEF AppendEntries, svcVars
  <2>3. CASE UNCHANGED commitIndex
    BY <1>s, <2>2, <2>3
  <2>4. CASE accept(m)
    <3> DEFINE n == followCommit(m.dst, m.leaderCommit, m.prevLogIndex + Len(m.entries))
    <3>1. m.prevLogIndex + Len(m.entries) \in Nat
      BY <2>1
    <3>2. n \in Nat /\ n >= commitIndex[m.dst]
      BY <2>1, <3>1, FollowCommitGrows
    <3>3. commitIndex' = [commitIndex EXCEPT ![m.dst] = n]
      BY <2>4 DEF accept
    <3> HIDE DEF n
    <3>4. commitIndex \in [Server -> Nat]
      BY <1>0 DEF TypeOK, ApplyTypeOK
    <3>5. commitIndex'[l] >= commitIndex[l]
      BY <2>1, <3>2, <3>3, <3>4
    <3> QED BY <2>2, <3>5, ForwardSame
  <2> QED BY <1>7, <2>3, <2>4 DEF AppendEntries, rejectStale, rejectShort, rejectMismatch
<1>8. ASSUME NEW m \in appRep, handleAppendReply(m) PROVE ForwardAt(l)
  <2>1. m.dst \in Server /\ m.src \in Server /\ m.matched \in Nat
    BY DEF TypeOK, NetTypeOK, AppendEntriesReply
  <2>2. UNCHANGED <<applyIndex, app>>
    BY <1>8 DEF handleAppendReply, stepDown, indexVars, svcVars
  <2>3. CASE UNCHANGED commitIndex
    BY <1>s, <2>2, <2>3
  <2>4. CASE acknowledge(m.dst, m.src, m.matched)
    BY <2>1, <2>2, <2>4, AcknowledgeCommit, ForwardSame
  <2> QED BY <1>8, <2>3, <2>4 DEF handleAppendReply, stepDown, indexVars
<1>9. ASSUME NEW m \in snapReq, InstallSnapshot(m) PROVE ForwardAt(l)
  <2>1. m.dst \in Server /\ m.lastIncludeIndex \in Nat /\ UNCHANGED app
    BY <1>9 DEF TypeOK, NetTypeOK, InstallSnapshotArgs, InstallSnapshot, svcVars
  <2>2. CASE UNCHANGED <<commitIndex, applyIndex>>
    BY <1>s, <2>1, <2>2
  <2>3. CASE install(m)
    <3>0. commitIndex \in [Server -> Nat] /\ applyIndex \in [Server -> Nat]
      BY <1>0 DEF TypeOK, ApplyTypeOK
    <3>1. commitIndex'[l] >= commitIndex[l]
      BY <2>1, <2>3, <3>0 DEF install, MaxOf
    <3>2. applyIndex'[l] >= applyIndex[l]
      BY <2>1, <2>3, <3>0 DEF install, MaxOf
    <3> QED BY <1>0, <2>1, <3>1, <3>2 DEF ForwardAt
  <2> QED BY <1>9, <2>2, <2>3 DEF InstallSnapshot, rejectInstall, skipInstall, indexVars
<1>10. ASSUME NEW m \in snapRep, handleInstallReply(m) PROVE ForwardAt(l)
  <2>1. m.dst \in Server /\ m.src \in Server /\ m.matched \in Nat
    BY DEF TypeOK, NetTypeOK, InstallSnapshotReply
  <2>2. UNCHANGED <<applyIndex, app>>
    BY <1>10 DEF handleInstallReply, stepDown, indexVars, svcVars
  <2>3. CASE UNCHANGED commitIndex
    BY <1>s, <2>2, <2>3
  <2>4. CASE acknowledge(m.dst, m.src, m.matched)
    BY <2>1, <2>2, <2>4, AcknowledgeCommit, ForwardSame
  <2> QED BY <1>10, <2>3, <2>4 DEF handleInstallReply, stepDown, indexVars
<1>11. ASSUME NEW s \in Server, applier(s) PROVE ForwardAt(l)
  <2>1. applyIndex[l] <= commitIndex[l]
    BY DEF SnapshotChain
  <2>2. applyIndex'[l] \in {applyIndex[l], commitIndex[l]} /\ UNCHANGED <<commitIndex, app>>
    BY <1>11 DEF applier, takeSnapshot, takeCommands, TypeOK, ApplyTypeOK
  <2> QED BY <1>0, <2>1, <2>2 DEF ForwardAt
<1>12. ASSUME NEW s \in Server, deliver(s) PROVE ForwardAt(l)
  <2>1. UNCHANGED <<commitIndex, applyIndex>>
    BY <1>12 DEF deliver, indexVars
  <2>2. Len(app'[l]) >= Len(app[l])
    <3>1. CASE l = s
      BY <1>12, <3>1, PositionDeliver
    <3>2. CASE l # s
      BY <1>0, <1>12, <3>2 DEF deliver, TypeOK, ApplyTypeOK
    <3> QED BY <3>1, <3>2
  <2> QED BY <1>0, <2>1, <2>2 DEF ForwardAt
<1>13. ASSUME NEW s \in Server, Snapshot(s) PROVE Same
  BY <1>13 DEF Snapshot, indexVars, svcVars
<1>14. ASSUME NEW s \in Server, NEW d, restartFrom(s, d) PROVE ForwardAt(l)
  <2>1. l # s
    BY <1>14 DEF restartFrom, TypeOK, ElectTypeOK
  <2>2. commitIndex'[l] = commitIndex[l] /\ applyIndex'[l] = applyIndex[l] /\ app'[l] = app[l]
    BY <1>14, <2>1 DEF restartFrom, TypeOK, ApplyTypeOK
  <2> QED BY <1>0, <2>2, ForwardSame
<1>15. ASSUME NEW s \in Server, Restart(s) PROVE ForwardAt(l)
  BY <1>14, <1>15 DEF Restart
<1>16. ASSUME NEW m \in voteReq \cup appReq \cup snapReq, crashInHandler(m) PROVE ForwardAt(l)
  <2>1. m.dst \in Server
    BY DEF TypeOK, NetTypeOK, RequestVoteArgs, AppendEntriesArgs, InstallSnapshotArgs
  <2> QED BY <1>14, <1>16, <2>1 DEF crashInHandler
<1> HIDE DEF Same
<1> QED BY <1>s, <1>1, <1>2, <1>3, <1>4, <1>5, <1>6, <1>7, <1>8, <1>9, <1>10, <1>11, <1>12,
           <1>13, <1>15, <1>16 DEF Next

-----------------------------------------------------------------------------
\* Elections: votes stand, each is counted at most once, and two leaders of one term
\* would share a voter.

\* VoteStep for one peer
VoteAt(l) ==
  /\ currentTerm'[l] >= currentTerm[l]
  /\ currentTerm'[l] = currentTerm[l] /\ votedFor[l] # Nil => votedFor'[l] = votedFor[l]

\* A peer that keeps its term and its vote keeps its word.
LEMMA VoteSame ==
  ASSUME TypeOK, NEW l \in Server, currentTerm'[l] = currentTerm[l], votedFor'[l] = votedFor[l]
  PROVE  VoteAt(l)
BY DEF VoteAt, TypeOK, ElectTypeOK

\* So does one that moves to a later term, where it has not voted.
LEMMA VoteLater ==
  ASSUME TypeOK, NEW l \in Server, NEW t \in Nat, t > currentTerm[l], currentTerm'[l] = t
  PROVE  VoteAt(l)
BY DEF VoteAt, TypeOK, ElectTypeOK

\* Stepping down to a later term clears the vote and breaks no word.
LEMMA VoteStepDown ==
  ASSUME TypeOK, NEW s \in Server, NEW t \in Nat, t > currentTerm[s], stepDown(s, t), NEW l \in Server
  PROVE  VoteAt(l)
<1>1. CASE l = s
  BY <1>1, VoteLater DEF stepDown, TypeOK, ElectTypeOK
<1>2. CASE l # s
  BY <1>2, VoteSame DEF stepDown, TypeOK, ElectTypeOK
<1> QED BY <1>1, <1>2

\* Following a leader clears the vote only in a later term.
LEMMA VoteFollow ==
  ASSUME TypeOK, NEW s \in Server, NEW t \in Nat, t >= currentTerm[s], follow(s, t), NEW l \in Server
  PROVE  VoteAt(l)
<1>1. CASE l = s /\ t > currentTerm[s]
  BY <1>1, VoteLater DEF follow, TypeOK, ElectTypeOK
<1>2. CASE l # s \/ ~ (t > currentTerm[s])
  <2>1. currentTerm'[l] = currentTerm[l]
    BY <1>2 DEF follow, TypeOK, ElectTypeOK
  <2>2. votedFor'[l] = votedFor[l]
    BY <1>2 DEF follow, votedForAt, TypeOK, ElectTypeOK
  <2> QED BY <2>1, <2>2, VoteSame
<1> QED BY <1>1, <1>2

\* No step lowers a term or changes a vote within its term.
LEMMA VoteStepHolds ==
  ASSUME TypeOK, PersistComplete, Next
  PROVE  VoteStep
<1> SUFFICES ASSUME NEW l \in Server PROVE VoteAt(l)
  BY DEF VoteStep, VoteAt
<1> DEFINE Same == UNCHANGED <<currentTerm, votedFor>>
<1>s. ASSUME Same PROVE VoteAt(l)
  BY <1>s, VoteSame
<1>1. ASSUME NEW s \in Server, NEW sent, startElection(s, sent) PROVE VoteAt(l)
  <2>1. CASE l = s
    <3>1. currentTerm[s] \in Nat /\ currentTerm'[s] = currentTerm[s] + 1
      BY <1>1 DEF startElection, TypeOK, ElectTypeOK
    <3> QED BY <2>1, <3>1 DEF VoteAt
  <2>2. CASE l # s
    BY <1>1, <2>2, VoteSame DEF startElection, TypeOK, ElectTypeOK
  <2> QED BY <2>1, <2>2
<1>2. ASSUME NEW m \in voteReq, RequestVote(m) PROVE VoteAt(l)
  <2>1. m.dst \in Server /\ m.term \in Nat /\ currentTerm[m.dst] \in Nat
    BY DEF TypeOK, NetTypeOK, RequestVoteArgs, ElectTypeOK
  <2>2. CASE l # m.dst
    BY <1>2, <2>2, VoteSame DEF RequestVote, TypeOK, ElectTypeOK
  <2>3. CASE l = m.dst /\ m.term > currentTerm[m.dst]
    <3>1. currentTerm'[l] = m.term
      BY <1>2, <2>1, <2>3 DEF RequestVote, MaxOf, TypeOK, ElectTypeOK
    <3> QED BY <2>1, <2>3, <3>1, VoteLater
  <2>4. CASE l = m.dst /\ ~ (m.term > currentTerm[m.dst])
    <3>1. currentTerm'[l] = currentTerm[l]
      BY <1>2, <2>1, <2>4 DEF RequestVote, MaxOf, TypeOK, ElectTypeOK
    <3>2. canGrant(l, m) => votedFor[l] \in {Nil, m.src}
      BY <2>4 DEF canGrant, votedForAt
    <3>3. votedFor'[l] = IF canGrant(l, m) THEN m.src ELSE votedFor[l]
      BY <1>2, <2>4 DEF RequestVote, votedForAt, TypeOK, ElectTypeOK
    <3> QED BY <2>1, <2>4, <3>1, <3>2, <3>3 DEF VoteAt
  <2> QED BY <2>2, <2>3, <2>4
<1>3. ASSUME NEW m \in voteRep, handleVoteReply(m) PROVE VoteAt(l)
  <2>1. m.dst \in Server /\ m.term \in Nat
    BY DEF TypeOK, NetTypeOK, RequestVoteReply
  <2> QED BY <1>3, <1>s, <2>1, VoteStepDown DEF handleVoteReply, electVars
<1>4. ASSUME NEW s \in Server, NEW c \in Command, Start(s, c) PROVE Same
  BY <1>4 DEF Start, electVars
<1>5. ASSUME NEW s \in Server, NEW p \in Server, sendInstallSnapshot(s, p) PROVE Same
  BY <1>5 DEF sendInstallSnapshot, electVars
<1>6. ASSUME NEW s \in Server, NEW p \in Server, sendAppendEntries(s, p) PROVE Same
  BY <1>6 DEF sendAppendEntries, electVars
<1>7. ASSUME NEW m \in appReq, AppendEntries(m) PROVE VoteAt(l)
  <2>1. m.dst \in Server /\ m.term \in Nat
    BY DEF TypeOK, NetTypeOK, AppendEntriesArgs
  <2>2. CASE rejectStale(m)
    BY <1>s, <2>2 DEF rejectStale, electVars
  <2>3. CASE m.term >= currentTerm[m.dst] /\ follow(m.dst, m.term)
    BY <2>1, <2>3, VoteFollow
  <2> QED BY <1>7, <2>2, <2>3 DEF AppendEntries, rejectShort, rejectMismatch, accept
<1>8. ASSUME NEW m \in appRep, handleAppendReply(m) PROVE VoteAt(l)
  <2>1. m.dst \in Server /\ m.term \in Nat
    BY DEF TypeOK, NetTypeOK, AppendEntriesReply
  <2>2. CASE Same
    BY <1>s, <2>2
  <2>3. CASE m.term > currentTerm[m.dst] /\ stepDown(m.dst, m.term)
    BY <2>1, <2>3, VoteStepDown
  <2> QED BY <1>8, <2>2, <2>3 DEF handleAppendReply, electVars
<1>9. ASSUME NEW m \in snapReq, InstallSnapshot(m) PROVE VoteAt(l)
  <2>1. m.dst \in Server /\ m.term \in Nat
    BY DEF TypeOK, NetTypeOK, InstallSnapshotArgs
  <2>2. CASE rejectInstall(m)
    BY <1>s, <2>2 DEF rejectInstall, electVars
  <2>3. CASE m.term >= currentTerm[m.dst] /\ follow(m.dst, m.term)
    BY <2>1, <2>3, VoteFollow
  <2> QED BY <1>9, <2>2, <2>3 DEF InstallSnapshot, skipInstall, install
<1>10. ASSUME NEW m \in snapRep, handleInstallReply(m) PROVE VoteAt(l)
  <2>1. m.dst \in Server /\ m.term \in Nat
    BY DEF TypeOK, NetTypeOK, InstallSnapshotReply
  <2>2. CASE Same
    BY <1>s, <2>2
  <2>3. CASE m.term > currentTerm[m.dst] /\ stepDown(m.dst, m.term)
    BY <2>1, <2>3, VoteStepDown
  <2> QED BY <1>10, <2>2, <2>3 DEF handleInstallReply, electVars
<1>11. ASSUME NEW s \in Server, applier(s) \/ deliver(s) \/ Snapshot(s) PROVE Same
  BY <1>11 DEF applier, deliver, Snapshot, electVars
<1>12. ASSUME NEW s \in Server, Restart(s) PROVE VoteAt(l)
  <2>1. CASE l = s
    BY <1>12, <2>1, DiskHolds, VoteSame DEF Restart, restartFrom, TypeOK, ElectTypeOK
  <2>2. CASE l # s
    BY <1>12, <2>2, VoteSame DEF Restart, restartFrom, TypeOK, ElectTypeOK
  <2> QED BY <2>1, <2>2
<1>13. ASSUME NEW m \in voteReq \cup appReq \cup snapReq, crashInHandler(m) PROVE VoteAt(l)
  <2> DEFINE d == [disk[m.dst] EXCEPT !.currentTerm = m.term, !.votedFor = Nil]
  <2>1. m.dst \in Server /\ m.term \in Nat /\ m.term > currentTerm[m.dst]
    BY <1>13 DEF TypeOK, NetTypeOK, RequestVoteArgs, AppendEntriesArgs, InstallSnapshotArgs,
                 crashInHandler
  <2>2. d.currentTerm = m.term
    BY <2>1, DiskHolds DEF Persisted
  <2>3. restartFrom(m.dst, d)
    BY <1>13 DEF crashInHandler
  <2> HIDE DEF d
  <2>4. CASE l = m.dst
    BY <2>1, <2>2, <2>3, <2>4, VoteLater DEF restartFrom, TypeOK, ElectTypeOK
  <2>5. CASE l # m.dst
    BY <2>3, <2>5, VoteSame DEF restartFrom, TypeOK, ElectTypeOK
  <2> QED BY <2>4, <2>5
<1> HIDE DEF Same
<1> QED BY <1>s, <1>1, <1>2, <1>3, <1>4, <1>5, <1>6, <1>7, <1>8, <1>9, <1>10, <1>11, <1>12,
           <1>13 DEF Next

-----------------------------------------------------------------------------
\* Which steps matter to an election

\* c stops being a candidate or leader, or goes on with the votes it has
Settled(c) ==
  state'[c] # "Follower" =>
    /\ state'[c] = state[c] /\ currentTerm'[c] = currentTerm[c]
    /\ voters'[c] = voters[c] /\ voteCount'[c] = voteCount[c]

\* A step that asks for no vote, gives none and counts none
Quiet ==
  /\ voteReq' \subseteq voteReq
  /\ voteRep' \subseteq voteRep
  /\ \A c \in Server : Settled(c)

\* Stepping down ends a candidacy or leadership.
LEMMA SettledStepDown ==
  ASSUME TypeOK, NEW s \in Server, NEW t, stepDown(s, t), NEW c \in Server
  PROVE  Settled(c)
<1>1. c = s => state'[c] = "Follower"
  BY DEF stepDown, TypeOK, ElectTypeOK
<1>2. c # s => state'[c] = state[c] /\ currentTerm'[c] = currentTerm[c]
  BY DEF stepDown, TypeOK, ElectTypeOK
<1> QED BY <1>1, <1>2 DEF stepDown, candVars, Settled

\* So does following a leader.
LEMMA SettledFollow ==
  ASSUME TypeOK, NEW s \in Server, NEW t, follow(s, t), UNCHANGED candVars, NEW c \in Server
  PROVE  Settled(c)
<1>1. c = s => state'[c] = "Follower"
  BY DEF follow, TypeOK, ElectTypeOK
<1>2. c # s => state'[c] = state[c] /\ currentTerm'[c] = currentTerm[c]
  BY DEF follow, TypeOK, ElectTypeOK
<1> QED BY <1>1, <1>2 DEF candVars, Settled

\* A step that touches no election state settles every peer.
LEMMA SettledSame ==
  ASSUME UNCHANGED <<electVars, candVars>>, NEW c \in Server
  PROVE  Settled(c)
BY DEF electVars, candVars, Settled

\* A restart asks for no vote, gives none and counts none.
LEMMA QuietRestart ==
  ASSUME TypeOK, NEW s \in Server, NEW d, restartFrom(s, d), voteReq' \subseteq voteReq
  PROVE  Quiet
<1>1. ASSUME NEW c \in Server PROVE Settled(c)
  <2>1. c = s => state'[c] = "Follower"
    BY DEF restartFrom, TypeOK, ElectTypeOK
  <2>2. c # s => /\ state'[c] = state[c] /\ currentTerm'[c] = currentTerm[c]
                 /\ voters'[c] = voters[c] /\ voteCount'[c] = voteCount[c]
    BY DEF restartFrom, TypeOK, ElectTypeOK
  <2> QED BY <2>1, <2>2 DEF Settled
<1> QED BY <1>1 DEF restartFrom, Quiet

\* Only startElection, RequestVote and the reply handler touch the votes.
LEMMA ElectionSteps ==
  ASSUME TypeOK, Next
  PROVE  \/ \E s \in Server : \E sent \in SUBSET (Server \ {s}) : startElection(s, sent)
         \/ \E m \in voteReq : RequestVote(m)
         \/ \E m \in voteRep : handleVoteReply(m)
         \/ Quiet
<1>s. ASSUME UNCHANGED <<electVars, candVars, voteNet>> PROVE Quiet
  BY <1>s, SettledSame DEF Quiet, voteNet
<1>4. ASSUME NEW s \in Server, NEW c \in Command, Start(s, c) PROVE Quiet
  BY <1>4, <1>s DEF Start
<1>5. ASSUME NEW s \in Server, NEW p \in Server, sendInstallSnapshot(s, p) PROVE Quiet
  BY <1>5, <1>s DEF sendInstallSnapshot
<1>6. ASSUME NEW s \in Server, NEW p \in Server, sendAppendEntries(s, p) PROVE Quiet
  BY <1>6, <1>s DEF sendAppendEntries
<1>7. ASSUME NEW m \in appReq, AppendEntries(m) PROVE Quiet
  <2>1. m.dst \in Server /\ UNCHANGED <<candVars, voteNet>>
    BY <1>7 DEF TypeOK, NetTypeOK, AppendEntriesArgs, AppendEntries
  <2>2. CASE rejectStale(m)
    BY <1>s, <2>1, <2>2 DEF rejectStale
  <2>3. CASE follow(m.dst, m.term)
    BY <2>1, <2>3, SettledFollow DEF Quiet, voteNet
  <2> QED BY <1>7, <2>2, <2>3 DEF AppendEntries, rejectShort, rejectMismatch, accept
<1>8. ASSUME NEW m \in appRep, handleAppendReply(m) PROVE Quiet
  <2>1. m.dst \in Server /\ UNCHANGED voteNet
    BY <1>8 DEF TypeOK, NetTypeOK, AppendEntriesReply, handleAppendReply
  <2>2. CASE UNCHANGED <<electVars, candVars>>
    BY <1>s, <2>1, <2>2
  <2>3. CASE stepDown(m.dst, m.term)
    BY <2>1, <2>3, SettledStepDown DEF Quiet, voteNet
  <2> QED BY <1>8, <2>2, <2>3 DEF handleAppendReply
<1>9. ASSUME NEW m \in snapReq, InstallSnapshot(m) PROVE Quiet
  <2>1. m.dst \in Server /\ UNCHANGED <<candVars, voteNet>>
    BY <1>9 DEF TypeOK, NetTypeOK, InstallSnapshotArgs, InstallSnapshot
  <2>2. CASE rejectInstall(m)
    BY <1>s, <2>1, <2>2 DEF rejectInstall
  <2>3. CASE follow(m.dst, m.term)
    BY <2>1, <2>3, SettledFollow DEF Quiet, voteNet
  <2> QED BY <1>9, <2>2, <2>3 DEF InstallSnapshot, skipInstall, install
<1>10. ASSUME NEW m \in snapRep, handleInstallReply(m) PROVE Quiet
  <2>1. m.dst \in Server /\ UNCHANGED voteNet
    BY <1>10 DEF TypeOK, NetTypeOK, InstallSnapshotReply, handleInstallReply
  <2>2. CASE UNCHANGED <<electVars, candVars>>
    BY <1>s, <2>1, <2>2
  <2>3. CASE stepDown(m.dst, m.term)
    BY <2>1, <2>3, SettledStepDown DEF Quiet, voteNet
  <2> QED BY <1>10, <2>2, <2>3 DEF handleInstallReply
<1>11. ASSUME NEW s \in Server, applier(s) \/ deliver(s) \/ Snapshot(s) PROVE Quiet
  BY <1>s, <1>11 DEF applier, deliver, Snapshot
<1>12. ASSUME NEW s \in Server, Restart(s) PROVE Quiet
  BY <1>12, QuietRestart DEF Restart
<1>13. ASSUME NEW m \in voteReq \cup appReq \cup snapReq, crashInHandler(m) PROVE Quiet
  <2>1. m.dst \in Server
    BY DEF TypeOK, NetTypeOK, RequestVoteArgs, AppendEntriesArgs, InstallSnapshotArgs
  <2>2. voteReq' \subseteq voteReq
    BY <1>13 DEF crashInHandler
  <2> QED BY <1>13, <2>1, <2>2, QuietRestart DEF crashInHandler
<1> QED BY <1>4, <1>5, <1>6, <1>7, <1>8, <1>9, <1>10, <1>11, <1>12, <1>13 DEF Next

\* Answering a vote request changes nobody's candidacy but to end it
LEMMA RequestVoteSettled ==
  ASSUME TypeOK, NEW m \in voteReq, RequestVote(m), NEW c \in Server
  PROVE  Settled(c)
<1>1. m.dst \in Server /\ m.term \in Nat /\ currentTerm[m.dst] \in Nat
  BY DEF TypeOK, NetTypeOK, RequestVoteArgs, ElectTypeOK
<1>2. CASE c = m.dst /\ (canGrant(m.dst, m) \/ m.term > currentTerm[m.dst])
  BY <1>1, <1>2 DEF RequestVote, Settled, TypeOK, ElectTypeOK
<1>3. CASE c # m.dst \/ ~ (canGrant(m.dst, m) \/ m.term > currentTerm[m.dst])
  <2>1. state'[c] = state[c]
    BY <1>1, <1>3 DEF RequestVote, TypeOK, ElectTypeOK
  <2>2. currentTerm'[c] = currentTerm[c]
    BY <1>1, <1>3 DEF RequestVote, MaxOf, TypeOK, ElectTypeOK
  <2> QED BY <2>1, <2>2 DEF RequestVote, candVars, Settled
<1> QED BY <1>2, <1>3

\* A vote reply is counted, or it changes nothing but to end a candidacy
LEMMA HandleVoteReplyCases ==
  ASSUME TypeOK, NEW m \in voteRep, handleVoteReply(m)
  PROVE  \/ Quiet
         \/ /\ countable(m.dst, m)
            /\ voteRep' = voteRep \ {m} /\ UNCHANGED <<voteReq, currentTerm>>
            /\ voteCount' = [voteCount EXCEPT ![m.dst] = @ + 1]
            /\ voters' = [voters EXCEPT ![m.dst] = @ \cup {m.src}]
            /\ \/ /\ voteCount[m.dst] + 1 > Half
                  /\ state' = [state EXCEPT ![m.dst] = "Leader"]
               \/ UNCHANGED state
<1>1. m.dst \in Server /\ voteRep' = voteRep \ {m} /\ UNCHANGED voteReq
  BY DEF TypeOK, NetTypeOK, RequestVoteReply, handleVoteReply
<1>2. CASE stepDown(m.dst, m.term)
  BY <1>1, <1>2, SettledStepDown DEF Quiet
<1>3. CASE UNCHANGED <<electVars, candVars>>
  BY <1>1, <1>3, SettledSame DEF Quiet
<1>4. CASE /\ countable(m.dst, m)
           /\ voteCount' = [voteCount EXCEPT ![m.dst] = @ + 1]
           /\ voters' = [voters EXCEPT ![m.dst] = @ \cup {m.src}]
           /\ IF voteCount[m.dst] + 1 > Half THEN becomeLeader(m.dst)
              ELSE UNCHANGED <<state, leadVars>>
           /\ UNCHANGED currentTerm
  BY <1>1, <1>4 DEF becomeLeader
<1> QED BY <1>2, <1>3, <1>4 DEF handleVoteReply

-----------------------------------------------------------------------------
\* Every vote counted or on its way was given, and only one per peer and term

\* v gives its vote for c in term t in this very step
Gives(v, c, t) ==
  /\ currentTerm'[v] = t
  /\ votedFor'[v] = c
  /\ currentTerm[v] < t \/ votedFor[v] \in {Nil, c}

\* A step that counts no vote and sends none creates no backing.
LEMMA BacksQuiet ==
  ASSUME NEW v \in Server, NEW c \in Server, NEW t \in Nat,
         voteRep' \subseteq voteRep, Settled(c), Backs(v, c, t)'
  PROVE  Backs(v, c, t)
<1>1. CASE \E r \in voteRep' : r.voteGranted /\ r.src = v /\ r.dst = c /\ r.argTerm = t
  BY <1>1 DEF Backs
<1>2. CASE state'[c] # "Follower" /\ currentTerm'[c] = t /\ v \in voters'[c]
  BY <1>2 DEF Backs, Settled
<1> QED BY <1>1, <1>2 DEF Backs

\* The answer to a vote request backs its candidate only if it grants the vote.
LEMMA BacksGranted ==
  ASSUME TypeOK, NEW m \in voteReq, RequestVote(m), NEW v \in Server, NEW c \in Server,
         NEW t \in Nat, Backs(v, c, t)'
  PROVE  Backs(v, c, t) \/ (v = m.dst /\ c = m.src /\ t = m.term /\ canGrant(m.dst, m))
<1>1. CASE state'[c] # "Follower" /\ currentTerm'[c] = t /\ v \in voters'[c]
  BY <1>1, RequestVoteSettled DEF Settled, Backs
<1>2. CASE \E r \in voteRep' : r.voteGranted /\ r.src = v /\ r.dst = c /\ r.argTerm = t
  <2>1. PICK r \in voteRep' : r.voteGranted /\ r.src = v /\ r.dst = c /\ r.argTerm = t
    BY <1>2
  <2>2. CASE r \in voteRep
    BY <2>1, <2>2 DEF Backs
  <2>3. CASE r \notin voteRep
    <3> DEFINE g == canGrant(m.dst, m)
    <3>0. r = [src |-> m.dst, dst |-> m.src, argTerm |-> m.term,
               term |-> MaxOf(m.term, currentTerm[m.dst]), voteGranted |-> g]
      BY <2>1, <2>3, Zenon DEF RequestVote
    <3> HIDE DEF g
    <3>1. r.src = m.dst /\ r.dst = m.src /\ r.argTerm = m.term /\ r.voteGranted = g
      BY <3>0
    <3> USE DEF g
    <3> QED BY <2>1, <3>1
  <2> QED BY <2>2, <2>3
<1> QED BY <1>1, <1>2 DEF Backs

\* A vote that is counted now was on its way.
LEMMA BacksCounted ==
  ASSUME TypeOK, NEW m \in voteRep, handleVoteReply(m), NEW v \in Server, NEW c \in Server,
         NEW t \in Nat, Backs(v, c, t)'
  PROVE  Backs(v, c, t)
<1>1. CASE Quiet
  BY <1>1, BacksQuiet DEF Quiet
<1>2. CASE /\ countable(m.dst, m)
           /\ voteRep' = voteRep \ {m} /\ UNCHANGED currentTerm
           /\ voters' = [voters EXCEPT ![m.dst] = @ \cup {m.src}]
           /\ state' = [state EXCEPT ![m.dst] = "Leader"] \/ UNCHANGED state
  <2>1. CASE \E r \in voteRep' : r.voteGranted /\ r.src = v /\ r.dst = c /\ r.argTerm = t
    BY <1>2, <2>1 DEF Backs
  <2>2. CASE state'[c] # "Follower" /\ currentTerm'[c] = t /\ v \in voters'[c]
    <3>1. CASE c # m.dst
      BY <1>2, <2>2, <3>1 DEF Backs, TypeOK, ElectTypeOK
    <3>2. CASE c = m.dst /\ v \in voters[c]
      BY <1>2, <2>2, <3>2 DEF Backs, countable
    <3>3. CASE c = m.dst /\ v = m.src
      BY <1>2, <2>2, <3>3 DEF Backs, countable
    <3>4. voters'[c] = IF c = m.dst THEN voters[c] \cup {m.src} ELSE voters[c]
      BY <1>2 DEF TypeOK, ElectTypeOK
    <3> QED BY <2>2, <3>1, <3>2, <3>3, <3>4
  <2> QED BY <2>1, <2>2 DEF Backs
<1> QED BY <1>1, <1>2, HandleVoteReplyCases

\* A candidate that starts out is backed by itself.
LEMMA BacksStart ==
  ASSUME TypeOK, NEW s \in Server, NEW sent, startElection(s, sent), NEW v \in Server,
         NEW c \in Server, NEW t \in Nat, Backs(v, c, t)'
  PROVE  Backs(v, c, t) \/ (c = s /\ v = s /\ t = currentTerm[s] + 1)
<1>1. CASE \E r \in voteRep' : r.voteGranted /\ r.src = v /\ r.dst = c /\ r.argTerm = t
  BY <1>1 DEF startElection, Backs
<1>2. CASE state'[c] # "Follower" /\ currentTerm'[c] = t /\ v \in voters'[c]
  <2>1. CASE c # s
    BY <1>2, <2>1 DEF startElection, Backs, TypeOK, ElectTypeOK
  <2>2. CASE c = s
    <3>1. voters'[s] = {s} /\ currentTerm'[s] = currentTerm[s] + 1
      BY DEF startElection, TypeOK, ElectTypeOK
    <3> QED BY <1>2, <2>2, <3>1
  <2> QED BY <2>1, <2>2
<1> QED BY <1>1, <1>2 DEF Backs

\* A vote counted or on its way was so before, or is given in this step.
LEMMA BacksStep ==
  ASSUME TypeOK, Next, NEW v \in Server, NEW c \in Server, NEW t \in Nat, Backs(v, c, t)'
  PROVE  Backs(v, c, t) \/ Gives(v, c, t)
<1>1. ASSUME NEW s \in Server, NEW sent, startElection(s, sent)
      PROVE  Backs(v, c, t) \/ Gives(v, c, t)
  <2>1. CASE c = s /\ v = s /\ t = currentTerm[s] + 1
    <3>1. votedFor'[s] = s /\ currentTerm[s] \in Nat /\ currentTerm'[s] = currentTerm[s] + 1
      BY <1>1 DEF startElection, TypeOK, ElectTypeOK
    <3> QED BY <2>1, <3>1 DEF Gives
  <2> QED BY <1>1, <2>1, BacksStart
<1>2. ASSUME NEW m \in voteReq, RequestVote(m) PROVE Backs(v, c, t) \/ Gives(v, c, t)
  <2>0. m.dst \in Server /\ m.src \in Server /\ m.term \in Nat /\ currentTerm[m.dst] \in Nat
    BY DEF TypeOK, NetTypeOK, RequestVoteArgs, ElectTypeOK
  <2>1. CASE v = m.dst /\ c = m.src /\ t = m.term /\ canGrant(m.dst, m)
    <3>1. m.term >= currentTerm[m.dst]
      BY <2>1 DEF canGrant
    <3>2. currentTerm'[m.dst] = m.term
      BY <1>2, <2>0, <3>1 DEF RequestVote, MaxOf, TypeOK, ElectTypeOK
    <3>3. votedFor'[m.dst] = m.src
      BY <1>2, <2>0, <2>1 DEF RequestVote, TypeOK, ElectTypeOK
    <3>4. currentTerm[m.dst] < m.term \/ votedFor[m.dst] \in {Nil, m.src}
      BY <2>0, <2>1 DEF canGrant, votedForAt
    <3> QED BY <2>1, <3>2, <3>3, <3>4 DEF Gives
  <2> QED BY <1>2, <2>1, BacksGranted
<1>3. ASSUME NEW m \in voteRep, handleVoteReply(m) PROVE Backs(v, c, t)
  BY <1>3, BacksCounted
<1>4. ASSUME Quiet PROVE Backs(v, c, t)
  BY <1>4, BacksQuiet DEF Quiet
<1> QED BY <1>1, <1>2, <1>3, <1>4, ElectionSteps

\* Every vote counted or on its way has been given.
LEMMA VotesGivenStep ==
  ASSUME TypeOK, TypeOK', PersistComplete, VotesGiven, Next
  PROVE  VotesGiven'
<1> SUFFICES ASSUME NEW v \in Server, NEW c \in Server, NEW t \in Nat, Backs(v, c, t)'
             PROVE  Voted(v, c, t)'
  BY DEF VotesGiven
<1>0. currentTerm[v] \in Nat /\ currentTerm'[v] \in Nat /\ c # Nil
  BY ServerAssumption DEF TypeOK, ElectTypeOK
<1>1. CASE Gives(v, c, t)
  BY <1>1 DEF Gives, Voted
<1>2. CASE Backs(v, c, t)
  <2>1. Voted(v, c, t)
    BY <1>2 DEF VotesGiven
  <2>2. VoteAt(v)
    BY VoteStepHolds DEF VoteStep, VoteAt
  <2> QED BY <1>0, <2>1, <2>2 DEF Voted, VoteAt
<1> QED BY <1>1, <1>2, BacksStep

\* No peer backs two candidates of one term.
LEMMA VotesUniqueStep ==
  ASSUME TypeOK, TypeOK', PersistComplete, VotesGiven, VotesUnique, Next
  PROVE  VotesUnique'
<1>1. ASSUME NEW v \in Server, NEW c \in Server, NEW d \in Server, NEW t \in Nat,
             Gives(v, c, t), Backs(v, d, t)
      PROVE  c = d
  <2>1. currentTerm[v] \in Nat /\ currentTerm'[v] \in Nat /\ c # Nil /\ d # Nil
    BY ServerAssumption DEF TypeOK, ElectTypeOK
  <2>2. Voted(v, d, t)
    BY <1>1 DEF VotesGiven
  <2>3. VoteAt(v)
    BY VoteStepHolds DEF VoteStep, VoteAt
  <2> QED BY <1>1, <2>1, <2>2, <2>3 DEF Gives, Voted, VoteAt
<1>2. ASSUME NEW v \in Server, NEW c \in Server, NEW d \in Server, NEW t \in Nat,
             Gives(v, c, t), Gives(v, d, t)
      PROVE  c = d
  BY <1>2 DEF Gives
<1>3. ASSUME NEW v \in Server, NEW c \in Server, NEW d \in Server, NEW t \in Nat,
             Backs(v, c, t)', Backs(v, d, t)'
      PROVE  c = d
  <2>1. Backs(v, c, t) \/ Gives(v, c, t)
    BY <1>3, BacksStep
  <2>2. Backs(v, d, t) \/ Gives(v, d, t)
    BY <1>3, BacksStep
  <2>3. Backs(v, c, t) /\ Backs(v, d, t) => c = d
    BY DEF VotesUnique
  <2> QED BY <1>1, <1>2, <2>1, <2>2, <2>3
<1> QED BY <1>3 DEF VotesUnique

-----------------------------------------------------------------------------
\* No vote is counted twice

\* Terms never fall.
LEMMA TermGrows ==
  ASSUME TypeOK, TypeOK', PersistComplete, Next, NEW s \in Server
  PROVE  currentTerm[s] \in Nat /\ currentTerm'[s] \in Nat /\ currentTerm'[s] >= currentTerm[s]
BY VoteStepHolds DEF VoteStep, TypeOK, ElectTypeOK

\* A quiet step keeps request, reply and counted vote apart.
LEMMA AskedOnceQuiet ==
  ASSUME TypeOK, TypeOK', PersistComplete, Next, AskedOnce, Quiet
  PROVE  AskedOnce'
<1>1. ASSUME NEW m \in voteReq' PROVE RequestOnce(m)'
  <2>1. m \in voteReq /\ m.src \in Server /\ m.term \in Nat
    BY DEF Quiet, TypeOK, NetTypeOK, RequestVoteArgs
  <2>2. RequestOnce(m) /\ Settled(m.src)
    BY <2>1 DEF AskedOnce, Quiet
  <2>3. m.term <= currentTerm'[m.src]
    BY <2>1, <2>2, TermGrows DEF RequestOnce
  <2> QED BY <2>2, <2>3 DEF RequestOnce, Settled, Quiet
<1>2. ASSUME NEW r \in voteRep' PROVE ReplyOnce(r)'
  <2>1. r \in voteRep /\ r.dst \in Server /\ r.argTerm \in Nat
    BY DEF Quiet, TypeOK, NetTypeOK, RequestVoteReply
  <2>2. ReplyOnce(r) /\ Settled(r.dst)
    BY <2>1 DEF AskedOnce, Quiet
  <2>3. r.argTerm <= currentTerm'[r.dst]
    BY <2>1, <2>2, TermGrows DEF ReplyOnce
  <2> QED BY <2>2, <2>3 DEF ReplyOnce, Settled, Quiet
<1> QED BY <1>1, <1>2 DEF AskedOnce

\* A new election is of a new term, so its requests are the first of their kind.
LEMMA AskedOnceStart ==
  ASSUME TypeOK, TypeOK', PersistComplete, Next, AskedOnce, NEW s \in Server,
         NEW sent \in SUBSET (Server \ {s}), startElection(s, sent)
  PROVE  AskedOnce'
<1> DEFINE T == currentTerm[s]
           new(p) == [src |-> s, dst |-> p, inc |-> inc[s], term |-> T + 1,
                      lastLogIndex |-> lastIndex(s), lastLogTerm |-> lastTerm(s)]
<1>0. /\ T \in Nat /\ currentTerm'[s] = T + 1 /\ voters'[s] = {s} /\ UNCHANGED voteRep
      /\ \A c \in Server : c # s => /\ currentTerm'[c] = currentTerm[c] /\ state'[c] = state[c]
                                    /\ voters'[c] = voters[c]
  BY DEF startElection, TypeOK, ElectTypeOK
<1>1. voteReq' = voteReq \cup {new(p) : p \in sent}
  BY DEF startElection
<1>2. \A m \in voteReq' : m \in voteReq \/ (m.src = s /\ m.dst # s /\ m.term = T + 1)
  BY <1>1
<1>3. \A m, n \in voteReq' : m \notin voteReq /\ n \notin voteReq /\ m.dst = n.dst => m = n
  BY <1>1
<1>4. \A m \in voteReq : m.src = s => m.term \in Nat /\ m.term <= T
  BY DEF AskedOnce, RequestOnce, TypeOK, NetTypeOK, RequestVoteArgs
<1>5. \A r \in voteRep : r.dst = s => r.argTerm \in Nat /\ r.argTerm <= T
  BY DEF AskedOnce, ReplyOnce, TypeOK, NetTypeOK, RequestVoteReply
<1> HIDE DEF T, new
<1>6. ASSUME NEW m \in voteReq' PROVE RequestOnce(m)'
  <2>1. CASE m \in voteReq
    <3>1. m.src \in Server /\ m.term \in Nat /\ RequestOnce(m)
      BY <2>1 DEF AskedOnce, TypeOK, NetTypeOK, RequestVoteArgs
    <3>2. m.term <= currentTerm'[m.src]
      BY <3>1, TermGrows DEF RequestOnce
    <3>3. ASSUME NEW n \in voteReq', Asks(n, m.src, m.dst, m.term) PROVE n = m
      <4>1. n \in voteReq
        BY <1>0, <1>2, <1>4, <2>1, <3>3 DEF Asks
      <4> QED BY <3>1, <3>3, <4>1 DEF RequestOnce
    <3>4. ASSUME state'[m.src] # "Follower", currentTerm'[m.src] = m.term
          PROVE  m.dst \notin voters'[m.src]
      <4>1. m.src # s
        BY <1>0, <1>4, <2>1, <3>4
      <4> QED BY <1>0, <3>1, <3>4, <4>1 DEF RequestOnce
    <3> QED BY <1>0, <3>1, <3>2, <3>3, <3>4 DEF RequestOnce
  <2>2. CASE m \notin voteReq
    <3>1. m.src = s /\ m.dst # s /\ m.term = T + 1
      BY <1>2, <2>2
    <3>2. m.term <= currentTerm'[m.src]
      BY <1>0, <3>1
    <3>3. ASSUME NEW n \in voteReq', Asks(n, m.src, m.dst, m.term) PROVE n = m
      <4>1. n \notin voteReq
        BY <1>0, <1>4, <3>1, <3>3 DEF Asks
      <4> QED BY <1>3, <2>2, <3>3, <4>1 DEF Asks
    <3>4. ASSUME NEW r \in voteRep', Answers(r, m.src, m.dst, m.term) PROVE FALSE
      BY <1>0, <1>5, <3>1, <3>4 DEF Answers
    <3> QED BY <1>0, <3>1, <3>2, <3>3, <3>4 DEF RequestOnce
  <2> QED BY <2>1, <2>2
<1>7. ASSUME NEW r \in voteRep' PROVE ReplyOnce(r)'
  <2>1. r \in voteRep /\ r.dst \in Server /\ r.argTerm \in Nat /\ ReplyOnce(r)
    BY <1>0 DEF AskedOnce, TypeOK, NetTypeOK, RequestVoteReply
  <2>2. r.argTerm <= currentTerm'[r.dst]
    BY <2>1, TermGrows DEF ReplyOnce
  <2>3. ASSUME state'[r.dst] # "Follower", currentTerm'[r.dst] = r.argTerm
        PROVE  r.src \notin voters'[r.dst]
    <3>1. r.dst # s
      BY <1>0, <1>5, <2>1, <2>3
    <3> QED BY <1>0, <2>1, <2>3, <3>1 DEF ReplyOnce
  <2> QED BY <1>0, <2>1, <2>2, <2>3 DEF ReplyOnce
<1> QED BY <1>6, <1>7 DEF AskedOnce

\* The reply takes the place of the request.
LEMMA AskedOnceVote ==
  ASSUME TypeOK, TypeOK', PersistComplete, Next, AskedOnce, NEW m \in voteReq, RequestVote(m)
  PROVE  AskedOnce'
<1> DEFINE g == canGrant(m.dst, m)
           a == [src |-> m.dst, dst |-> m.src, argTerm |-> m.term,
                 term |-> MaxOf(m.term, currentTerm[m.dst]), voteGranted |-> g]
<1>0. m.src \in Server /\ m.term \in Nat /\ RequestOnce(m)
  BY DEF AskedOnce, TypeOK, NetTypeOK, RequestVoteArgs
<1>1. voteReq' = voteReq \ {m} /\ voteRep' \subseteq voteRep \cup {a}
  BY DEF RequestVote
<1> HIDE DEF g
<1>2. Answers(a, m.src, m.dst, m.term)
  BY DEF Answers
<1>3. \A c, p, t : Answers(a, c, p, t) => c = m.src /\ p = m.dst /\ t = m.term
  BY DEF Answers
<1> HIDE DEF a
<1>4. ASSUME NEW c \in Server PROVE Settled(c)
  BY RequestVoteSettled
<1>5. ASSUME NEW n \in voteReq' PROVE RequestOnce(n)'
  <2>1. n \in voteReq /\ n # m /\ n.src \in Server /\ n.term \in Nat /\ RequestOnce(n)
    BY <1>1 DEF AskedOnce, TypeOK, NetTypeOK, RequestVoteArgs
  <2>2. n.term <= currentTerm'[n.src]
    BY <2>1, TermGrows DEF RequestOnce
  <2>3. ~ Answers(a, n.src, n.dst, n.term)
    BY <1>0, <1>3, <2>1 DEF RequestOnce, Asks
  <2>4. \A r \in voteRep' : ~ Answers(r, n.src, n.dst, n.term)
    BY <1>1, <2>1, <2>3 DEF RequestOnce
  <2>5. state'[n.src] # "Follower" /\ currentTerm'[n.src] = n.term => n.dst \notin voters'[n.src]
    BY <1>4, <2>1 DEF RequestOnce, Settled
  <2> QED BY <1>1, <2>1, <2>2, <2>4, <2>5 DEF RequestOnce
<1>6. ASSUME NEW r \in voteRep' PROVE ReplyOnce(r)'
  <2>1. CASE r \in voteRep
    <3>1. r.dst \in Server /\ r.argTerm \in Nat /\ ReplyOnce(r)
      BY <2>1 DEF AskedOnce, TypeOK, NetTypeOK, RequestVoteReply
    <3>2. r.argTerm <= currentTerm'[r.dst]
      BY <3>1, TermGrows DEF ReplyOnce
    <3>3. ASSUME NEW q \in voteRep', Answers(q, r.dst, r.src, r.argTerm) PROVE q = r
      <4>1. CASE q \in voteRep
        BY <3>1, <3>3, <4>1 DEF ReplyOnce
      <4>2. CASE q = a
        <5>1. Answers(r, m.src, m.dst, m.term)
          BY <1>3, <3>3, <4>2 DEF Answers
        <5> QED BY <1>0, <2>1, <5>1 DEF RequestOnce
      <4> QED BY <1>1, <4>1, <4>2
    <3>4. state'[r.dst] # "Follower" /\ currentTerm'[r.dst] = r.argTerm => r.src \notin voters'[r.dst]
      BY <1>4, <3>1 DEF ReplyOnce, Settled
    <3> QED BY <3>2, <3>3, <3>4 DEF ReplyOnce
  <2>2. CASE r = a /\ r \notin voteRep
    <3>1. r.dst = m.src /\ r.src = m.dst /\ r.argTerm = m.term
      BY <1>2, <2>2 DEF Answers
    <3>2. r.argTerm <= currentTerm'[r.dst]
      BY <1>0, <3>1, TermGrows DEF RequestOnce
    <3>3. ASSUME NEW q \in voteRep', Answers(q, r.dst, r.src, r.argTerm) PROVE q = r
      BY <1>0, <1>1, <2>2, <3>1, <3>3 DEF RequestOnce
    <3>4. state'[r.dst] # "Follower" /\ currentTerm'[r.dst] = r.argTerm => r.src \notin voters'[r.dst]
      BY <1>0, <1>4, <3>1 DEF RequestOnce, Settled
    <3> QED BY <3>2, <3>3, <3>4 DEF ReplyOnce
  <2> QED BY <1>1, <2>1, <2>2
<1> QED BY <1>5, <1>6 DEF AskedOnce

\* The counted vote takes the place of the reply.
LEMMA AskedOnceCount ==
  ASSUME TypeOK, AskedOnce, NEW m \in voteRep, countable(m.dst, m),
         voteRep' = voteRep \ {m}, UNCHANGED <<voteReq, currentTerm>>,
         voters' = [voters EXCEPT ![m.dst] = @ \cup {m.src}],
         state' = [state EXCEPT ![m.dst] = "Leader"] \/ UNCHANGED state
  PROVE  AskedOnce'
<1>0. /\ m.dst \in Server /\ m.src \in Server /\ ReplyOnce(m)
      /\ state[m.dst] = "Candidate" /\ currentTerm[m.dst] = m.argTerm
  BY DEF AskedOnce, TypeOK, NetTypeOK, RequestVoteReply, countable
<1>1. \A c \in Server : voters'[c] = IF c = m.dst THEN voters[c] \cup {m.src} ELSE voters[c]
  BY DEF TypeOK, ElectTypeOK
<1>2. \A c \in Server : state'[c] # "Follower" => state[c] # "Follower"
  BY <1>0 DEF TypeOK, ElectTypeOK
<1>3. ASSUME NEW n \in voteReq' PROVE RequestOnce(n)'
  <2>1. n \in voteReq /\ n.src \in Server /\ RequestOnce(n)
    BY DEF AskedOnce, TypeOK, NetTypeOK, RequestVoteArgs
  <2>2. ASSUME state'[n.src] # "Follower", currentTerm[n.src] = n.term
        PROVE  n.dst \notin voters'[n.src]
    <3>1. n.dst \notin voters[n.src]
      BY <1>2, <2>1, <2>2 DEF RequestOnce
    <3>2. n.src = m.dst => n.dst # m.src
      <4> SUFFICES ASSUME n.src = m.dst, n.dst = m.src PROVE FALSE
        OBVIOUS
      <4>1. Answers(m, n.src, n.dst, n.term)
        BY <1>0, <2>2 DEF Answers
      <4> QED BY <2>1, <4>1 DEF RequestOnce
    <3> QED BY <1>1, <2>1, <3>1, <3>2
  <2> QED BY <2>1, <2>2 DEF RequestOnce
<1>4. ASSUME NEW r \in voteRep' PROVE ReplyOnce(r)'
  <2>1. r \in voteRep /\ r # m /\ r.dst \in Server /\ ReplyOnce(r)
    BY DEF AskedOnce, TypeOK, NetTypeOK, RequestVoteReply
  <2>2. ASSUME state'[r.dst] # "Follower", currentTerm[r.dst] = r.argTerm
        PROVE  r.src \notin voters'[r.dst]
    <3>1. r.src \notin voters[r.dst]
      BY <1>2, <2>1, <2>2 DEF ReplyOnce
    <3>2. r.dst = m.dst => r.src # m.src
      <4> SUFFICES ASSUME r.dst = m.dst, r.src = m.src PROVE FALSE
        OBVIOUS
      <4>1. Answers(r, m.dst, m.src, m.argTerm)
        BY <1>0, <2>2 DEF Answers
      <4> QED BY <1>0, <2>1, <4>1 DEF ReplyOnce
    <3> QED BY <1>1, <2>1, <3>1, <3>2
  <2> QED BY <2>1, <2>2 DEF ReplyOnce
<1> QED BY <1>3, <1>4 DEF AskedOnce

\* Every step keeps at most one of request, reply and counted vote per peer and term.
LEMMA AskedOnceStep ==
  ASSUME TypeOK, TypeOK', PersistComplete, AskedOnce, Next
  PROVE  AskedOnce'
<1>1. ASSUME NEW m \in voteRep, handleVoteReply(m) PROVE AskedOnce'
  BY <1>1, HandleVoteReplyCases, AskedOnceQuiet, AskedOnceCount
<1> QED BY <1>1, ElectionSteps, AskedOnceStart, AskedOnceVote, AskedOnceQuiet

-----------------------------------------------------------------------------
\* The count is the number of voters

\* Sets of peers are finite.
LEMMA VotersFinite ==
  ASSUME TypeOK, NEW c \in Server
  PROVE  voters[c] \subseteq Server /\ IsFiniteSet(voters[c])
<1>1. voters[c] \in SUBSET Server
  BY DEF TypeOK, ElectTypeOK
<1> QED BY <1>1, ServerAssumption, FS_Subset

\* A reply is counted at most once, so voteCount stays the number of voters, and
\* only a candidate that more than Half back becomes leader (raft.go:821-829).
LEMMA VotesCountedStep ==
  ASSUME TypeOK, AskedOnce, VotesCounted, Next
  PROVE  VotesCounted'
<1> SUFFICES ASSUME NEW c \in Server, state'[c] # "Follower"
             PROVE  /\ currentTerm'[c] > 0 /\ voteCount'[c] = Cardinality(voters'[c])
                    /\ state'[c] = "Leader" => voteCount'[c] > Half
  BY DEF VotesCounted
<1>s. ASSUME Settled(c)
      PROVE  /\ currentTerm'[c] > 0 /\ voteCount'[c] = Cardinality(voters'[c])
             /\ state'[c] = "Leader" => voteCount'[c] > Half
  BY <1>s DEF Settled, VotesCounted
<1>1. ASSUME NEW s \in Server, NEW sent, startElection(s, sent)
      PROVE  /\ currentTerm'[c] > 0 /\ voteCount'[c] = Cardinality(voters'[c])
             /\ state'[c] = "Leader" => voteCount'[c] > Half
  <2>1. CASE c = s
    <3>1. /\ voteCount'[c] = 1 /\ voters'[c] = {s} /\ state'[c] = "Candidate"
          /\ currentTerm[c] \in Nat /\ currentTerm'[c] = currentTerm[c] + 1
      BY <1>1, <2>1 DEF startElection, TypeOK, ElectTypeOK
    <3>2. currentTerm'[c] > 0
      BY <3>1
    <3>3. voteCount'[c] = Cardinality(voters'[c])
      BY <3>1, FS_Singleton
    <3> QED BY <3>1, <3>2, <3>3
  <2>2. CASE c # s
    BY <1>1, <1>s, <2>2 DEF startElection, Settled, TypeOK, ElectTypeOK
  <2> QED BY <2>1, <2>2
<1>2. ASSUME NEW m \in voteReq, RequestVote(m) PROVE Settled(c)
  BY <1>2, RequestVoteSettled
<1>3. ASSUME NEW m \in voteRep, countable(m.dst, m),
             voteCount' = [voteCount EXCEPT ![m.dst] = @ + 1],
             voters' = [voters EXCEPT ![m.dst] = @ \cup {m.src}], UNCHANGED currentTerm,
             \/ voteCount[m.dst] + 1 > Half /\ state' = [state EXCEPT ![m.dst] = "Leader"]
             \/ UNCHANGED state
      PROVE  /\ currentTerm'[c] > 0 /\ voteCount'[c] = Cardinality(voters'[c])
             /\ state'[c] = "Leader" => voteCount'[c] > Half
  <2>1. CASE c = m.dst
    <3>1. state[c] = "Candidate" /\ m.src \notin voters[c]
      BY <1>3, <2>1 DEF countable, AskedOnce, ReplyOnce
    <3>2. voteCount[c] = Cardinality(voters[c]) /\ voteCount[c] \in Nat /\ currentTerm'[c] > 0
      BY <1>3, <3>1 DEF VotesCounted, TypeOK, ElectTypeOK
    <3>3. voters'[c] = voters[c] \cup {m.src} /\ voteCount'[c] = voteCount[c] + 1
      BY <1>3, <2>1 DEF TypeOK, ElectTypeOK
    <3>4. Cardinality(voters[c] \cup {m.src}) = Cardinality(voters[c]) + 1
      BY <3>1, VotersFinite, FS_AddElement
    <3>5. state'[c] = "Leader" => voteCount[c] + 1 > Half
      BY <1>3, <2>1, <3>1
    <3> QED BY <3>2, <3>3, <3>4, <3>5
  <2>2. CASE c # m.dst
    BY <1>3, <1>s, <2>2 DEF Settled, TypeOK, ElectTypeOK
  <2> QED BY <2>1, <2>2
<1>4. ASSUME NEW m \in voteRep, handleVoteReply(m)
      PROVE  /\ currentTerm'[c] > 0 /\ voteCount'[c] = Cardinality(voters'[c])
             /\ state'[c] = "Leader" => voteCount'[c] > Half
  BY <1>3, <1>4, <1>s, HandleVoteReplyCases DEF Quiet
<1> QED BY <1>1, <1>2, <1>4, <1>s, ElectionSteps DEF Quiet

\* Two sets of more than Half of the peers share one, and it voted once.
LEMMA ElectionSafetyHolds ==
  ASSUME TypeOK, VotesUnique, VotesCounted
  PROVE  ElectionSafety
<1> SUFFICES ASSUME NEW s \in Server, NEW t \in Server, state[s] = "Leader",
                    state[t] = "Leader", currentTerm[s] = currentTerm[t]
             PROVE  s = t
  BY DEF ElectionSafety
<1>1. Cardinality(voters[s]) > Half /\ Cardinality(voters[t]) > Half
  BY DEF VotesCounted
<1>2. /\ Cardinality(voters[s]) \in Nat /\ Cardinality(voters[t]) \in Nat
      /\ Cardinality(Server) \in Nat
  BY VotersFinite, ServerAssumption, FS_CardinalityType
<1>3. Cardinality(voters[s]) + Cardinality(voters[t]) > Cardinality(Server)
  BY <1>1, <1>2 DEF Half
<1>4. PICK v \in Server : v \in voters[s] /\ v \in voters[t]
  BY <1>3, VotersFinite, ServerAssumption, FS_MajoritiesIntersect
<1>5. currentTerm[s] \in Nat
  BY DEF TypeOK, ElectTypeOK
<1>6. Backs(v, s, currentTerm[s]) /\ Backs(v, t, currentTerm[s])
  BY <1>4 DEF Backs
<1> QED BY <1>5, <1>6 DEF VotesUnique

-----------------------------------------------------------------------------
\* The invariant and the theorems

\* What every reachable state satisfies.  The type invariant needs the index and
\* snapshot parts (a leader reads its log at nextIndex - 1, the applier takes
\* commitIndex - applyIndex commands), which need the messages to fit; the
\* election part needs what the votes in the network promise.
Inv ==
  /\ TypeOK /\ PersistComplete
  /\ NextIndexInRange /\ MessagesFit
  /\ SnapshotChain /\ SnapshotsWhole /\ ApplyPosition
  /\ VotesGiven /\ VotesUnique /\ AskedOnce /\ VotesCounted

\* Every step of raft.go keeps the types.
LEMMA TypeStep ==
  ASSUME TypeOK, NextIndexInRange, SnapshotChain, Next
  PROVE  TypeOK'
<1>1. ASSUME NEW s \in Server, NEW sent \in SUBSET (Server \ {s}), startElection(s, sent)
      PROVE  TypeOK'
  <2>1. sent \in SUBSET Server
    OBVIOUS
  <2> QED BY <1>1, <2>1, StartElectionType
<1> QED BY <1>1, RequestVoteType, HandleVoteReplyType, StartType, SendInstallSnapshotType,
           SendAppendEntriesType, AppendEntriesType, HandleAppendReplyType,
           InstallSnapshotType, HandleInstallReplyType, ApplierType, DeliverType,
           SnapshotType, RestartType, CrashInHandlerType DEF Next

\* A cluster whose persisters are empty starts in the invariant (Make).
LEMMA InitType ==
  ASSUME Init
  PROVE  TypeOK
<1>0. emptyDisk \in Persisted /\ Len(emptyDisk.log) = 1
  BY DEF emptyDisk, Persisted, Entry, Value
<1>1. /\ disk = [s \in Server |-> emptyDisk] /\ log = [s \in Server |-> emptyDisk.log]
      /\ currentTerm = [s \in Server |-> emptyDisk.currentTerm]
      /\ votedFor = [s \in Server |-> emptyDisk.votedFor]
      /\ lastIncludeIndex = [s \in Server |-> emptyDisk.lastIncludeIndex]
      /\ lastIncludeTerm = [s \in Server |-> emptyDisk.lastIncludeTerm]
      /\ snapshot = [s \in Server |-> emptyDisk.snapshot]
      /\ commitIndex = [s \in Server |-> emptyDisk.lastIncludeIndex]
      /\ applyIndex = [s \in Server |-> emptyDisk.lastIncludeIndex]
      /\ app = [s \in Server |-> emptyDisk.snapshot]
  BY DEF Init, InitFrom
<1>2. /\ emptyDisk.currentTerm \in Nat /\ emptyDisk.votedFor \in Server \cup {Nil}
      /\ emptyDisk.log \in Seq(Entry) /\ emptyDisk.lastIncludeIndex \in Nat
      /\ emptyDisk.lastIncludeTerm \in Nat /\ emptyDisk.snapshot \in Seq(Value)
  BY <1>0 DEF Persisted
<1>3. ElectTypeOK
  BY <1>1, <1>2 DEF Init, InitFrom, ElectTypeOK
<1>4. LogTypeOK
  <2>1. /\ log \in [Server -> Seq(Entry)] /\ lastIncludeIndex \in [Server -> Nat]
        /\ lastIncludeTerm \in [Server -> Nat] /\ snapshot \in [Server -> Seq(Value)]
    BY <1>1, <1>2
  <2>2. disk \in [Server -> Persisted]
    BY <1>0, <1>1
  <2>3. \A s \in Server : log[s] = emptyDisk.log /\ disk[s] = emptyDisk
    BY <1>1
  <2>4. \A s \in Server : Len(log[s]) >= 1 /\ Len(disk[s].log) >= 1
    BY <1>0, <2>3
  <2> QED BY <2>1, <2>2, <2>4 DEF LogTypeOK
<1>5. ApplyTypeOK
  BY <1>1, <1>2 DEF Init, InitFrom, ApplyTypeOK
<1>6. LeadTypeOK
  BY DEF Init, InitFrom, LeadTypeOK
<1>7. NetTypeOK
  BY DEF Init, InitFrom, NetTypeOK
<1> QED BY <1>3, <1>4, <1>5, <1>6, <1>7 DEF TypeOK

\* Likewise for the rest of the invariant.
LEMMA InitInv ==
  ASSUME Init
  PROVE  Inv
<1>1. TypeOK
  BY InitType
<1>2. PersistComplete
  BY DEF Init, InitFrom, emptyDisk, PersistComplete
<1>3. \A s \in Server : state[s] = "Follower"
  BY DEF Init, InitFrom
<1>4. voteReq = {} /\ voteRep = {} /\ appReq = {} /\ appRep = {} /\ snapReq = {} /\ snapRep = {}
  BY DEF Init, InitFrom
<1>5. NextIndexInRange /\ MessagesFit /\ SnapshotsWhole /\ AskedOnce /\ VotesCounted
  BY <1>3, <1>4 DEF NextIndexInRange, MessagesFit, SnapshotsWhole, AskedOnce, VotesCounted
<1>6. VotesGiven /\ VotesUnique
  BY <1>3, <1>4 DEF VotesGiven, VotesUnique, Backs
<1>7. SnapshotChain
  BY DEF Init, InitFrom, emptyDisk, SnapshotChain
<1>8. ASSUME NEW s \in Server
      PROVE  /\ applyMsgs[s] = <<>> /\ app[s] = <<>> /\ applyIndex[s] = 0
             /\ pendingSnapshot[s] = Nil
  BY DEF Init, InitFrom, emptyDisk
<1>9. ASSUME NEW s \in Server PROVE CommandBatch(s) /\ BatchEnd(s) = 0
  <2>1. Len(applyMsgs[s]) = 0 /\ Len(app[s]) = 0
    BY <1>8
  <2>2. ~ SnapshotBatch(s) /\ CommandBatch(s)
    BY <2>1 DEF CommandBatch, SnapshotBatch
  <2> QED BY <2>1, <2>2 DEF BatchEnd
<1>10. ApplyPosition
  BY <1>8, <1>9 DEF ApplyPosition
<1> QED BY <1>1, <1>2, <1>5, <1>6, <1>7, <1>10 DEF Inv

\* A step that changes nothing keeps the invariant.
LEMMA StutterInv ==
  ASSUME Inv, UNCHANGED vars
  PROVE  Inv'
<1> USE DEF vars, electVars, candVars, logVars, indexVars, leadVars, svcVars, voteNet, appNet, snapNet
<1>1. TypeOK'
  BY DEF Inv, TypeOK, ElectTypeOK, LogTypeOK, ApplyTypeOK, LeadTypeOK, NetTypeOK
<1>2. PersistComplete' /\ SnapshotChain' /\ SnapshotsWhole'
  BY DEF Inv, PersistComplete, SnapshotChain, SnapshotsWhole
<1>3. NextIndexInRange'
  BY DEF Inv, NextIndexInRange, lastIndex
<1>4. MessagesFit'
  BY DEF Inv, MessagesFit, Fits, lastIndex
<1>5. ApplyPosition'
  <2>1. ASSUME NEW s \in Server
        PROVE  /\ SnapshotBatch(s)' <=> SnapshotBatch(s)
               /\ CommandBatch(s)' <=> CommandBatch(s)
    BY DEF SnapshotBatch, CommandBatch
  <2>2. ASSUME NEW s \in Server PROVE BatchEnd(s)' = BatchEnd(s)
    BY <2>1 DEF BatchEnd
  <2>3. UNCHANGED <<pendingSnapshot, applyIndex>>
    OBVIOUS
  <2> QED BY <2>1, <2>2, <2>3 DEF Inv, ApplyPosition
<1>6. VotesGiven' /\ VotesUnique'
  BY DEF Inv, VotesGiven, VotesUnique, Backs, Voted
<1>7. AskedOnce' /\ VotesCounted'
  BY DEF Inv, AskedOnce, RequestOnce, ReplyOnce, VotesCounted
<1> QED BY <1>1, <1>2, <1>3, <1>4, <1>5, <1>6, <1>7 DEF Inv

\* Every step keeps the invariant.
LEMMA NextInv ==
  ASSUME Inv, Next
  PROVE  Inv'
<1> USE DEF Inv
<1>1. TypeOK'
  BY TypeStep
<1>2. PersistComplete'
  BY PersistStep
<1>3. NextIndexInRange' /\ MessagesFit'
  BY <1>1, NextIndexStep, MessagesFitStep
<1>4. SnapshotChain' /\ SnapshotsWhole'
  BY <1>1, SnapshotChainStep, SnapshotsWholeStep
<1>5. ApplyPosition'
  BY ApplyPositionStep
<1>6. VotesGiven' /\ VotesUnique'
  BY <1>1, VotesGivenStep, VotesUniqueStep
<1>7. AskedOnce' /\ VotesCounted'
  BY <1>1, AskedOnceStep, VotesCountedStep
<1> QED BY <1>1, <1>2, <1>3, <1>4, <1>5, <1>6, <1>7

\* The invariant is inductive.
THEOREM Invariance == Spec => []Inv
<1>1. Init => Inv
  BY InitInv
<1>2. Inv /\ [Next]_vars => Inv'
  BY NextInv, StutterInv
<1> QED BY <1>1, <1>2, PTL DEF Spec

\* No operation of raft.go leaves a log without its sentinel, an index below zero
\* or a message with a field out of its type.
THEOREM TypeCorrect == Spec => []TypeOK
<1>1. Inv => TypeOK
  BY DEF Inv
<1> QED BY <1>1, Invariance, PTL

\* Whenever rf.mu is free the persister holds what a restart must bring back.
THEOREM DurableState == Spec => []PersistComplete
<1>1. Inv => PersistComplete
  BY DEF Inv
<1> QED BY <1>1, Invariance, PTL

\* A leader never indexes past its log, neither to build a request nor to commit.
THEOREM LeaderIndexes == Spec => []NextIndexInRange
<1>1. Inv => NextIndexInRange
  BY DEF Inv
<1> QED BY <1>1, Invariance, PTL

\* The stored snapshot ends where the log begins, below applyIndex and commitIndex.
THEOREM SnapshotsMeetLog == Spec => []SnapshotChain
<1>1. Inv => SnapshotChain
  BY DEF Inv
<1> QED BY <1>1, Invariance, PTL

\* The service sees every command once and in order, and only snapshots ahead of it.
THEOREM InOrder == Spec => []ApplyInOrder
<1>1. Inv => ApplyInOrder
  BY ApplyInOrderHolds DEF Inv
<1> QED BY <1>1, Invariance, PTL

\* At most one leader per term, with any number of peers and restarts.
THEOREM OneLeaderPerTerm == Spec => []ElectionSafety
<1>1. Inv => ElectionSafety
  BY ElectionSafetyHolds DEF Inv
<1> QED BY <1>1, Invariance, PTL

\* Terms never fall and no vote is taken back, restarts included.
THEOREM VotesStand == Spec => VoteStable
<1>1. Inv /\ Next => VoteStep
  BY VoteStepHolds DEF Inv
<1>2. Inv /\ UNCHANGED vars => [VoteStep]_vars
  OBVIOUS
<1>3. Inv /\ [Next]_vars => [VoteStep]_vars
  BY <1>1, <1>2
<1> QED BY <1>3, Invariance, PTL DEF Spec, VoteStable

\* Within one life of a peer its commitIndex, its applyIndex and its service only
\* move forward.
THEOREM NothingUndone == Spec => AppliedGrows
<1>1. Inv /\ Next => ForwardStep
  BY ForwardHolds DEF Inv
<1>2. Inv /\ [Next]_vars => [ForwardStep]_vars
  BY <1>1
<1> QED BY <1>2, Invariance, PTL DEF Spec, AppliedGrows

=============================================================================
