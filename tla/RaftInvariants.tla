-------------------------- MODULE RaftInvariants --------------------------
(***************************************************************************)
(* What strengthens the safety properties of Raft into invariants that     *)
(* every step preserves.  They say what the messages in the network, the   *)
(* counted votes and the applier's batch promise about the peers they came *)
(* from.                                                                   *)
(***************************************************************************)
EXTENDS Raft

\* Peer l led term t when its log reached at least up to index i.  If l still is
\* in that term it has led it, and as long as it leads, its log has not shrunk.
Fits(l, t, i) ==
  /\ t <= currentTerm[l]
  /\ t = currentTerm[l] =>
       /\ state[l] # "Candidate"
       /\ state[l] = "Leader" => i <= lastIndex(l)

\* Every replication request covers, and every reply acknowledges, only entries
\* that the leader who asked has.
MessagesFit ==
  /\ \A m \in appReq : Fits(m.src, m.term, m.prevLogIndex + Len(m.entries))
  /\ \A r \in appRep : Fits(r.dst, r.argTerm, r.matched)
  /\ \A m \in snapReq : Fits(m.src, m.term, m.lastIncludeIndex)
  /\ \A r \in snapRep : Fits(r.dst, r.argTerm, r.matched)

\* A snapshot on the wire ends at the index it is sent for.
SnapshotsWhole == \A m \in snapReq : Len(m.data) = m.lastIncludeIndex

\* The applier's batch: one snapshot ahead of the service, or the commands that
\* come next.
SnapshotBatch(s) ==
  /\ Len(applyMsgs[s]) = 1
  /\ applyMsgs[s][1].snap
  /\ applyMsgs[s][1].index > Len(app[s])
  /\ Len(applyMsgs[s][1].data) = applyMsgs[s][1].index
CommandBatch(s) ==
  \A k \in 1 .. Len(applyMsgs[s]) :
    /\ ~ applyMsgs[s][k].snap
    /\ applyMsgs[s][k].index = Len(app[s]) + k
    /\ Len(applyMsgs[s][k].data) = 1

\* How far the service gets once the batch is delivered
BatchEnd(s) ==
  IF SnapshotBatch(s) THEN applyMsgs[s][1].index ELSE Len(app[s]) + Len(applyMsgs[s])

\* applyIndex is where the service will be once the batch, and then the pending
\* snapshot if there is one, is delivered.
ApplyPosition ==
  \A s \in Server :
    /\ SnapshotBatch(s) \/ CommandBatch(s)
    /\ IF pendingSnapshot[s] = Nil THEN applyIndex[s] = BatchEnd(s)
       ELSE /\ pendingSnapshot[s].snap
            /\ pendingSnapshot[s].index = applyIndex[s]
            /\ Len(pendingSnapshot[s].data) = applyIndex[s]
            /\ applyIndex[s] > BatchEnd(s)

\* Peer v has voted for c in term t, or is past that term.
Voted(v, c, t) ==
  \/ currentTerm[v] > t
  \/ currentTerm[v] = t /\ votedFor[v] = c

\* v's vote for c in term t has been counted, or is on its way to c.
Backs(v, c, t) ==
  \/ state[c] # "Follower" /\ currentTerm[c] = t /\ v \in voters[c]
  \/ \E r \in voteRep : r.voteGranted /\ r.src = v /\ r.dst = c /\ r.argTerm = t

\* Only votes that were really given count, and nobody gives two in one term.
VotesGiven == \A v, c \in Server : \A t \in Nat : Backs(v, c, t) => Voted(v, c, t)
VotesUnique ==
  \A v, c, d \in Server : \A t \in Nat : Backs(v, c, t) /\ Backs(v, d, t) => c = d

\* c asked p for its vote in term t and has not heard from it yet, or the reply
\* is on its way
Asks(m, c, p, t) == m.src = c /\ m.dst = p /\ m.term = t
Answers(r, c, p, t) == r.dst = c /\ r.src = p /\ r.argTerm = t

\* A candidate asks each peer once per term, so no vote is counted twice: of the
\* request, the reply and the counted vote there is only one at a time.
RequestOnce(m) ==
  /\ m.term <= currentTerm[m.src]
  /\ m.dst # m.src
  /\ \A n \in voteReq : Asks(n, m.src, m.dst, m.term) => n = m
  /\ \A r \in voteRep : ~ Answers(r, m.src, m.dst, m.term)
  /\ state[m.src] # "Follower" /\ currentTerm[m.src] = m.term => m.dst \notin voters[m.src]
ReplyOnce(r) ==
  /\ r.argTerm <= currentTerm[r.dst]
  /\ \A q \in voteRep : Answers(q, r.dst, r.src, r.argTerm) => q = r
  /\ state[r.dst] # "Follower" /\ currentTerm[r.dst] = r.argTerm => r.src \notin voters[r.dst]
AskedOnce ==
  /\ \A m \in voteReq : RequestOnce(m)
  /\ \A r \in voteRep : ReplyOnce(r)

\* voteCount is the number of different voters, and a leader has more than Half.
\* Nobody runs for term 0.
VotesCounted ==
  \A c \in Server : state[c] # "Follower" =>
    /\ currentTerm[c] > 0
    /\ voteCount[c] = Cardinality(voters[c])
    /\ state[c] = "Leader" => voteCount[c] > Half

-----------------------------------------------------------------------------
\* The past.  What was committed is not in the state: the leader may have crashed,
\* and the logs that made the majority may be compacted since.  The invariant says
\* that there is a past that explains the state:
\*   L[t]     the log of the leader of term t, from index 1 on, as far as it got,
\*   W[t]     that leader, Nil if term t has none so far,
\*   A[v][t]  how far peer v has acknowledged the log L[t],
\*   F[s]     the log of peer s from index 1 on, the compacted part included.

HistoryTypes(L, W, A, F) ==
  /\ L \in [Nat -> Seq(Entry)]
  /\ W \in [Nat -> Server \cup {Nil}]
  /\ A \in [Server -> [Nat -> Nat]]
  /\ F \in [Server -> Seq(Entry)]

\* The logs f and g have the same first k entries
Agree(f, g, k) == k <= Len(f) /\ k <= Len(g) /\ \A j \in 1 .. k : f[j] = g[j]

\* Any peers that elect a leader and any peers that commit an entry have one in
\* common, also when the number of peers is even.
VoteQuorum == {Q \in SUBSET Server : Cardinality(Q) > Half}
CommitQuorum == {Q \in SUBSET Server : Cardinality(Q) >= Cardinality(Server) - Half}

\* Index i is committed by the leader of term t, which wrote it itself
Chosen(L, A, t, i) ==
  /\ i \in 1 .. Len(L[t]) /\ L[t][i].term = t
  /\ \E Q \in CommitQuorum : \A v \in Q : A[v][t] >= i

\* ... or still can be: nobody in some quorum has gone on to a later term without it
Choosable(A, t, i) ==
  \E Q \in CommitQuorum : \A v \in Q : currentTerm[v] <= t \/ A[v][t] >= i

\* The first k entries of f are committed in term t or before
Committed(L, A, f, k, t) ==
  k = 0 \/ \E u \in 0 .. t : \E i \in k .. Len(L[u]) : Chosen(L, A, u, i) /\ Agree(f, L[u], k)

\* Up to each of its entries the log f, of term t, is the log of the leader that wrote it
Grown(L, W, f, t) ==
  \A i \in 1 .. Len(f) :
    f[i].term \in 1 .. t /\ W[f[i].term] # Nil /\ Agree(f, L[f[i].term], i)

\* The term of the last entry
TermOf(f) == IF Len(f) = 0 THEN 0 ELSE f[Len(f)].term

\* The commands in data are the first k of f
Holds(data, f, k) == Len(data) = k /\ k <= Len(f) /\ \A j \in 1 .. k : data[j] = f[j].cmd

\* The physical log and the snapshot are the two parts of the whole log.
WholeAt(F, s) ==
  /\ Len(F[s]) = lastIndex(s)
  /\ \A i \in lastIncludeIndex[s] + 1 .. lastIndex(s) : entry(s, i) = F[s][i]
  /\ lastIncludeTerm[s] = IF lastIncludeIndex[s] = 0 THEN 0 ELSE F[s][lastIncludeIndex[s]].term
  /\ Holds(snapshot[s], F[s], lastIncludeIndex[s])

TermLogs(L, W) == \A t \in Nat : (W[t] = Nil => Len(L[t]) = 0) /\ Grown(L, W, L[t], t)
PeerLogs(L, W, F) == \A s \in Server : Grown(L, W, F[s], currentTerm[s])

\* The winner of a term has the votes of a quorum, which nobody else can get any more.
WonBy(w, t) ==
  /\ t <= currentTerm[w]
  /\ currentTerm[w] = t => state[w] # "Candidate"
  /\ \E Q \in VoteQuorum : \A v \in Q :
       Voted(v, w, t) /\ \A c \in Server : Backs(v, c, t) => c = w
Winners(W) == \A t \in Nat : W[t] # Nil => WonBy(W[t], t)

\* A leader has won its term, its log is the log of the term, and what it believes of
\* its peers has been acknowledged.
LeaderAt(L, W, A, F, s) ==
  state[s] = "Leader" =>
    /\ W[currentTerm[s]] = s /\ F[s] = L[currentTerm[s]]
    /\ A[s][currentTerm[s]] = Len(F[s])
    /\ \A p \in Server : p # s => matchIndex[s][p] <= A[p][currentTerm[s]]

\* What a peer has acknowledged it has as long as it is in that term, and beyond that
\* as long as it may be part of a commit.
AckAt(L, W, A, F, v, t) ==
  A[v][t] > 0 =>
    /\ W[t] # Nil /\ t <= currentTerm[v] /\ A[v][t] <= Len(L[t])
    /\ t = currentTerm[v] => Agree(F[v], L[t], A[v][t])
    /\ \A i \in 1 .. A[v][t] : L[t][i].term = t /\ Choosable(A, t, i) => Agree(F[v], L[t], i)
Acks(L, W, A, F) == \A v \in Server, t \in Nat : AckAt(L, W, A, F, v, t)

\* Later leaders have what an earlier one has committed or still may commit.
Safe(L, W, A) ==
  \A t, u \in Nat : t < u /\ W[u] # Nil =>
    \A i \in 1 .. Len(L[t]) : L[t][i].term = t /\ Choosable(A, t, i) => Agree(L[u], L[t], i)

\* A candidate's requests describe its log, which no longer changes, and with the vote
\* of a peer it has what that peer may have made a commit of.
Asking(F) ==
  \A m \in voteReq : state[m.src] = "Candidate" /\ currentTerm[m.src] = m.term =>
    m.lastLogIndex = Len(F[m.src]) /\ m.lastLogTerm = TermOf(F[m.src])
BackedAt(L, A, F, v, c) ==
  \A t \in Nat : t < currentTerm[c] =>
    \A i \in 1 .. A[v][t] : L[t][i].term = t /\ Choosable(A, t, i) => Agree(F[c], L[t], i)
Backing(L, A, F) ==
  \A v, c \in Server :
    state[c] = "Candidate" /\ Backs(v, c, currentTerm[c]) => BackedAt(L, A, F, v, c)

\* A request carries a part of the log of its term; what it says is committed is.
AppendSound(L, W, A, m) ==
  /\ W[m.term] = m.src /\ m.prevLogIndex + Len(m.entries) <= Len(L[m.term])
  /\ m.prevLogTerm = IF m.prevLogIndex = 0 THEN 0 ELSE L[m.term][m.prevLogIndex].term
  /\ \A k \in 1 .. Len(m.entries) : m.entries[k] = L[m.term][m.prevLogIndex + k]
  /\ Committed(L, A, L[m.term], m.leaderCommit, m.term)
InstallSound(L, W, A, m) ==
  /\ W[m.term] = m.src /\ m.lastIncludeIndex > 0
  /\ Holds(m.data, L[m.term], m.lastIncludeIndex)
  /\ m.lastIncludeTerm = L[m.term][m.lastIncludeIndex].term
  /\ Committed(L, A, L[m.term], m.lastIncludeIndex, m.term)
Requests(L, W, A) ==
  /\ \A m \in appReq : AppendSound(L, W, A, m)
  /\ \A m \in snapReq : InstallSound(L, W, A, m)
Replies(A) ==
  \A r \in appRep \cup snapRep : r.success => r.matched <= A[r.src][r.argTerm]

\* What a peer takes for committed is committed.
Commits(L, A, F) == \A s \in Server : Committed(L, A, F[s], commitIndex[s], currentTerm[s])

\* The service has, and will get, the commands of the log in their order.
ServiceAt(F, s) ==
  /\ Holds(app[s], F[s], Len(app[s]))
  /\ \A k \in 1 .. Len(applyMsgs[s]) :
       IF applyMsgs[s][k].snap THEN Holds(applyMsgs[s][k].data, F[s], applyMsgs[s][k].index)
       ELSE /\ applyMsgs[s][k].index \in 1 .. Len(F[s])
            /\ applyMsgs[s][k].data = <<F[s][applyMsgs[s][k].index].cmd>>
  /\ pendingSnapshot[s] # Nil => Holds(pendingSnapshot[s].data, F[s], pendingSnapshot[s].index)

Explains(L, W, A, F) ==
  /\ HistoryTypes(L, W, A, F)
  /\ \A s \in Server : WholeAt(F, s)
  /\ TermLogs(L, W) /\ PeerLogs(L, W, F)
  /\ Winners(W) /\ \A s \in Server : LeaderAt(L, W, A, F, s)
  /\ Acks(L, W, A, F) /\ Safe(L, W, A)
  /\ Asking(F) /\ Backing(L, A, F)
  /\ Requests(L, W, A) /\ Replies(A)
  /\ Commits(L, A, F) /\ \A s \in Server : ServiceAt(F, s)

Explained == \E L, W, A, F : Explains(L, W, A, F)

=============================================================================
