--------------------------- MODULE MCRaftCatchUp ---------------------------
(***************************************************************************)
(* Liveness of log repair: one leader, two peers that are behind it in     *)
(* different ways, and a network that is fair.                             *)
(***************************************************************************)
EXTENDS Raft

CONSTANTS pa, pb, pc   \* the three peers

\* Peer pa led term 1, committed its first entry with pb and appended a second one
\* that nobody got; pb compacted its log up to index 1.  Then pb led term 2 and
\* appended two entries of its own that nobody got.  Then pa ran for term 3; pc
\* crashed between persisting that term and persisting its vote, pb never heard of
\* it, and the whole cluster restarted.  So pa and pb disagree at index 2, pb can no
\* longer send index 1 to pc, and only pb can still win an election below MaxTerm = 3.
BehindInit ==
  \E x \in Command :
    LET e(t) == [term |-> t, cmd |-> x]
        sentinel == emptyDisk.log
    IN InitFrom([s \in Server |->
         CASE s = pa -> [emptyDisk EXCEPT !.currentTerm = 3, !.votedFor = pa,
                                         !.log = sentinel \o <<e(1), e(1)>>]
           [] s = pb -> [currentTerm |-> 2, votedFor |-> pb, log |-> <<e(1), e(2), e(2)>>,
                        lastIncludeIndex |-> 1, lastIncludeTerm |-> 1, snapshot |-> <<x>>]
           [] s = pc -> [emptyDisk EXCEPT !.currentTerm = 3]])

\* The network is fair to every pair of peers: a request that is sent again and
\* again is answered, and an answer sent again and again arrives.  The replicator
\* of each peer runs forever (raft.go:468-522); it is only the bound on the
\* messages in flight that can keep it from sending.
Answered(p) ==
  \/ \E m \in appReq : m.dst = p /\ AppendEntries(m) /\ appReq' = appReq \ {m} /\ appRep' # appRep
  \/ \E m \in snapReq : m.dst = p /\ InstallSnapshot(m) /\ snapReq' = snapReq \ {m} /\ snapRep' # snapRep
Arrived(p) ==
  \/ \E m \in appRep : m.src = p /\ handleAppendReply(m) /\ appRep' = appRep \ {m}
  \/ \E m \in snapRep : m.src = p /\ handleInstallReply(m) /\ snapRep' = snapRep \ {m}

Fairness ==
  \A p \in Server \ {pb} :
    /\ SF_vars(sendAppendEntries(pb, p) \/ sendInstallSnapshot(pb, p))
    /\ SF_vars(Answered(p))
    /\ SF_vars(Arrived(p))

BehindSpec == BehindInit /\ [][Next]_vars /\ Fairness

\* The back-up of nextIndex by XTerm, XIndex and XLen, the clamp and the switch to
\* InstallSnapshot never livelock: once no election interferes any more, the
\* leader brings every peer up to the end of its own log (raft.go:634-669).
CatchUp ==
  \A p \in Server \ {pb} : (state[pb] = "Leader") ~> [](matchIndex[pb][p] = lastIndex(pb))

=============================================================================
