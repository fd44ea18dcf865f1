------------------------------- MODULE MCRaft -------------------------------
(***************************************************************************)
(* Small instances of Raft for TLC.                                        *)
(***************************************************************************)
EXTENDS Raft, TLC

Symmetry == Permutations(Server) \cup Permutations(Command)

\* A whole-cluster restart after two leaders in a row crashed before they
\* replicated anything: a led term 1 and b led term 2, with c's vote each time.
\* Each holds an entry nobody else has, at the same index.
DivergedInit ==
  \E a, b, c \in Server : \E x, y \in Command :
    /\ Cardinality({a, b, c}) = 3
    /\ InitFrom([s \in Server |->
         [emptyDisk EXCEPT
            !.currentTerm = IF s = a THEN 1 ELSE 2,
            !.votedFor = IF s = a THEN a ELSE b,
            !.log = CASE s = a -> Append(@, [term |-> 1, cmd |-> x])
                      [] s = b -> Append(@, [term |-> 2, cmd |-> y])
                      [] OTHER -> @]])

DivergedSpec == DivergedInit /\ [][Next]_vars

\* State constraint: the applier is not scheduled.  No other action reads what it
\* writes as long as no snapshot is taken.
NoApply == \A s \in Server : applyIndex[s] = 0

=============================================================================
