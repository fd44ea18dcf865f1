----------------------------- MODULE MCShardKV -----------------------------
(***************************************************************************)
(* Small instances of ShardKV for TLC.                                     *)
(***************************************************************************)
EXTENDS ShardKV, TLC

Symmetry == Permutations(Ctrler) \cup Permutations(Op)

=============================================================================
