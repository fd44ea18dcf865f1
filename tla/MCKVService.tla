--------------------------- MODULE MCKVService ---------------------------
(***************************************************************************)
(* Small instances of KVService for TLC.                                   *)
(***************************************************************************)
EXTENDS KVService, TLC

Symmetry == Permutations(Op)

=============================================================================
