------------------------------ MODULE MCKVRaft ------------------------------
(***************************************************************************)
(* Small instances of KVRaft for TLC.                                      *)
(***************************************************************************)
EXTENDS KVRaft

Symmetry == Permutations(Server) \cup Permutations(Op)

=============================================================================
