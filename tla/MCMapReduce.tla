---------------------------- MODULE MCMapReduce ----------------------------
(***************************************************************************)
(* Small instances of MapReduce for TLC.                                   *)
(***************************************************************************)
EXTENDS MapReduce

\* Any three words against two that share a partition and are out of order
MCInputs == {<<s, <<3, 1>>>> : s \in [1 .. 3 -> 1 .. 3]}

=============================================================================
