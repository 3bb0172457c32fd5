---------------------------- MODULE MCZfsmonUpdate ----------------------------
(* Small instances of ZfsmonUpdate for TLC. *)
EXTENDS ZfsmonUpdate, TLC

Symmetry == Permutations(Pools)
===============================================================================
