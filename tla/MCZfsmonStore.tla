---------------------------- MODULE MCZfsmonStore -----------------------------
(* Small instances of ZfsmonStore for TLC. *)
EXTENDS ZfsmonStore, TLC

Symmetry == Permutations(Pools) \cup Permutations(Values) \cup Permutations(Stats)
===============================================================================
