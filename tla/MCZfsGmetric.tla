----------------------------- MODULE MCZfsGmetric -----------------------------
(* Small instances of ZfsGmetric for TLC. *)
EXTENDS ZfsGmetric

CONSTANTS p1, p2
===============================================================================
