--------------------------- MODULE MCZfsmonBandwidth --------------------------
(* Small instances of ZfsmonBandwidth for TLC. *)
EXTENDS ZfsmonBandwidth

CONSTANT p1

OneUnit == [d \in Dirs |-> 1]
===============================================================================
