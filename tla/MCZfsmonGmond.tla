---------------------------- MODULE MCZfsmonGmond -----------------------------
(* Small instances of ZfsmonGmond for TLC. *)
EXTENDS ZfsmonGmond, FiniteSets

CONSTANTS p1, p2

TwoNames == <<p1, p2>>

(* A property in a string, both bandwidths, the second pool's first metric, *)
(* and the terminator.                                                      *)
SomeIndices == {0, 6, 7, 8, 16}

(* zfsmon_db_zpool_get has one result.                                      *)
ASSUME OneOrder == \A pools \in SUBSET Pools : Cardinality(InOrder(pools)) = 1

(* What ReplyIsRight says of the metrics with these indices, for all.       *)
ASSUME TableIsRight ==
    \A k \in 1..ZFS_METRICS_CNT :
        zfsmon_zpool_metrics[k].get = Meant(zfsmon_zpool_metrics[k].reg)
===============================================================================
