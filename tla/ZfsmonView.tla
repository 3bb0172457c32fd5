------------------------------ MODULE ZfsmonView ------------------------------
(***************************************************************************)
(* What the SQLite store of libzfsmon (zfsmon_sqlite.c) promises its       *)
(* callers, told without tables: everything is keyed by the pool's NAME.   *)
(* There are no row ids, no INSERT OR IGNORE / OR REPLACE, no trimming.    *)
(* ZfsmonStore, the module with the tables, implements this one.           *)
(*                                                                         *)
(* Of the I/O statistics of a pool the store promises two samples:         *)
(*   curr   the sample saved last;                                         *)
(*   prev   the sample saved last in an earlier second than curr.          *)
(* They are what zfsmon_zpool_iostat_bw_rd and _wr take a difference of.   *)
(***************************************************************************)
EXTENDS Naturals

CONSTANTS
    Pools,      \* pool names
    Props,      \* property names
    Values,     \* property values
    Stats,      \* vdev_stat_t values, opaque to the store
    None        \* no value: zfsmon_db_*_get clears the caller's buffer

VARIABLES
    valid,      \* the pools zfsmon_zpool_all lists
    props,      \* props[p][q]: what zfsmon_zpool_prop_str(p, q) returns
    curr,       \* curr[p], prev[p]: what zfsmon_db_zpool_iostat_get(p) returns
    prev,
    now         \* the wall clock, in the seconds of strftime('%s', 'now')

vars == <<valid, props, curr, prev, now>>

Sample == [time : Nat, iostat : Stats]

Init ==
    /\ valid = {}
    /\ props = [p \in Pools |-> [q \in Props |-> None]]
    /\ curr  = [p \in Pools |-> None]
    /\ prev  = [p \in Pools |-> None]
    /\ now \in Nat

(***************************************************************************)
(* A pool is seen: it is listed until the next Invalidate.                 *)
(***************************************************************************)
See(p) ==
    /\ valid' = valid \cup {p}
    /\ UNCHANGED <<props, curr, prev, now>>

Invalidate ==
    /\ valid' = {}
    /\ UNCHANGED <<props, curr, prev, now>>

SetProp(p, q, v) ==
    /\ valid' = valid \cup {p}
    /\ props' = [props EXCEPT ![p][q] = v]
    /\ UNCHANGED <<curr, prev, now>>

(***************************************************************************)
(* Two samples of one second count as one, the later one.                  *)
(***************************************************************************)
NeverSaved(p) == FALSE  \* mutant

SavedInThisSecond(p) == curr[p] # None /\ curr[p].time = now

SaveIostat(p, s) ==
    /\ valid' = valid \cup {p}
    /\ curr'  = [curr EXCEPT ![p] = [time |-> now, iostat |-> s]]
    /\ prev'  = IF SavedInThisSecond(p)
                THEN prev
                ELSE [prev EXCEPT ![p] = curr[p]]
    /\ UNCHANGED <<props, now>>

Tick ==
    /\ now' \in Nat
    /\ now' > now
    /\ UNCHANGED <<valid, props, curr, prev>>

Next ==
    \/ \E p \in Pools : See(p)
    \/ Invalidate
    \/ \E p \in Pools, q \in Props, v \in Values : SetProp(p, q, v)
    \/ \E p \in Pools, s \in Stats : SaveIostat(p, s)
    \/ Tick

Spec == Init /\ [][Next]_vars
===============================================================================
