--------------------------- MODULE ZfsmonBandwidth ----------------------------
(***************************************************************************)
(* The bandwidth estimate, zfsmon_zpool_iostat_bw_rd and _wr of            *)
(* src/src/zpool_iostat.c: the unsigned difference of a pool's two samples *)
(* over their distance.                                                    *)
(*                                                                         *)
(* The samples are those of ZfsmonView, and with it this module has the    *)
(* hypothesis that the wall clock, whose seconds order the samples, is     *)
(* never set back; it may be as fast or slow as it likes.  If it is set    *)
(* back, the older sample can be the newer one (SavedSampleIsCurrent of    *)
(* ZfsmonStore) and the difference wraps.                                  *)
(*                                                                         *)
(* The kernel is external: the counters of a pool, vs_timestamp among      *)
(* them, start at zero when it is imported and only grow.  What is saved   *)
(* is the configuration cached in a handle when it was opened.  A sample   *)
(* carries history that no operation looks at, the pool's counters over    *)
(* all its imports: they say what really happened between two samples.     *)
(***************************************************************************)
EXTENDS Integers

CONSTANTS
    Pools, None,
    Word,       \* 2^64: the counters are uint64_t
    NANOSEC,    \* units of vs_timestamp in a second
    Peak,       \* Peak[d]: bytes a pool can move in a unit of time
    MaxTime,    \* bound: time stops after this many units
    MaxNow      \* bound: the wall clock stops at this second

Dirs == {"nread", "nwritten"}       \* vs_bytes[ZIO_TYPE_READ], [ZIO_TYPE_WRITE]

Counters  == [vs_timestamp : Nat, nread : Nat, nwritten : Nat]
Zero      == [vs_timestamp |-> 0, nread |-> 0, nwritten |-> 0]
VdevStat  == [stat : Counters, total : Counters]

Handles   == [pool : Pools, config : VdevStat]

VARIABLES
    curr, prev,     \* the store: see ZfsmonView
    now,            \* the wall clock, in seconds
    time,           \* real time
    imported,       \* the kernel's pools
    vs,             \* vs[p]: the kernel's counters of p, and their history
    zhp,            \* the handle zpool_iter has opened, or None
    again,          \* history: the pools that were imported again
    outdated,       \* history: those imported since a handle was opened last
    seconds         \* history: in how many seconds p was sampled with
                    \* counters of its last import, up to 2

kernel  == <<time, imported, vs>>
history == <<again, outdated, seconds>>
vars    == <<curr, prev, now, kernel, zhp, history>>

Store == INSTANCE ZfsmonView WITH
    Props <- {}, Values <- {}, Stats <- VdevStat,
    valid <- Pools, props <- <<>>

ASSUME BandwidthConstants ==
    /\ NANOSEC \in Nat \ {0} /\ MaxTime \in Nat /\ MaxNow \in Nat
    /\ Peak \in [Dirs -> Nat]
    /\ None \notin Store!Sample /\ None \notin Handles
    \* No counter wraps by itself: 2^64 ns are 584 years.
    /\ Word \in Nat /\ MaxTime < Word /\ \A d \in Dirs : MaxTime * Peak[d] < Word

TypeOK ==
    /\ curr \in [Pools -> Store!Sample \cup {None}]
    /\ prev \in [Pools -> Store!Sample \cup {None}]
    /\ now \in 0..MaxNow
    /\ time \in 0..MaxTime
    /\ imported \subseteq Pools
    /\ vs \in [Pools -> VdevStat]
    /\ zhp \in Handles \cup {None}
    /\ again \subseteq Pools /\ outdated \subseteq Pools
    /\ seconds \in [Pools -> 0..2]

Init ==
    /\ curr = [p \in Pools |-> None] /\ prev = [p \in Pools |-> None]
    /\ now = 0 /\ time = 0
    /\ imported = Pools
    /\ vs = [p \in Pools |-> [stat |-> Zero, total |-> Zero]]
    /\ zhp = None
    /\ again = {} /\ outdated = {}
    /\ seconds = [p \in Pools |-> 0]

-------------------------------------------------------------------------------
(***************************************************************************)
(* The kernel and the clocks.                                              *)
(***************************************************************************)
Import(p) ==
    /\ p \notin imported
    /\ imported' = imported \cup {p}
    /\ vs' = [vs EXCEPT ![p].stat = Zero]
    /\ again' = again \cup {p} /\ outdated' = outdated \cup {p}
    /\ seconds' = [seconds EXCEPT ![p] = 0]
    /\ UNCHANGED <<curr, prev, now, time, zhp>>

Export(p) ==
    /\ p \in imported
    /\ imported' = imported \ {p}
    /\ UNCHANGED <<curr, prev, now, time, vs, zhp, history>>

(* Time moves on by one unit, and io[p] more bytes are read and written. *)
Transfers == [nread : 0..Peak["nread"], nwritten : 0..Peak["nwritten"]]

Count(c, io) ==
    [vs_timestamp |-> c.vs_timestamp + 1,
     nread |-> c.nread + io.nread, nwritten |-> c.nwritten + io.nwritten]

Work(io) ==
    /\ time < MaxTime
    /\ time' = time + 1
    /\ vs' = [p \in Pools |->
                IF p \in imported
                THEN [vs[p] EXCEPT !.stat = Count(@, io[p]), !.total = Count(@, io[p])]
                ELSE vs[p]]
    /\ UNCHANGED <<curr, prev, now, imported, zhp, history>>

Tick ==
    /\ now < MaxNow
    /\ now' = now + 1
    /\ UNCHANGED <<curr, prev, kernel, zhp, history>>

-------------------------------------------------------------------------------
(***************************************************************************)
(* The program.  zpool_iter of zfsmon_zpool_iostat_get_all opens a handle  *)
(* of one pool after the other and calls save_iostat with it; what else an *)
(* update does is in ZfsmonUpdate.  In between pools can do anything.      *)
(***************************************************************************)

(* The handle caches the pool's configuration, its counters included.      *)
zpool_open_silent(p) ==
    /\ zhp = None
    /\ p \in imported
    /\ zhp' = [pool |-> p, config |-> vs[p]]
    /\ outdated' = outdated \ {p}
    /\ UNCHANGED <<curr, prev, now, kernel, again, seconds>>

newvs_not_copied == None        \* mutant: iostats is saved as it is

newvs == zhp.config

(* The two verify()s find the pool's counters in its configuration.        *)
save_iostat ==
    /\ zhp # None
    /\ Store!SaveIostat(zhp.pool, newvs)
    /\ zhp' = None
    /\ seconds' = [seconds EXCEPT ![zhp.pool] =
                    IF \/ zhp.pool \in outdated
                       \/ @ > 0 /\ Store!SavedInThisSecond(zhp.pool)
                    THEN @ ELSE IF @ = 0 THEN 1 ELSE 2]
    /\ UNCHANGED <<kernel, again, outdated>>

(* A sample that zfsmon_db_zpool_iostat_get does not find is all zeros. *)
StatOf(s) == IF s = None THEN Zero ELSE s.iostat.stat

Minus(a, b) == (a - b) % Word       \* of uint64_t

(* The quotient of two numbers stands for a double; 0 below 1.0. *)
Quotient(num, den) == IF num < den THEN [num |-> 0, den |-> 1]
                                   ELSE [num |-> num, den |-> den]

tdelta(p) == Minus(StatOf(curr[p]).vs_timestamp, StatOf(prev[p]).vs_timestamp)

zfsmon_zpool_iostat_bw_rd(p) ==
    LET read == Minus(StatOf(curr[p]).nread, StatOf(prev[p]).nread)
    IN  IF tdelta(p) = 0 THEN Quotient(read, 1) ELSE Quotient(NANOSEC * read, tdelta(p))

bw_wr_as_copied(p) == zfsmon_zpool_iostat_bw_rd(p)      \* mutant: still READ

zfsmon_zpool_iostat_bw_wr(p) ==
    LET written == Minus(StatOf(curr[p]).nwritten, StatOf(prev[p]).nwritten)
    IN  IF tdelta(p) = 0 THEN Quotient(written, 1)
                         ELSE Quotient(NANOSEC * written, tdelta(p))

Next ==
    \/ \E p \in Pools : Import(p) \/ Export(p) \/ zpool_open_silent(p)
    \/ save_iostat
    \/ \E io \in [Pools -> Transfers] : Work(io)
    \/ Tick

Spec == Init /\ [][Next]_vars

-------------------------------------------------------------------------------
(***************************************************************************)
(* Properties.                                                             *)
(***************************************************************************)
Bandwidth(p) == [nread    |-> zfsmon_zpool_iostat_bw_rd(p),
                 nwritten |-> zfsmon_zpool_iostat_bw_wr(p)]

TotalOf(s) == IF s = None THEN Zero ELSE s.iostat.total

(* What a pool did between its two samples, or until its only one.         *)
Took(p)     == TotalOf(curr[p]).vs_timestamp - TotalOf(prev[p]).vs_timestamp
Moved(p, d) == TotalOf(curr[p])[d] - TotalOf(prev[p])[d]

(* The counters of both samples started at the same time.                  *)
CountersComparable(p) == p \notin again \/ seconds[p] = 2

(* As long as the wall clock is not set back: if a pool never was imported *)
(* again, or once it has been sampled in two seconds through handles that  *)
(* were opened after its last import, its bandwidth is what it really      *)
(* moved between the two samples.  Neither the zeros that stand for a      *)
(* missing sample, nor unsigned arithmetic, nor two updates in a second,   *)
(* nor a sample that is left from an earlier import, or saved late out of  *)
(* a handle from before this one, distort it.                              *)
BandwidthIsReal ==
    \A p \in Pools : CountersComparable(p) => \A d \in Dirs :
        IF NANOSEC * Moved(p, d) < Took(p) \/ Moved(p, d) = 0
        THEN Bandwidth(p)[d].num = 0
        ELSE Bandwidth(p)[d].num * Took(p) = NANOSEC * Moved(p, d) * Bandwidth(p)[d].den

(* The metrics are a "Read bandwidth" and a "Write bandwidth" in "B/s"     *)
(* (src/src/ganglia/zfspool_metrics.c:165): never more than the pool can   *)
(* do.  Not so after it was imported again: the differences wrap.          *)
BandwidthIsPossible ==
    \A p \in Pools, d \in Dirs :
        Bandwidth(p)[d].num <= NANOSEC * Peak[d] * Bandwidth(p)[d].den
===============================================================================
