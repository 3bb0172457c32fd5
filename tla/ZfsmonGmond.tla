----------------------------- MODULE ZfsmonGmond ------------------------------
(***************************************************************************)
(* The Ganglia module: src/src/ganglia/zfspool_gmon.c, with the library's  *)
(* zfsmon_init and zfsmon_fini.                                            *)
(*                                                                         *)
(* gmond's one collector thread calls zfsmon_metric_init once, then        *)
(* zfsmon_metric_handler for one registered metric after the other, and    *)
(* zfsmon_metric_cleanup at its end.  Steps are as small as the kernel's   *)
(* pools and the clock can come in between; an update takes as long as it  *)
(* takes, and is what ZfsmonListing says of it.  Time is relative: what    *)
(* counts of time(NULL) is its distance from curr_pools_time.              *)
(***************************************************************************)
EXTENDS ZfspoolMetrics

CONSTANTS
    Names,              \* the pool names, a sequence in their order
    None,
    ZFS_STALE_DATA, ZFSMON_MAX_POOLS,
    Indices,            \* bound: the metric indices the handler is called with
    MaxFaults,          \* bound: libzfs fails this often
    MaxSetbacks,        \* bound: the wall clock is set back this often
    MaxBack,            \* bound: ... this far before curr_pools_time
    MaxSlow             \* bound: seconds an update takes

Pools == {Names[k] : k \in DOMAIN Names}

VARIABLES
    imported, valid, updating, failed, stayed, seen,    \* see ZfsmonListing
    faults,             \* how often libzfs has failed so far
    setbacks,           \* how often the wall clock has been set back so far
    pc,                 \* where the thread is in the module, "idle" outside
    connections,        \* open databases
    db,                 \* zfsmon.db # NULL
    initial_pools,
    pools_cnt,
    metric_info,        \* the registered metrics [pool, reg]
    timed,              \* curr_pools_time # 0
    since,              \* time(NULL) - curr_pools_time, up to ZFS_STALE_DATA
    pools_l,            \* is the mutex held?
    metric_index,       \* the argument of zfsmon_metric_handler
    v,                  \* its local variable: [pool, get], or None for zeros
    listed,             \* history: what the last update listed
    took,               \* history: seconds from the begin of the last update
                        \* to the reading of the clock after it
    age                 \* history: while a database is open, seconds since the
                        \* begin of its last successful update, or since it
                        \* was opened; else 0

update  == <<valid, updating, failed, stayed, seen, listed, took, age>>
mishaps == <<faults, setbacks>>
library == <<connections, db>>
globals == <<initial_pools, pools_cnt, metric_info>>
clock   == <<timed, since>>
call    == <<metric_index, v>>
vars    == <<imported, update, mishaps, pc, library, globals, clock, pools_l, call>>

Update == INSTANCE ZfsmonListing

Values == [pool : Pools, get : Gets]

ASSUME GmondConstants ==
    /\ Names \in Seq(Pools)
    /\ \A j, k \in DOMAIN Names : Names[j] = Names[k] => j = k
    \* Else zfsmon_db_zpool_get returns an array without a NULL.
    /\ ZFSMON_MAX_POOLS \in Nat /\ Len(Names) < ZFSMON_MAX_POOLS
    \* The last is the terminator's.
    /\ Indices \subseteq 0..(Len(Names) * ZFS_METRICS_CNT)
    /\ None \notin Values
    /\ ZFS_STALE_DATA \in Nat \ {0}
    /\ MaxFaults \in Nat /\ MaxSetbacks \in Nat /\ MaxBack \in Nat /\ MaxSlow \in Nat


MaxAge == ZFS_STALE_DATA + MaxSlow

InHandler == {"called", "init", "ready", "updating", "locked", "found",
              "got"}

TypeOK ==
    /\ imported \subseteq Pools /\ valid \subseteq Pools
    /\ updating \in BOOLEAN /\ failed \in BOOLEAN
    /\ stayed \subseteq seen /\ seen \subseteq Pools
    /\ faults \in 0..MaxFaults /\ setbacks \in 0..MaxSetbacks
    /\ pc \in InHandler \cup {"new", "metric_init", "idle", "cleaned"}
    /\ connections \in 0..1 /\ db \in BOOLEAN
    /\ initial_pools \in Seq(Pools)
    /\ pools_cnt = Len(initial_pools)
    /\ metric_info \in Seq([pool : Pools, reg : Regs])
    /\ timed \in BOOLEAN
    /\ since \in (-MaxBack)..ZFS_STALE_DATA
    /\ pools_l \in BOOLEAN
    /\ metric_index \in Indices \cup {0}
    /\ v \in Values \cup {None}
    /\ listed \subseteq Pools
    /\ took \in 0..MaxSlow /\ age \in 0..MaxAge

Init ==
    /\ imported \in SUBSET Pools
    /\ Update!Init
    /\ faults = 0 /\ setbacks = 0
    /\ pc = "new"
    /\ connections = 0 /\ db = FALSE
    /\ initial_pools = <<>> /\ pools_cnt = 0 /\ metric_info = <<>>
    /\ timed = FALSE /\ since = ZFS_STALE_DATA
    /\ pools_l = FALSE
    /\ metric_index = 0 /\ v = None
    /\ listed = {} /\ took = 0 /\ age = 0

-------------------------------------------------------------------------------
(***************************************************************************)
(* The kernel and the clocks.                                              *)
(***************************************************************************)
Import(p) ==
    /\ Update!Import(p)
    /\ UNCHANGED <<listed, took, age, mishaps, pc, library, globals, clock, pools_l, call>>

Export(p) ==
    /\ Update!Export(p)
    /\ UNCHANGED <<listed, took, age, mishaps, pc, library, globals, clock, pools_l, call>>

UpTo(bound, n) == IF n > bound THEN bound ELSE n

(* The clock is yet to be read after the update. *)
TakesTime == pc \in {"metric_init", "init", "updating"}

Tick ==
    /\ TakesTime => took < MaxSlow
    /\ took' = IF TakesTime THEN took + 1 ELSE took
    /\ since' = UpTo(ZFS_STALE_DATA, since + 1)
    /\ age' = IF db THEN UpTo(MaxAge, age + 1) ELSE 0
    /\ UNCHANGED <<imported, valid, updating, failed, stayed, seen, listed, mishaps, pc,
                   library, globals, timed, pools_l, call>>

SetClockBack ==
    /\ timed
    /\ setbacks < MaxSetbacks
    /\ setbacks' = setbacks + 1
    /\ \E s \in (-MaxBack)..ZFS_STALE_DATA : s < since /\ since' = s
    /\ UNCHANGED <<imported, update, faults, pc, library, globals, timed, pools_l, call>>

-------------------------------------------------------------------------------
(***************************************************************************)
(* The library.                                                            *)
(***************************************************************************)
Goto(from, to) == pc = from /\ pc' = to

(* ORDER BY name ASC: each pool once, in the order of Names. *)
Before(p, q) == \E j, k \in DOMAIN Names : j < k /\ Names[j] = p /\ Names[k] = q

InOrder(pools) ==
    {s \in UNION {[1..n -> pools] : n \in 0..Len(Names)} :
        /\ {s[k] : k \in DOMAIN s} = pools
        /\ \A j, k \in DOMAIN s : j < k => Before(s[j], s[k])}

(* There is one such sequence. *)
zfsmon_zpool_all == InOrder(valid)

(* zfsmon_update is called: libzfs_init succeeds, or it fails and that is  *)
(* it.  All of its failures count as one.                                  *)
zfsmon_update ==
    /\ \/ Update!Begin /\ UNCHANGED faults
       \/ Update!CannotBegin /\ faults < MaxFaults /\ faults' = faults + 1
    /\ took' = 0
    /\ UNCHANGED listed

update_returns ==
    /\ Update!End
    /\ faults' = IF failed' THEN faults + 1 ELSE faults
    /\ faults' <= MaxFaults
    /\ listed' = valid'
    /\ age' = IF failed' THEN age ELSE took
    /\ UNCHANGED <<took, setbacks, pc, library, globals, clock, pools_l, call>>

zfsmon_db_init == connections' = connections + 1
zfsmon_db_fini == connections' = connections - 1

(* A new, empty database, and an update of it.  No caller looks at the     *)
(* result.                                                                 *)
zfsmon_init ==
    /\ zfsmon_db_init
    /\ db' = TRUE
    /\ zfsmon_update
    /\ age' = 0

(* All data are gone, and with them what there is to say of them.          *)
zfsmon_fini ==
    /\ zfsmon_db_fini
    /\ db' = FALSE
    /\ valid' = {} /\ listed' = {}
    /\ failed' = FALSE /\ stayed' = {} /\ seen' = {} /\ took' = 0 /\ age' = 0
    /\ UNCHANGED updating

-------------------------------------------------------------------------------
(***************************************************************************)
(* zfsmon_metric_init: the pools there are, by name, each with all metrics.*)
(***************************************************************************)
begin_metric_init ==
    /\ Goto("new", "metric_init")
    /\ ~ pools_l /\ pools_l' = TRUE
    /\ zfsmon_init
    /\ UNCHANGED <<setbacks, globals, clock, call>>

RegisteredByMetric(pools) ==    \* mutant: the loops swapped
    [k \in 1..(Len(pools) * ZFS_METRICS_CNT) |->
        [pool |-> pools[((k - 1) % Len(pools)) + 1],
         reg  |-> zfsmon_zpool_metrics[(k - 1) \div Len(pools) + 1].reg]]

Registered(pools) ==
    [k \in 1..(Len(pools) * ZFS_METRICS_CNT) |->
        [pool |-> pools[(k - 1) \div ZFS_METRICS_CNT + 1],
         reg  |-> zfsmon_zpool_metrics[((k - 1) % ZFS_METRICS_CNT) + 1].reg]]

metric_init_counting_metrics == \* mutant: pools_cnt++ in the inner loop
    /\ Goto("metric_init", "idle")
    /\ ~ updating
    /\ initial_pools' \in zfsmon_zpool_all
    /\ metric_info' = Registered(initial_pools')
    /\ pools_cnt' = Len(metric_info')
    /\ zfsmon_fini
    /\ pools_l' = FALSE
    /\ UNCHANGED <<imported, mishaps, clock, call>>

zfsmon_metric_init ==
    /\ Goto("metric_init", "idle")
    /\ ~ updating
    /\ initial_pools' \in zfsmon_zpool_all
    /\ metric_info' = Registered(initial_pools')
    /\ pools_cnt' = Len(initial_pools')
    /\ zfsmon_fini
    /\ pools_l' = FALSE
    /\ UNCHANGED <<imported, mishaps, clock, call>>

(* zfsmon_metric_cleanup: zfsmon_fini only if a handler has initialised. *)
cleanup_without_fini ==     \* mutant
    /\ Goto("idle", "cleaned")
    /\ ~ pools_l
    /\ UNCHANGED <<imported, update, mishaps, library, globals, clock, pools_l, call>>

zfsmon_metric_cleanup ==
    /\ Goto("idle", "cleaned")
    /\ ~ pools_l
    /\ IF timed THEN zfsmon_fini ELSE UNCHANGED <<library, update>>
    /\ UNCHANGED <<imported, mishaps, globals, clock, pools_l, call>>

-------------------------------------------------------------------------------
(***************************************************************************)
(* zfsmon_metric_handler.                                                  *)
(***************************************************************************)
call_handler(i) ==
    /\ Goto("idle", "called")
    /\ metric_index' = i
    /\ UNCHANGED <<imported, update, mishaps, library, globals, clock, pools_l, v>>

(* The first call initialises the library.  *)
is_initialised ==
    /\ Goto("called", "ready")
    /\ timed
    /\ UNCHANGED <<imported, update, mishaps, library, globals, clock, pools_l, call>>

initialise ==
    /\ Goto("called", "init")
    /\ ~ timed
    /\ zfsmon_init
    /\ UNCHANGED <<setbacks, globals, clock, pools_l, call>>

(* Whether the update succeeded or not. *)
SetTime == timed' = TRUE /\ since' = 0

set_first_time ==
    /\ Goto("init", "ready")
    /\ ~ updating
    /\ SetTime
    /\ UNCHANGED <<imported, update, mishaps, library, globals, pools_l, call>>

zpool_idx   == metric_index \div ZFS_METRICS_CNT
zpool_m_idx == metric_index % ZFS_METRICS_CNT

InRange == 0 <= zpool_idx /\ zpool_idx < pools_cnt

(* gmond takes the value v. *)
Return(from) ==
    /\ Goto(from, "idle")
    /\ metric_index' = 0 /\ v' = None

reject_index ==
    /\ Return("ready")
    /\ ~ InRange
    /\ UNCHANGED <<imported, update, mishaps, library, globals, clock, pools_l>>

Lock   == ~ pools_l /\ pools_l' = TRUE
Unlock == pools_l' = FALSE

StaleNever == ~ timed   \* mutant: the data of the start are good for ever

Stale == since >= ZFS_STALE_DATA

(* Take the mutex and, if the data are old, update them.                   *)
lock_and_update ==
    /\ Goto("ready", "updating")
    /\ InRange /\ Lock /\ Stale
    /\ zfsmon_update
    /\ UNCHANGED <<setbacks, library, globals, clock, call, age>>

set_time ==
    /\ Goto("updating", "locked")
    /\ ~ updating
    /\ SetTime
    /\ UNCHANGED <<imported, update, mishaps, library, globals, pools_l, call>>

lock_without_update ==
    /\ Goto("ready", "locked")
    /\ InRange /\ Lock /\ ~ Stale
    /\ UNCHANGED <<imported, update, mishaps, library, globals, clock, call>>

req_name == initial_pools[zpool_idx + 1]

zpool_never_checked ==      \* mutant: all registered pools pass
    /\ Goto("locked", "found")
    /\ UNCHANGED <<imported, update, mishaps, library, globals, clock, pools_l, call>>

zpool_is_valid ==
    /\ Goto("locked", "found")
    /\ req_name \in valid
    /\ UNCHANGED <<imported, update, mishaps, library, globals, clock, pools_l, call>>

return_with_lock ==         \* mutant: no pthread_mutex_unlock
    /\ Return("locked")
    /\ req_name \notin valid
    /\ UNCHANGED <<imported, update, mishaps, library, globals, clock, pools_l>>

zpool_is_invalid ==
    /\ Return("locked")
    /\ req_name \notin valid
    /\ Unlock
    /\ UNCHANGED <<imported, update, mishaps, library, globals, clock>>

(* The get function of the metric.  Reading a property registers the pool, *)
(* see zfsmon_db_zpool_prop_get in ZfsmonStore.                            *)
get_metric ==
    LET get == zfsmon_zpool_metrics[zpool_m_idx + 1].get
    IN  /\ Goto("found", "got")
        /\ v' = [pool |-> req_name, get |-> get]
        /\ valid' = IF get.read.table = "props" THEN valid \cup {req_name} ELSE valid
        /\ UNCHANGED <<imported, updating, failed, stayed, seen, listed, took, age,
                       mishaps, library, globals, clock, pools_l, metric_index>>

return_value ==
    /\ Return("got")
    /\ Unlock
    /\ UNCHANGED <<imported, update, mishaps, library, globals, clock>>

HandlerStep ==
    \/ is_initialised
    \/ initialise
    \/ pc \in InHandler /\ update_returns
    \/ set_first_time
    \/ reject_index
    \/ lock_and_update
    \/ set_time
    \/ lock_without_update
    \/ zpool_is_valid
    \/ zpool_is_invalid
    \/ get_metric
    \/ return_value

Next ==
    \/ begin_metric_init
    \/ pc = "metric_init" /\ update_returns
    \/ zfsmon_metric_init
    \/ zfsmon_metric_cleanup
    \/ \E i \in Indices : call_handler(i)
    \/ HandlerStep
    \/ \E p \in Pools : Import(p) \/ Export(p)
    \/ Tick
    \/ SetClockBack

Spec == Init /\ [][Next]_vars

(***************************************************************************)
(* A handler that was called runs on, and time passes.  gmond collects a   *)
(* registered metric again and again: its scheduler asks for each group    *)
(* every collect_every seconds (src/conf/mod_zfsmon.conf).                 *)
(***************************************************************************)
CollectAgain == \E i \in Indices : i < Len(metric_info) /\ call_handler(i)

FairSpec ==
    /\ Spec
    /\ WF_vars(HandlerStep)
    /\ SF_vars(CollectAgain)
    /\ WF_vars(Tick)

-------------------------------------------------------------------------------
(***************************************************************************)
(* Properties.                                                             *)
(***************************************************************************)
Returns == pc \in InHandler /\ pc' = "idle"

IsRegistered == metric_index < Len(metric_info)
Requested    == metric_info[metric_index + 1]

(* A handler answers for the pool registered under its index, with what    *)
(* the metric's name says in the field its type says, if the last update   *)
(* listed the pool, and with zeros otherwise: no pool or metric answers    *)
(* for another however the kernel's pools have changed since               *)
(* zfsmon_metric_init, and no query brings a vanished pool back.           *)
ReplyIsRight ==
    [][Returns =>
        v = IF IsRegistered /\ Requested.pool \in listed
            THEN [pool |-> Requested.pool, get |-> Meant(Requested.reg)]
            ELSE None]_vars

(* Seen from the kernel: pools may come and go during an update and after  *)
(* it, but a handler answers only for a pool that was there at some time   *)
(* of the last update libzfs let begin, and does answer for a pool that    *)
(* has been there since it began if it did not fail.                       *)
AnswersForPoolsThere ==
    [][Returns /\ IsRegistered =>
        /\ v # None => Requested.pool \in seen
        /\ Requested.pool \in stayed /\ ~ failed => v # None]_vars

(* The data of a listed pool, which the handler is about to serve, are     *)
(* younger than ZFS_STALE_DATA when their age has been checked ("update    *)
(* zpool information is outdated, also initial empty info",                *)
(* src/src/ganglia/zfspool_gmon.c:160).  A failed update breaks this, even *)
(* if updates take no time: it leaves old data behind, and they pass.      *)
FreshWhenServed ==
    [][pc # "locked" /\ pc' = "locked" /\ req_name \in valid'
        => age' < ZFS_STALE_DATA]_vars

(* What the code does guarantee: unless an update has failed or the wall   *)
(* clock has been set back, the data a handler serves are younger than     *)
(* ZFS_STALE_DATA seconds and the time their own update took, which        *)
(* curr_pools_time, set after it, does not count.                          *)
FreshUnlessMishap ==
    [][pc # "locked" /\ pc' = "locked" /\ faults = 0 /\ setbacks = 0
        => age' < ZFS_STALE_DATA + took]_vars

(* zfsmon_metric_cleanup closes what the handlers opened ("initialize on   *)
(* init and free on cleanup", src/src/ganglia/zfspool_gmon.c:62).          *)
FreedOnCleanup == pc = "cleaned" => connections = 0

(* Every call of a handler comes to its end: each of its returns leaves    *)
(* the mutex free for the next.                                            *)
HandlerReturns == pc = "called" ~> pc = "idle"

(* A registered pool that is there to stay, or is back to stay, is listed  *)
(* again while gmond runs, without a restart, whatever failed before.      *)
PoolComesBack ==
    \A p \in Pools :
        <>[](/\ p \in imported /\ pc \in InHandler \cup {"idle"}
             /\ \E k \in DOMAIN metric_info : metric_info[k].pool = p)
            => <>[](~ updating => p \in listed)
===============================================================================
