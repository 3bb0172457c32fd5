----------------------------- MODULE ZfsmonUpdate -----------------------------
(***************************************************************************)
(* zfsmon_update (src/src/zfsmon.c) and everything it calls to copy the    *)
(* state of the kernel's pools into the store, while pools are imported,   *)
(* exported and used under its feet.                                       *)
(*                                                                         *)
(* The store is ZfsmonView, which ZfsmonStore implements as long as the    *)
(* wall clock is never set back: a hypothesis of all that is said here of  *)
(* samples.  The kernel and libzfs are external: a set of imported pools,  *)
(* and one counter, gen, that stands for the data of all of them.  What is *)
(* read of a pool is the value gen had at the time.                        *)
(*                                                                         *)
(* An update is four runs of zpool_iter, each with its callback, and one   *)
(* loop over the pool list:                                                *)
(*   pools    zfsmon_add_pool   (zfsmon_zpool_get_all)                     *)
(*   list     add_pool          (pool_list_get)                            *)
(*   props    prop_get_all      (for_each_pool, then pool_list_free)       *)
(*   refresh  refresh_iostat    (zfsmon_zpool_iostat_get_all)              *)
(*   save     save_iostat       (the same)                                 *)
(***************************************************************************)
EXTENDS Integers

CONSTANTS
    Pools, Props, None,
    MaxGen,     \* bound: the pools change this often
    MaxTime,    \* bound: the wall clock stops at this second
    MaxFaults   \* bound: libzfs fails this often

Gens == 0..MaxGen

VARIABLES
    valid, props, curr, prev, now,  \* the store: see ZfsmonView
    imported,   \* the kernel's pools
    gen,        \* the generation of their data
    faults,     \* how often libzfs has failed so far
    pc,         \* what zfsmon_update is doing, "idle" between two calls
    loaded,     \* has zpool_iter read the names of the kernel's pools?
    names,      \* ... those it has yet to visit
    cur,        \* the handle zpool_iter passes to the callback, or None
    list,       \* the handles in the AVL tree of zpool_list_t
    todo,       \* the <<handle, property>> pairs prop_get_all has yet to read
    open,       \* every zpool_handle_t not closed
    rc,         \* the result of zfsmon_update
    failed,     \* history: libzfs has failed in this update
    stayed,     \* history: the pools imported ever since the update began
    seen,       \* history: the pools imported at some time of the update
    gen0        \* history: gen when the update began

store   == <<valid, props, curr, prev, now>>
kernel  == <<imported, gen>>
iter    == <<pc, loaded, names, cur>>
history == <<stayed, seen, gen0>>
vars    == <<store, kernel, faults, iter, list, todo, open, rc, failed, history>>

Store == INSTANCE ZfsmonView WITH Values <- Gens, Stats <- Gens

IterStages == {"pools", "list", "refresh", "save"}
Handles    == [stage : IterStages, name : Pools, gen : Gens]

ASSUME UpdateConstants ==
    /\ MaxGen \in Nat /\ MaxTime \in Nat /\ MaxFaults \in Nat
    /\ None \notin Gens
    /\ None \notin Handles \cup Store!Sample

TypeOK ==
    /\ valid \subseteq Pools
    /\ props \in [Pools -> [Props -> Gens \cup {None}]]
    /\ curr \in [Pools -> Store!Sample \cup {None}]
    /\ prev \in [Pools -> Store!Sample \cup {None}]
    /\ now \in 0..MaxTime
    /\ imported \subseteq Pools /\ gen \in Gens
    /\ faults \in 0..MaxFaults
    /\ pc \in IterStages \cup {"idle", "props"}
    /\ loaded \in BOOLEAN /\ names \subseteq Pools
    /\ cur \in Handles \cup {None}
    /\ list \subseteq Handles /\ open \subseteq Handles
    /\ todo \subseteq list \X Props
    /\ rc \in {0, -1} /\ failed \in BOOLEAN
    /\ stayed \subseteq Pools /\ seen \subseteq Pools /\ gen0 \in Gens

(***************************************************************************)
(* A store just made by zfsmon_db_init, any pools imported.                *)
(***************************************************************************)
Init ==
    /\ now = 0 /\ Store!Init
    /\ imported \in SUBSET Pools /\ gen = 0
    /\ faults = 0
    /\ pc = "idle" /\ loaded = FALSE /\ names = {} /\ cur = None
    /\ list = {} /\ todo = {} /\ open = {}
    /\ rc = 0 /\ failed = FALSE
    /\ stayed = {} /\ seen = {} /\ gen0 = 0

-------------------------------------------------------------------------------
(***************************************************************************)
(* The kernel: import, export, and any other change of pool data.          *)
(***************************************************************************)
NextGen == gen < MaxGen /\ gen' = gen + 1

Import(p) ==
    /\ p \notin imported /\ NextGen
    /\ imported' = imported \cup {p}
    /\ seen' = IF pc = "idle" THEN seen ELSE seen \cup {p}
    /\ UNCHANGED <<store, faults, iter, list, todo, open, rc, failed, stayed, gen0>>

Export(p) ==
    /\ p \in imported /\ NextGen
    /\ imported' = imported \ {p}
    /\ stayed' = stayed \ {p}
    /\ UNCHANGED <<store, faults, iter, list, todo, open, rc, failed, seen, gen0>>

PoolsChange ==
    /\ imported # {} /\ NextGen
    /\ UNCHANGED <<store, imported, faults, iter, list, todo, open, rc, failed, history>>

Tick ==
    /\ now < MaxTime
    /\ now' = now + 1
    /\ UNCHANGED <<valid, props, curr, prev, kernel, faults, iter, list, todo, open,
                   rc, failed, history>>

(* A call into libzfs that fails though the pool is there. *)
Fault ==
    /\ faults < MaxFaults
    /\ faults' = faults + 1
    /\ failed' = TRUE

NoFault == UNCHANGED <<faults, failed>>

-------------------------------------------------------------------------------
(***************************************************************************)
(* zfsmon_update, up to the first zpool_iter: nothing is invalidated       *)
(* unless libzfs_init succeeds.                                            *)
(***************************************************************************)
zfsmon_update_keeping ==    \* mutant: nothing is invalidated
    /\ pc = "idle"
    /\ pc' = "pools"
    /\ rc' = 0
    /\ stayed' = imported /\ seen' = imported /\ gen0' = gen
    /\ failed' = FALSE
    /\ UNCHANGED <<store, kernel, faults, loaded, names, cur, list, todo, open>>

zfsmon_update ==
    /\ pc = "idle"
    /\ pc' = "pools"
    /\ rc' = 0
    /\ Store!Invalidate
    /\ stayed' = imported /\ seen' = imported /\ gen0' = gen
    /\ failed' = FALSE
    /\ UNCHANGED <<kernel, faults, loaded, names, cur, list, todo, open>>

libzfs_init_fails_late ==   \* mutant: invalidates first
    /\ pc = "idle"
    /\ Fault
    /\ rc' = -1
    /\ Store!Invalidate
    /\ UNCHANGED <<kernel, iter, list, todo, open, history>>

libzfs_init_fails ==
    /\ pc = "idle"
    /\ Fault
    /\ rc' = -1
    /\ UNCHANGED <<store, kernel, iter, list, todo, open, history>>

-------------------------------------------------------------------------------
(***************************************************************************)
(* zpool_iter of libzfs: read the kernel's pool names once, then open each *)
(* pool and call back.  A pool gone in the meantime is passed over; any    *)
(* error, and a callback that returns nonzero, ends the iteration.         *)
(***************************************************************************)
FollowingStage == [pools |-> "list", list |-> "props", refresh |-> "save", save |-> "idle"]

(* What the callers of zpool_iter make of its result: zfsmon_zpool_get_all *)
(* returns it, pool_list_get and zfsmon_zpool_iostat_get_all drop it.      *)
IterReturns(ret) ==
    /\ loaded' = FALSE
    /\ names' = {}
    /\ cur' = None
    /\ pc' = FollowingStage[pc]
    /\ rc' = IF pc = "pools" THEN ret ELSE rc

IterContinues ==
    /\ cur' = None
    /\ UNCHANGED <<pc, loaded, names, rc>>

(* pool_list_get hands the finished list to for_each_pool. *)
BeginProps == todo' = IF pc = "list" THEN list \X Props ELSE todo

namespace_reload ==
    /\ pc \in IterStages /\ ~ loaded
    /\ loaded' = TRUE
    /\ names' = imported
    /\ UNCHANGED <<store, kernel, faults, pc, cur, list, todo, open, rc, failed, history>>

zpool_open_silent(p) ==
    /\ pc \in IterStages /\ cur = None /\ p \in names
    /\ names' = names \ {p}
    /\ IF p \in imported
       THEN LET h == [stage |-> pc, name |-> p, gen |-> gen]
            IN  cur' = h /\ open' = open \cup {h}
       ELSE UNCHANGED <<cur, open>>
    /\ UNCHANGED <<store, kernel, faults, pc, loaded, list, todo, rc, failed, history>>

IterDone ==
    /\ pc \in IterStages /\ cur = None /\ loaded /\ names = {}
    /\ IterReturns(0)
    /\ BeginProps
    /\ UNCHANGED <<store, kernel, faults, list, open, failed, history>>

(* namespace_reload or zpool_open_silent reports an error. *)
IterFails ==
    /\ pc \in IterStages /\ cur = None /\ (loaded => names # {})
    /\ Fault
    /\ IterReturns(-1)
    /\ BeginProps
    /\ UNCHANGED <<store, kernel, list, open, history>>

-------------------------------------------------------------------------------
(***************************************************************************)
(* The callbacks.                                                          *)
(***************************************************************************)
InCallback(stage) == pc = stage /\ cur # None

zpool_close(h) == open' = open \ {h}

zfsmon_add_pool_leaking ==  \* mutant: no zpool_close
    /\ InCallback("pools")
    /\ Store!See(cur.name)
    /\ IterContinues /\ NoFault
    /\ UNCHANGED <<kernel, list, todo, open, history>>

zfsmon_add_pool ==
    /\ InCallback("pools")
    /\ Store!See(cur.name)
    /\ zpool_close(cur)
    /\ IterContinues /\ NoFault
    /\ UNCHANGED <<kernel, list, todo, history>>

(* add_pool keeps the handle in the list.  No pool is visited twice, so    *)
(* uu_avl_find never finds one of its name there.                          *)
add_pool ==
    /\ InCallback("list")
    /\ list' = list \cup {cur}
    /\ IterContinues /\ NoFault
    /\ UNCHANGED <<store, kernel, todo, open, history>>

(* zpool_expand_proplist fails. *)
add_pool_fails ==
    /\ InCallback("list")
    /\ Fault
    /\ zpool_close(cur)
    /\ IterReturns(-1)
    /\ BeginProps
    /\ UNCHANGED <<store, kernel, list, history>>

(* One round of the loop in prop_get_all.  libzfs answers from what it     *)
(* read when the pool was opened or reads anew.                            *)
prop_get_all(h, q) ==
    /\ pc = "props" /\ <<h, q>> \in todo
    /\ todo' = todo \ {<<h, q>>}
    /\ \E g \in h.gen..gen : Store!SetProp(h.name, q, g)
    /\ NoFault
    /\ UNCHANGED <<kernel, iter, list, open, rc, history>>

(* The property cannot be read, the loop continues with the next one.      *)
prop_get_all_skips(h, q) ==
    /\ pc = "props" /\ <<h, q>> \in todo
    /\ todo' = todo \ {<<h, q>>}
    /\ IF h.name \in imported THEN Fault ELSE NoFault
    /\ UNCHANGED <<store, kernel, iter, list, open, rc, history>>

pool_list_free_early ==     \* mutant: while prop_get_all still reads
    /\ pc = "props"
    /\ open' = open \ list
    /\ list' = {}
    /\ pc' = "refresh"
    /\ UNCHANGED <<store, kernel, faults, loaded, names, cur, todo, rc, failed, history>>

pool_list_kept ==           \* mutant: the list serves the next update too
    /\ pc = "props" /\ todo = {}
    /\ pc' = "refresh"
    /\ UNCHANGED <<store, kernel, faults, loaded, names, cur, list, todo, open, rc,
                   failed, history>>

pool_list_free ==
    /\ pc = "props" /\ todo = {}
    /\ open' = open \ list
    /\ list' = {}
    /\ pc' = "refresh"
    /\ UNCHANGED <<store, kernel, faults, loaded, names, cur, todo, rc, failed, history>>

(* zpool_refresh_stats finds the pool ... *)
refresh_iostat ==
    /\ InCallback("refresh")
    /\ cur.name \in imported
    /\ zpool_close(cur)
    /\ IterContinues /\ NoFault
    /\ UNCHANGED <<store, kernel, list, todo, history>>

refresh_iostat_gives_up ==  \* mutant: its result ends the update
    /\ InCallback("refresh")
    /\ IF cur.name \in imported THEN Fault ELSE NoFault
    /\ pc' = "idle" /\ loaded' = FALSE /\ names' = {} /\ cur' = None
    /\ rc' = -1
    /\ UNCHANGED <<store, kernel, list, todo, open, history>>

(* ... or misses it, or fails: two early returns without zpool_close. *)
refresh_iostat_fails ==
    /\ InCallback("refresh")
    /\ IF cur.name \in imported THEN Fault ELSE NoFault
    /\ IterReturns(-1)
    /\ UNCHANGED <<store, kernel, list, todo, open, history>>

(* The vdev_stat_t in the configuration read when the pool was opened. *)
save_iostat ==
    /\ InCallback("save")
    /\ Store!SaveIostat(cur.name, cur.gen)
    /\ zpool_close(cur)
    /\ IterContinues /\ NoFault
    /\ UNCHANGED <<kernel, list, todo, history>>

UpdateStep ==
    \/ zfsmon_update
    \/ libzfs_init_fails
    \/ namespace_reload
    \/ \E p \in Pools : zpool_open_silent(p)
    \/ IterDone
    \/ IterFails
    \/ zfsmon_add_pool
    \/ add_pool
    \/ add_pool_fails
    \/ \E h \in list, q \in Props : prop_get_all(h, q) \/ prop_get_all_skips(h, q)
    \/ pool_list_free
    \/ refresh_iostat
    \/ refresh_iostat_fails
    \/ save_iostat

Environment ==
    \/ \E p \in Pools : Import(p) \/ Export(p)
    \/ PoolsChange
    \/ Tick

Next == UpdateStep \/ Environment

Spec == Init /\ [][Next]_vars

(***************************************************************************)
(* The caller updates again and again ("It should also be called           *)
(* periodicaly", src/src/zfsmon.c:63) and no call into libzfs hangs.       *)
(* Nothing is assumed of the kernel, of the clock or of failures.          *)
(***************************************************************************)
FairSpec == Spec /\ WF_vars(UpdateStep)

-------------------------------------------------------------------------------
(***************************************************************************)
(* Properties.                                                             *)
(***************************************************************************)
Newer(v, g) == v # None /\ v >= g

Fresh(p, g) ==
    /\ \A q \in Props : Newer(props[p][q], g)
    /\ curr[p] # None /\ curr[p].iostat >= g

(* An update in which libzfs did not fail leaves nothing out: however      *)
(* pools come, go and change meanwhile, each pool that was there all the   *)
(* time is listed, and its properties and its newest sample are no older   *)
(* than the call ("Functions get current data from zfs",                   *)
(* src/src/zfsmon.c:63).  The newest sample is read back as the current    *)
(* one because the clock of ZfsmonView is never set back.                  *)
UpdateIsComplete ==
    [][pc # "idle" /\ pc' = "idle" /\ ~ failed'
        => (\A p \in stayed : p \in valid /\ Fresh(p, gen0))']_vars

(* An update lists no pool that was not there at some time of the call,    *)
(* whatever fails: the pools of earlier updates are gone from the list     *)
(* (zfsmon_db_zpool_invalidate_all) and no later stage brings one back.    *)
ListedWereSeen == valid \subseteq seen

(* What the store says of a pool never gets older, across updates, failed  *)
(* stages and pools that go and come back; of samples, as long as the wall *)
(* clock is not set back.                                                  *)
DataNeverOlder ==
    [][\A p \in Pools :
        /\ \A q \in Props : props[p][q] # None => Newer(props'[p][q], props[p][q])
        /\ curr[p] # None => /\ curr'[p] # None
                             /\ curr'[p].iostat >= curr[p].iostat]_vars

(* As long as the wall clock is not set back, the two samples              *)
(* zfsmon_zpool_iostat_bw_rd subtracts are of different seconds and in     *)
(* order: of a pool whose counters only grow the unsigned differences do   *)
(* not wrap.                                                               *)
SamplesOrdered ==
    \A p \in Pools : prev[p] # None =>
        /\ curr[p] # None
        /\ prev[p].time < curr[p].time
        /\ prev[p].iostat <= curr[p].iostat

(* A handle left open after an update was dropped by refresh_iostat.       *)
OnlyRefreshLeaks == pc = "idle" => \A h \in open : h.stage = "refresh"

Listing == INSTANCE ZfsmonListing WITH
    valid <- IF pc = "idle" THEN valid ELSE {}, updating <- pc # "idle"

(* All that the Ganglia module makes of an update's list: however the      *)
(* iterations of zpool_iter, imports, exports and failures interleave, an  *)
(* update is a begin and an end of ZfsmonListing.                          *)
ImplementsListing == Listing!Spec

(* Once the kernel and the failures have come to rest the store catches up *)
(* and stays right.                                                        *)
Converges ==
    <>[](pc = "idle" => valid = imported /\ \A p \in imported : Fresh(p, gen))

(* "Open/Close libzfs on every update because it leaks memory, unless      *)
(* libzfs_fini() is called" (src/src/zfsmon.c:73): after an update nothing *)
(* of it is left.  Not so, see refresh_iostat_fails.                       *)
NoHandleLeak == pc = "idle" => open = {}

(* "@return 0 on sucess, -1 on permission issues, and positive integer in  *)
(* case of other errors" (src/src/zfsmon.c:67).  Not so: only the first    *)
(* zpool_iter's result reaches the caller.                                 *)
ZeroMeansSuccess == pc = "idle" /\ failed => rc # 0
===============================================================================
