--------------------------- MODULE ZfsmonGmondProofs --------------------------
(***************************************************************************)
(* Proofs about ZfsmonGmond: an inductive invariant and the safety         *)
(* properties of the Ganglia module, for any pools and any ZFS_STALE_DATA. *)
(***************************************************************************)
EXTENDS ZfsmonGmond, SequenceTheorems, TLAPS

-------------------------------------------------------------------------------
(***************************************************************************)
(* The inductive invariant.                                                *)
(***************************************************************************)

(* curr_pools_time tells whether the library is open between two calls,    *)
(* and the place in the code tells it within one.                          *)
LibraryInv ==
    /\ connections = IF db THEN 1 ELSE 0
    /\ db <=> pc \in {"metric_init", "init"} \/ (timed /\ pc # "cleaned")
    /\ pc \in {"new", "metric_init", "init"} => ~ timed
    /\ pc \in {"ready", "updating", "locked", "found", "got"} => timed
    /\ updating => pc \in {"metric_init", "init", "updating"}

(* Outside an update the list is what the last one left, queries change    *)
(* nothing.                                                                *)
ListedInv ==
    ~ updating => /\ valid = listed
                  /\ valid \subseteq seen
                  /\ failed \/ stayed \subseteq valid

RegisteredInv == pc \notin {"new", "metric_init"} => metric_info = Registered(initial_pools)

(* What a handler has found out so far about its index.                    *)
CallInv ==
    /\ pc \in {"updating", "locked", "found", "got"} => InRange
    /\ pc \in {"found", "got"} => req_name \in listed
    /\ IF pc = "got"
       THEN v = [pool |-> req_name, get |-> zfsmon_zpool_metrics[zpool_m_idx + 1].get]
       ELSE v = None

(* While nothing has failed and the clock has not been set back, data are  *)
(* as old as their update was long when it ends, and curr_pools_time       *)
(* counts what comes on top.                                               *)
AgeInv ==
    /\ TakesTime /\ ~ updating /\ faults = 0 => age <= took
    /\ /\ timed /\ ~ TakesTime /\ pc # "cleaned"
       /\ faults = 0 /\ setbacks = 0 /\ since < ZFS_STALE_DATA
       => age <= since + took

IInv ==
    /\ TypeOK
    /\ LibraryInv
    /\ ListedInv
    /\ RegisteredInv
    /\ CallInv
    /\ AgeInv

-------------------------------------------------------------------------------
(***************************************************************************)
(* The table of metrics and the registered metrics.                        *)
(***************************************************************************)
LEMMA TableSize == ZFS_METRICS_CNT = 8
  BY DEF ZFS_METRICS_CNT, zfsmon_zpool_metrics

LEMMA TableRows ==
    ASSUME NEW k \in 1..ZFS_METRICS_CNT
    PROVE  /\ zfsmon_zpool_metrics[k].reg \in Regs
           /\ zfsmon_zpool_metrics[k].get \in Gets
  BY DEF Regs, Gets

(* Each row of the table reads what its name says, into the field its type *)
(* says.                                                                   *)
LEMMA TableIsRight ==
    ASSUME NEW k \in 1..ZFS_METRICS_CNT
    PROVE  zfsmon_zpool_metrics[k].get = Meant(zfsmon_zpool_metrics[k].reg)
  <1>1. k \in 1..8
    BY TableSize
  <1> USE DEF zfsmon_zpool_metrics, Meant, zfsmon_zpool_prop_str, zfsmon_zpool_prop_double,
              zfsmon_zpool_prop_uint64, zfsmon_zpool_iostat_bw_rd, zfsmon_zpool_iostat_bw_wr
  <1>2. CASE k = 1
    BY <1>2 DEF reg_health, get_health
  <1>3. CASE k = 2
    BY <1>3 DEF reg_size, get_size
  <1>4. CASE k = 3
    BY <1>4 DEF reg_free, get_free
  <1>5. CASE k = 4
    BY <1>5 DEF reg_allocated, get_allocated
  <1>6. CASE k = 5
    BY <1>6 DEF reg_capacity, get_capacity
  <1>7. CASE k = 6
    BY <1>7 DEF reg_dedupratio, get_dedupratio
  <1>8. CASE k = 7
    BY <1>8 DEF reg_iostat_rd, get_iostat_rd
  <1>9. CASE k = 8
    BY <1>9 DEF reg_iostat_wr, get_iostat_wr
  <1> HIDE DEF zfsmon_zpool_metrics, Meant
  <1> QED BY <1>1, <1>2, <1>3, <1>4, <1>5, <1>6, <1>7, <1>8, <1>9

LEMMA RowOfIndex ==
    ASSUME NEW j \in Nat, NEW m \in Nat
    PROVE  /\ j \div ZFS_METRICS_CNT \in Nat
           /\ (j % ZFS_METRICS_CNT) + 1 \in 1..ZFS_METRICS_CNT
           /\ j \div ZFS_METRICS_CNT < m <=> j < m * ZFS_METRICS_CNT
           /\ j < m * ZFS_METRICS_CNT => j \div ZFS_METRICS_CNT + 1 \in 1..m
  BY TableSize

LEMMA SeqOfFunction ==
    ASSUME NEW S, NEW n \in Nat, NEW f \in [1..n -> S]
    PROVE  f \in Seq(S) /\ Len(f) = n
  <1>1. f \in Seq(S)
    BY SeqDef
  <1>2. Len(f) \in Nat /\ 1..Len(f) = 1..n
    BY <1>1, LenProperties
  <1> QED BY <1>1, <1>2

(* An index is in range if and only if a metric is registered under it,    *)
(* and then the handler finds the pool and the row it was registered for.  *)
LEMMA IndexFinds ==
    ASSUME NEW pools \in Seq(Pools), NEW i \in Nat
    PROVE  /\ Registered(pools) \in Seq([pool : Pools, reg : Regs])
           /\ Len(Registered(pools)) = Len(pools) * ZFS_METRICS_CNT
           /\ i \div ZFS_METRICS_CNT \in Nat
           /\ (i % ZFS_METRICS_CNT) + 1 \in 1..ZFS_METRICS_CNT
           /\ i \div ZFS_METRICS_CNT < Len(pools) <=> i < Len(Registered(pools))
           /\ i < Len(Registered(pools)) =>
                /\ pools[i \div ZFS_METRICS_CNT + 1] \in Pools
                /\ Registered(pools)[i + 1] =
                    [pool |-> pools[i \div ZFS_METRICS_CNT + 1],
                     reg  |-> zfsmon_zpool_metrics[(i % ZFS_METRICS_CNT) + 1].reg]
  <1> DEFINE n == Len(pools) * ZFS_METRICS_CNT
             metric(k) == [pool |-> pools[(k - 1) \div ZFS_METRICS_CNT + 1],
                           reg  |-> zfsmon_zpool_metrics[((k - 1) % ZFS_METRICS_CNT) + 1].reg]
  <1>1. Len(pools) \in Nat /\ n \in Nat
    BY TableSize
  <1>2. /\ i \div ZFS_METRICS_CNT \in Nat
        /\ (i % ZFS_METRICS_CNT) + 1 \in 1..ZFS_METRICS_CNT
        /\ i \div ZFS_METRICS_CNT < Len(pools) <=> i < n
        /\ i < n => i \div ZFS_METRICS_CNT + 1 \in 1..Len(pools)
    BY <1>1, RowOfIndex
  <1>3. Registered(pools) = [k \in 1..n |-> metric(k)]
    BY DEF Registered
  <1>4. ASSUME NEW k \in 1..n PROVE metric(k) \in [pool : Pools, reg : Regs]
    <2>1. k - 1 \in Nat /\ k - 1 < n
      BY <1>1
    <2>2. /\ (k - 1) \div ZFS_METRICS_CNT + 1 \in 1..Len(pools)
          /\ ((k - 1) % ZFS_METRICS_CNT) + 1 \in 1..ZFS_METRICS_CNT
      BY <1>1, <2>1, RowOfIndex
    <2>3. pools[(k - 1) \div ZFS_METRICS_CNT + 1] \in Pools
      BY <2>2, ElementOfSeq
    <2>4. zfsmon_zpool_metrics[((k - 1) % ZFS_METRICS_CNT) + 1].reg \in Regs
      BY <2>2, TableRows
    <2> QED BY <2>3, <2>4
  <1> HIDE DEF metric, n
  <1>5. Registered(pools) \in [1..n -> [pool : Pools, reg : Regs]]
    BY <1>3, <1>4
  <1>6. Registered(pools) \in Seq([pool : Pools, reg : Regs]) /\ Len(Registered(pools)) = n
    BY <1>1, <1>5, SeqOfFunction
  <1>7. ASSUME i < n
        PROVE  /\ pools[i \div ZFS_METRICS_CNT + 1] \in Pools
               /\ Registered(pools)[i + 1] = metric(i + 1)
    <2>1. i \div ZFS_METRICS_CNT + 1 \in 1..Len(pools) /\ i + 1 \in 1..n
      BY <1>1, <1>2, <1>7
    <2> QED BY <1>3, <2>1, ElementOfSeq
  <1>8. (i + 1) - 1 = i
    OBVIOUS
  <1> QED BY <1>2, <1>6, <1>7, <1>8 DEF n, metric

-------------------------------------------------------------------------------
(***************************************************************************)
(* The kernel and the clocks.                                              *)
(***************************************************************************)
LEMMA InitIInv == Init => IInv
  <1> SUFFICES ASSUME Init PROVE IInv
    OBVIOUS
  <1> USE DEF Init, Update!Init
  <1>1. TypeOK
    <2>1. initial_pools \in Seq(Pools) /\ metric_info \in Seq([pool : Pools, reg : Regs])
      BY EmptySeq
    <2>2. pools_cnt = Len(initial_pools)
      BY EmptySeq
    <2>3. /\ faults \in 0..MaxFaults /\ setbacks \in 0..MaxSetbacks
          /\ since \in (-MaxBack)..ZFS_STALE_DATA
          /\ took \in 0..MaxSlow /\ age \in 0..MaxAge
      BY GmondConstants DEF MaxAge
    <2>4. /\ imported \subseteq Pools /\ valid \subseteq Pools
          /\ updating \in BOOLEAN /\ failed \in BOOLEAN
          /\ stayed \subseteq seen /\ seen \subseteq Pools /\ listed \subseteq Pools
      OBVIOUS
    <2>5. connections \in 0..1
      OBVIOUS
    <2>6. db \in BOOLEAN /\ timed \in BOOLEAN /\ pools_l \in BOOLEAN
      OBVIOUS
    <2>7. /\ pc \in InHandler \cup {"new", "metric_init", "idle", "cleaned"}
          /\ metric_index \in Indices \cup {0} /\ v \in Values \cup {None}
      OBVIOUS
    <2> QED BY <2>1, <2>2, <2>3, <2>4, <2>5, <2>6, <2>7
            DEF TypeOK
  <1>2. LibraryInv /\ ListedInv
    BY DEF LibraryInv, ListedInv
  <1>3. RegisteredInv /\ CallInv /\ AgeInv
    BY DEF RegisteredInv, CallInv, AgeInv, TakesTime
  <1> QED BY <1>1, <1>2, <1>3 DEF IInv

LEMMA KernelIInv ==
    ASSUME IInv, NEW p \in Pools, Import(p) \/ Export(p)
    PROVE  IInv'
  <1> USE DEF IInv, mishaps, library, globals, clock, call
  <1>1. /\ imported' \subseteq Pools /\ stayed' \subseteq stayed
        /\ seen \subseteq seen' /\ seen' \subseteq Pools
        /\ UNCHANGED <<valid, updating, failed, listed, took, age, mishaps, pc,
                       library, globals, clock, pools_l, call>>
    BY DEF TypeOK, Import, Export, Update!Import, Update!Export
  <1>2. TypeOK'
    BY <1>1 DEF TypeOK
  <1>3. LibraryInv' /\ ListedInv'
    BY <1>1 DEF LibraryInv, ListedInv
  <1>4. RegisteredInv' /\ CallInv' /\ AgeInv'
    BY <1>1 DEF RegisteredInv, CallInv, AgeInv, TakesTime, InRange, zpool_idx, zpool_m_idx,
                req_name
  <1> QED BY <1>2, <1>3, <1>4

LEMMA TickIInv ==
    ASSUME IInv, Tick
    PROVE  IInv'
  <1> USE DEF IInv, Tick, mishaps, library, globals, call
  <1>1. /\ since' \in (-MaxBack)..ZFS_STALE_DATA
        /\ took' \in 0..MaxSlow /\ age' \in 0..MaxAge
    BY GmondConstants DEF TypeOK, UpTo, MaxAge
  <1>2. TypeOK'
    BY <1>1 DEF TypeOK
  <1>3. LibraryInv' /\ ListedInv'
    BY DEF LibraryInv, ListedInv
  <1>4. RegisteredInv' /\ CallInv'
    BY DEF RegisteredInv, CallInv, InRange, zpool_idx, zpool_m_idx, req_name
  <1>5. AgeInv'
    <2>1. TakesTime \/ (timed /\ pc # "cleaned") => age' <= age + 1
      BY GmondConstants DEF LibraryInv, TypeOK, TakesTime, UpTo, MaxAge
    <2> QED BY <2>1, GmondConstants DEF AgeInv, TypeOK, TakesTime, UpTo, MaxAge
  <1> QED BY <1>2, <1>3, <1>4, <1>5

LEMMA SetbackIInv ==
    ASSUME IInv, SetClockBack
    PROVE  IInv'
  <1> USE DEF IInv, SetClockBack, update, library, globals, call
  <1>1. /\ since' \in (-MaxBack)..ZFS_STALE_DATA
        /\ setbacks' \in 0..MaxSetbacks /\ setbacks' # 0
    BY GmondConstants DEF TypeOK
  <1>2. TypeOK'
    BY <1>1 DEF TypeOK
  <1>3. LibraryInv' /\ ListedInv'
    BY DEF LibraryInv, ListedInv
  <1>4. RegisteredInv' /\ CallInv'
    BY DEF RegisteredInv, CallInv, InRange, zpool_idx, zpool_m_idx, req_name
  <1>5. AgeInv'
    BY <1>1 DEF AgeInv, TakesTime
  <1> QED BY <1>2, <1>3, <1>4, <1>5

-------------------------------------------------------------------------------
(***************************************************************************)
(* The library: what a begin and an end of an update leave.                *)
(***************************************************************************)
LEMMA UpdateBegins ==
    ASSUME TypeOK, zfsmon_update
    PROVE  /\ valid' \subseteq Pools /\ stayed' \subseteq seen' /\ seen' \subseteq Pools
           /\ updating' \in BOOLEAN /\ failed' \in BOOLEAN
           /\ faults' \in 0..MaxFaults /\ took' = 0
           /\ UNCHANGED <<imported, listed>>
           /\ \/ updating'
              \/ /\ ~ updating /\ ~ updating' /\ failed' /\ faults' # 0
                 /\ UNCHANGED <<valid, stayed, seen>>
  <1> USE DEF zfsmon_update
  <1>1. CASE Update!Begin /\ UNCHANGED faults
    <2>1. updating' \in BOOLEAN /\ failed' \in BOOLEAN /\ updating'
      BY <1>1, Zenon DEF Update!Begin
    <2> QED BY <1>1, <2>1 DEF TypeOK, Update!Begin
  <1>2. CASE Update!CannotBegin /\ faults < MaxFaults /\ faults' = faults + 1
    <2>1. /\ updating' \in BOOLEAN /\ failed' \in BOOLEAN
          /\ ~ updating /\ ~ updating' /\ failed'
      BY <1>2, Zenon DEF TypeOK, Update!CannotBegin
    <2>2. faults' \in 0..MaxFaults /\ faults' # 0
      BY <1>2, GmondConstants DEF TypeOK
    <2> QED BY <1>2, <2>1, <2>2 DEF TypeOK, Update!CannotBegin
  <1> QED BY <1>1, <1>2

LEMMA UpdateEnds ==
    ASSUME TypeOK, update_returns
    PROVE  /\ valid' \subseteq seen /\ listed' = valid'
           /\ updating' \in BOOLEAN /\ failed' \in BOOLEAN
           /\ faults' \in 0..MaxFaults /\ age' \in 0..MaxAge
           /\ updating /\ ~ updating'
           /\ failed' \/ stayed \subseteq valid'
           /\ faults' = 0 => age' = took
           /\ UNCHANGED <<imported, stayed, seen, took>>
  <1> USE DEF update_returns
  <1>1. /\ updating' \in BOOLEAN /\ failed' \in BOOLEAN /\ updating /\ ~ updating'
        /\ valid' \subseteq seen
        /\ failed' \/ stayed \subseteq valid'
    BY Zenon DEF TypeOK, Update!End
  <1>2. UNCHANGED <<imported, stayed, seen, took>>
    BY DEF Update!End
  <1>3. faults' \in 0..MaxFaults /\ (faults' = 0 => ~ failed')
    BY GmondConstants DEF TypeOK
  <1>4. age' \in 0..MaxAge
    BY GmondConstants DEF TypeOK, MaxAge
  <1>5. faults' = 0 => age' = took
    BY <1>3
  <1> QED BY <1>1, <1>2, <1>3, <1>4, <1>5

LEMMA UpdateReturnsIInv ==
    ASSUME IInv, update_returns
    PROVE  IInv'
  <1> USE UpdateEnds DEF IInv
  <1>1. UNCHANGED <<took, setbacks, pc, library, globals, clock, pools_l, call>>
    BY DEF update_returns
  <1> USE <1>1 DEF library, globals, clock, call
  <1>2. TypeOK'
    BY DEF TypeOK
  <1>3. pc \in {"metric_init", "init", "updating"}
    BY DEF LibraryInv
  <1>4. LibraryInv' /\ ListedInv' /\ RegisteredInv'
    BY DEF LibraryInv, ListedInv, RegisteredInv
  <1>5. CallInv'
    BY <1>3 DEF CallInv, InRange, zpool_idx, zpool_m_idx, req_name
  <1>6. AgeInv'
    BY <1>3, GmondConstants DEF AgeInv, TakesTime, TypeOK
  <1> QED BY <1>2, <1>4, <1>5, <1>6

(* Two steps open the library, on entry of zfsmon_metric_init and of the   *)
(* first handler.                                                          *)
LEMMA InitialiseIInv ==
    ASSUME IInv, ~ timed, zfsmon_init, ~ db,
           UNCHANGED <<setbacks, globals, clock, call>>, pools_l' \in BOOLEAN,
           \/ pc = "new" /\ pc' = "metric_init"
           \/ pc = "called" /\ pc' = "init"
    PROVE  IInv'
  <1> USE UpdateBegins DEF IInv, zfsmon_init, globals, clock, call
  <1>1. connections' \in 0..1 /\ connections' = 1
    BY DEF zfsmon_db_init, LibraryInv
  <1>2. db' \in BOOLEAN /\ db'
    BY Zenon
  <1>3. TypeOK'
    <2>1. pc' \in InHandler \cup {"new", "metric_init", "idle", "cleaned"}
      BY DEF InHandler
    <2>2. timed' \in BOOLEAN
      BY Zenon DEF TypeOK
    <2>3. age' \in 0..MaxAge
      BY GmondConstants DEF MaxAge
    <2> QED BY <1>1, <1>2, <2>1, <2>2, <2>3, GmondConstants DEF TypeOK
  <1>4. LibraryInv'
    BY <1>1, <1>2 DEF LibraryInv
  <1>5. ListedInv'
    BY DEF ListedInv, LibraryInv
  <1>6. RegisteredInv' /\ CallInv' /\ AgeInv'
    BY DEF RegisteredInv, CallInv, AgeInv, TakesTime
  <1> QED BY <1>3, <1>4, <1>5, <1>6

LEMMA LibraryClosed ==
    ASSUME TypeOK, LibraryInv, db, zfsmon_fini
    PROVE  /\ connections' = 0 /\ ~ db'
           /\ connections' \in 0..1 /\ db' \in BOOLEAN /\ failed' \in BOOLEAN
           /\ valid' = {} /\ listed' = {} /\ stayed' = {} /\ seen' = {} /\ took' = 0
           /\ age' = 0 /\ UNCHANGED updating
  <1>1. connections' = 0
    BY DEF zfsmon_fini, zfsmon_db_fini, LibraryInv
  <1>2. ~ db' /\ db' \in BOOLEAN /\ failed' \in BOOLEAN
    BY Zenon DEF zfsmon_fini
  <1> QED BY <1>1, <1>2 DEF zfsmon_fini

-------------------------------------------------------------------------------
(***************************************************************************)
(* The module's functions.                                                 *)
(***************************************************************************)
LEMMA BeginMetricInitIInv ==
    ASSUME IInv, begin_metric_init
    PROVE  IInv'
  <1> USE DEF begin_metric_init, Goto
  <1>1. ~ timed /\ ~ db
    BY DEF IInv, LibraryInv
  <1>2. pools_l' \in BOOLEAN
    BY Zenon
  <1> QED BY <1>1, <1>2, InitialiseIInv

LEMMA MetricInitIInv ==
    ASSUME IInv, zfsmon_metric_init
    PROVE  IInv'
  <1> USE DEF IInv, zfsmon_metric_init, Goto, mishaps, clock, call
  <1>1. pools_l' \in BOOLEAN
    BY Zenon
  <1>2. db /\ ~ timed /\ zfsmon_fini
    BY DEF LibraryInv
  <1> USE LibraryClosed
  <1>3. initial_pools' \in Seq(Pools)
    <2>1. PICK n \in 0..Len(Names) : initial_pools' \in [1..n -> valid]
      BY DEF zfsmon_zpool_all, InOrder
    <2>2. n \in Nat /\ initial_pools' \in [1..n -> Pools]
      BY <2>1, GmondConstants DEF TypeOK
    <2> QED BY <2>2, SeqOfFunction
  <1>4. metric_info' \in Seq([pool : Pools, reg : Regs])
    BY <1>3, IndexFinds
  <1>5. TypeOK'
    <2>1. pc' \in InHandler \cup {"new", "metric_init", "idle", "cleaned"}
      OBVIOUS
    <2>2. timed' \in BOOLEAN /\ updating' \in BOOLEAN
      BY <1>2, Zenon DEF TypeOK
    <2>3. pools_cnt' = Len(initial_pools')
      OBVIOUS
    <2>4. took' \in 0..MaxSlow /\ age' \in 0..MaxAge
      BY <1>2, GmondConstants DEF MaxAge
    <2> HIDE DEF zfsmon_zpool_all
    <2> QED BY <1>1, <1>2, <1>3, <1>4, <2>1, <2>2, <2>3, <2>4 DEF TypeOK
  <1>6. LibraryInv' /\ ListedInv'
    <2>1. UNCHANGED <<timed, updating>> /\ ~ db' /\ connections' = 0 /\ pc' = "idle"
      BY <1>2
    <2>2. LibraryInv'
      BY <1>2, <2>1 DEF LibraryInv
    <2>3. ListedInv'
      BY <1>2 DEF ListedInv
    <2> QED BY <2>2, <2>3
  <1>7. RegisteredInv'
    BY DEF RegisteredInv, Registered
  <1>8. CallInv' /\ AgeInv'
    BY <1>2 DEF CallInv, AgeInv, TakesTime
  <1> QED BY <1>5, <1>6, <1>7, <1>8

LEMMA CleanupIInv ==
    ASSUME IInv, zfsmon_metric_cleanup
    PROVE  IInv'
  <1> USE DEF IInv, zfsmon_metric_cleanup, Goto, mishaps, globals, clock, call
  <1>1. CASE timed
    <2>1. db /\ zfsmon_fini
      BY <1>1 DEF LibraryInv
    <2> USE LibraryClosed
    <2>2. timed' \in BOOLEAN /\ updating' \in BOOLEAN /\ pools_l' \in BOOLEAN
      BY <2>1, Zenon DEF TypeOK
    <2>3. took' \in 0..MaxSlow /\ age' \in 0..MaxAge
      BY <2>1, GmondConstants DEF MaxAge
    <2>4. TypeOK'
      BY <2>1, <2>2, <2>3 DEF TypeOK
    <2>5. LibraryInv' /\ ListedInv'
      BY <2>1 DEF LibraryInv, ListedInv
    <2> QED BY <2>1, <2>4, <2>5 DEF RegisteredInv, CallInv, AgeInv, TakesTime
  <1>2. CASE ~ timed
    <2> USE DEF library, update
    <2>1. TypeOK'
      BY <1>2 DEF TypeOK
    <2>2. LibraryInv' /\ ListedInv'
      BY <1>2 DEF LibraryInv, ListedInv
    <2> QED BY <1>2, <2>1, <2>2 DEF RegisteredInv, CallInv, AgeInv, TakesTime
  <1> QED BY <1>1, <1>2

(* Steps of a handler that touch neither the library nor an update: what   *)
(* is left to show is what they do to pc, the clock, the mutex and v.      *)
LEMMA HandlerStepIInv ==
    ASSUME IInv, UNCHANGED <<imported, updating, failed, stayed, seen, listed, took, age,
                             mishaps, library, globals>>,
           pc \in InHandler \cup {"idle"}, pc' \in InHandler \cup {"idle"},
           valid' = valid, pools_l' \in BOOLEAN, timed' \in BOOLEAN,
           since' \in (-MaxBack)..ZFS_STALE_DATA,
           metric_index' \in Indices \cup {0}, v' \in Values \cup {None},
           LibraryInv', CallInv', AgeInv'
    PROVE  IInv'
  <1> USE DEF IInv, mishaps, library, globals
  <1>1. TypeOK'
    BY DEF TypeOK
  <1>2. ListedInv' /\ RegisteredInv'
    BY DEF ListedInv, RegisteredInv, InHandler
  <1> QED BY <1>1, <1>2

LEMMA CallIInv ==
    ASSUME IInv, NEW i \in Indices, call_handler(i)
    PROVE  IInv'
  <1> USE DEF IInv, call_handler, Goto, update, mishaps, library, globals, clock
  <1>1. pools_l' \in BOOLEAN /\ timed' \in BOOLEAN
    BY Zenon DEF TypeOK
  <1>2. LibraryInv' /\ CallInv' /\ AgeInv'
    BY DEF LibraryInv, CallInv, AgeInv, TakesTime
  <1> QED BY <1>1, <1>2, HandlerStepIInv DEF TypeOK, InHandler

LEMMA EnterIInv ==
    ASSUME IInv, is_initialised \/ initialise \/ set_first_time
    PROVE  IInv'
  <1> USE DEF IInv, Goto
  <1>1. CASE is_initialised
    <2> USE <1>1 DEF is_initialised, update, mishaps, library, globals, clock, call
    <2>1. pools_l' \in BOOLEAN /\ timed' \in BOOLEAN
      BY Zenon DEF TypeOK
    <2>2. LibraryInv' /\ CallInv' /\ AgeInv'
      BY DEF LibraryInv, CallInv, AgeInv, TakesTime
    <2> QED BY <2>1, <2>2, HandlerStepIInv DEF TypeOK, InHandler
  <1>2. CASE initialise
    <2> USE <1>2 DEF initialise
    <2>1. ~ db
      BY DEF LibraryInv
    <2>2. pools_l' \in BOOLEAN
      BY Zenon DEF TypeOK
    <2> QED BY <2>1, <2>2, InitialiseIInv
  <1>3. CASE set_first_time
    <2> USE <1>3 DEF set_first_time, SetTime, update, mishaps, library, globals, call
    <2>1. pools_l' \in BOOLEAN /\ timed' \in BOOLEAN /\ timed'
      BY Zenon DEF TypeOK
    <2>2. LibraryInv' /\ CallInv'
      BY <2>1 DEF LibraryInv, CallInv
    <2>3. AgeInv'
      BY GmondConstants DEF AgeInv, TakesTime, TypeOK
    <2>4. since' \in (-MaxBack)..ZFS_STALE_DATA
      BY GmondConstants
    <2> QED BY <2>1, <2>2, <2>3, <2>4, HandlerStepIInv DEF TypeOK, InHandler
  <1> QED BY <1>1, <1>2, <1>3

LEMMA ReturnsIInv ==
    ASSUME IInv, reject_index \/ zpool_is_invalid \/ return_value
    PROVE  IInv'
  <1> USE DEF IInv, reject_index, zpool_is_invalid, return_value, Return, Unlock, Goto, update,
              mishaps, library, globals, clock
  <1>1. /\ UNCHANGED <<imported, update, mishaps, library, globals, clock>>
        /\ pc \in {"ready", "locked", "got"} /\ pc' = "idle"
        /\ metric_index' = 0 /\ v' = None
    BY Zenon
  <1>2. pools_l' \in BOOLEAN
    BY Zenon DEF TypeOK
  <1>3. timed' \in BOOLEAN
    BY <1>1, Zenon DEF TypeOK
  <1> HIDE DEF reject_index, zpool_is_invalid, return_value
  <1>4. LibraryInv'
    BY <1>1 DEF LibraryInv
  <1>5. CallInv'
    BY <1>1 DEF CallInv
  <1>6. AgeInv'
    BY <1>1 DEF AgeInv, TakesTime, LibraryInv
  <1> QED BY <1>1, <1>2, <1>3, <1>4, <1>5, <1>6, HandlerStepIInv DEF TypeOK, InHandler

LEMMA LockAndUpdateIInv ==
    ASSUME IInv, lock_and_update
    PROVE  IInv'
  <1> USE UpdateBegins DEF IInv, lock_and_update, Goto, library, globals, clock, call
  <1>1. pools_l' \in BOOLEAN
    BY Zenon DEF Lock
  <1>2. timed' \in BOOLEAN /\ db' \in BOOLEAN
    BY Zenon DEF TypeOK
  <1>3. TypeOK'
    <2>1. pc' \in InHandler
      BY DEF InHandler
    <2>2. took' \in 0..MaxSlow
      BY GmondConstants
    <2> HIDE DEF lock_and_update
    <2>3. UNCHANGED <<setbacks, library, globals, clock, call, age>>
      BY DEF lock_and_update
    <2>4. zfsmon_update
      BY DEF lock_and_update
    <2> QED BY <1>1, <1>2, <2>1, <2>2, <2>3, <2>4 DEF TypeOK
  <1>4. ~ updating /\ timed
    BY DEF LibraryInv
  <1>5. LibraryInv'
    <2>1. pc = "ready" /\ pc' = "updating" /\ UNCHANGED <<connections, db, timed>>
      OBVIOUS
    <2> HIDE DEF lock_and_update
    <2> QED BY <1>4, <2>1 DEF LibraryInv
  <1>6. ListedInv'
    BY <1>4 DEF ListedInv
  <1>7. RegisteredInv' /\ CallInv'
    BY DEF RegisteredInv, CallInv, InRange, zpool_idx
  <1>8. AgeInv'
    BY DEF AgeInv, TakesTime, TypeOK
  <1> QED BY <1>3, <1>5, <1>6, <1>7, <1>8

LEMMA LockedIInv ==
    ASSUME IInv, set_time \/ lock_without_update \/ zpool_is_valid
    PROVE  IInv'
  <1> USE DEF IInv, Goto, SetTime, update, mishaps, library, globals, clock, call
  <1>1. CASE set_time
    <2> USE <1>1 DEF set_time
    <2>1. pools_l' \in BOOLEAN /\ timed' \in BOOLEAN /\ timed'
      BY Zenon DEF TypeOK
    <2>2. LibraryInv'
      BY <2>1 DEF LibraryInv
    <2>3. CallInv'
      BY DEF CallInv, InRange, zpool_idx
    <2>4. AgeInv'
      BY GmondConstants DEF AgeInv, TakesTime, TypeOK
    <2>5. since' \in (-MaxBack)..ZFS_STALE_DATA
      BY GmondConstants
    <2> QED BY <2>1, <2>2, <2>3, <2>4, <2>5, HandlerStepIInv DEF TypeOK, InHandler
  <1>2. CASE lock_without_update
    <2> USE <1>2 DEF lock_without_update, Lock
    <2>1. pools_l' \in BOOLEAN /\ timed' \in BOOLEAN
      BY Zenon DEF TypeOK
    <2>2. LibraryInv' /\ AgeInv'
      BY DEF LibraryInv, AgeInv, TakesTime
    <2>3. CallInv'
      BY DEF CallInv, InRange, zpool_idx
    <2> QED BY <2>1, <2>2, <2>3, HandlerStepIInv DEF TypeOK, InHandler
  <1>3. CASE zpool_is_valid
    <2> USE <1>3 DEF zpool_is_valid
    <2>1. pools_l' \in BOOLEAN /\ timed' \in BOOLEAN
      BY Zenon DEF TypeOK
    <2>2. LibraryInv' /\ AgeInv'
      BY DEF LibraryInv, AgeInv, TakesTime
    <2>3. ~ updating
      BY DEF LibraryInv
    <2>4. CallInv'
      BY <2>3 DEF CallInv, ListedInv, InRange, zpool_idx, req_name
    <2> QED BY <2>1, <2>2, <2>4, HandlerStepIInv DEF TypeOK, InHandler
  <1> QED BY <1>1, <1>2, <1>3

(* The handler reads the list, and the table, within their bounds.         *)
LEMMA InBounds ==
    ASSUME IInv, InRange
    PROVE  /\ metric_index \in Nat /\ req_name \in Pools
           /\ zpool_m_idx + 1 \in 1..ZFS_METRICS_CNT
           /\ [pool |-> req_name, get |-> zfsmon_zpool_metrics[zpool_m_idx + 1].get] \in Values
  <1> USE DEF IInv
  <1>1. metric_index \in Nat
    BY GmondConstants DEF TypeOK
  <1>2. initial_pools \in Seq(Pools)
    BY DEF TypeOK
  <1>3. req_name \in Pools /\ zpool_m_idx + 1 \in 1..ZFS_METRICS_CNT
    BY <1>1, <1>2, IndexFinds DEF TypeOK, InRange, zpool_idx, zpool_m_idx, req_name
  <1> QED BY <1>1, <1>3, TableRows DEF Values

LEMMA GetMetricIInv ==
    ASSUME IInv, get_metric
    PROVE  IInv'
  <1> USE DEF IInv, get_metric, Goto, mishaps, library, globals, clock
  <1>1. ~ updating /\ req_name \in valid /\ InRange
    BY DEF LibraryInv, CallInv, ListedInv
  <1>2. v' \in Values /\ v' = [pool |-> req_name, get |-> zfsmon_zpool_metrics[zpool_m_idx + 1].get]
    BY <1>1, InBounds
  <1>3. valid' = valid
    BY <1>1
  <1>4. /\ UNCHANGED <<imported, updating, failed, stayed, seen, listed, took, age, mishaps,
                       library, globals, clock, pools_l, metric_index>>
        /\ pc = "found" /\ pc' = "got"
    BY Zenon
  <1> HIDE DEF get_metric
  <1>5. pools_l' \in BOOLEAN /\ timed' \in BOOLEAN
    BY <1>4, Zenon DEF TypeOK
  <1>6. LibraryInv' /\ AgeInv'
    BY <1>4 DEF LibraryInv, AgeInv, TakesTime
  <1>7. CallInv'
    BY <1>2, <1>4 DEF CallInv, InRange, zpool_idx, zpool_m_idx, req_name
  <1> QED BY <1>2, <1>3, <1>4, <1>5, <1>6, <1>7, HandlerStepIInv DEF TypeOK, InHandler

LEMMA StutterIInv ==
    ASSUME IInv, UNCHANGED vars
    PROVE  IInv'
  <1> USE DEF IInv, vars, update, mishaps, library, globals, clock, call
  <1>1. TypeOK' /\ LibraryInv' /\ ListedInv'
    BY DEF TypeOK, LibraryInv, ListedInv
  <1>2. RegisteredInv' /\ CallInv' /\ AgeInv'
    BY DEF RegisteredInv, CallInv, AgeInv, TakesTime, InRange, zpool_idx, zpool_m_idx, req_name
  <1> QED BY <1>1, <1>2

LEMMA NextIInv == IInv /\ [Next]_vars => IInv'
  <1> SUFFICES ASSUME IInv, [Next]_vars PROVE IInv'
    OBVIOUS
  <1>1. CASE begin_metric_init \/ zfsmon_metric_init \/ zfsmon_metric_cleanup
    BY <1>1, BeginMetricInitIInv, MetricInitIInv, CleanupIInv
  <1>2. CASE update_returns
    BY <1>2, UpdateReturnsIInv
  <1>3. CASE \E i \in Indices : call_handler(i)
    BY <1>3, CallIInv
  <1>4. CASE HandlerStep
    <2>1. CASE is_initialised \/ initialise \/ set_first_time
      BY <2>1, EnterIInv
    <2>2. CASE update_returns
      BY <2>2, UpdateReturnsIInv
    <2>3. CASE reject_index \/ zpool_is_invalid \/ return_value
      BY <2>3, ReturnsIInv
    <2>4. CASE lock_and_update
      BY <2>4, LockAndUpdateIInv
    <2>5. CASE set_time \/ lock_without_update \/ zpool_is_valid
      BY <2>5, LockedIInv
    <2>6. CASE get_metric
      BY <2>6, GetMetricIInv
    <2> QED BY <1>4, <2>1, <2>2, <2>3, <2>4, <2>5, <2>6 DEF HandlerStep
  <1>5. CASE \E p \in Pools : Import(p) \/ Export(p)
    BY <1>5, KernelIInv
  <1>6. CASE Tick \/ SetClockBack
    BY <1>6, TickIInv, SetbackIInv
  <1>7. CASE UNCHANGED vars
    BY <1>7, StutterIInv
  <1> QED BY <1>1, <1>2, <1>3, <1>4, <1>5, <1>6, <1>7 DEF Next

-------------------------------------------------------------------------------
(***************************************************************************)
(* The properties.                                                         *)
(***************************************************************************)

(* The inductive invariant holds: the place in the code, curr_pools_time   *)
(* and the open database agree, the list is what the last update left, the *)
(* registered metrics are those of initial_pools, and a handler's findings *)
(* are about the pool registered under its index.                          *)
THEOREM Invariance == Spec => []IInv
  BY InitIInv, NextIInv, PTL DEF Spec

(* Every variable of the module always has its type.                       *)
THEOREM TypeCorrectness == Spec => []TypeOK
  <1>1. IInv => TypeOK
    BY DEF IInv
  <1> QED BY <1>1, Invariance, PTL

(* After zfsmon_metric_cleanup no database is open, whether a handler ever *)
(* initialised the library or not.                                         *)
THEOREM Freed == Spec => []FreedOnCleanup
  <1>1. IInv => FreedOnCleanup
    BY DEF IInv, LibraryInv, FreedOnCleanup
  <1> QED BY <1>1, Invariance, PTL

(* The three returns of zfsmon_metric_handler.                             *)
LEMMA ReturnSteps ==
    ASSUME [Next]_vars, Returns
    PROVE  \/ pc = "ready" /\ ~ InRange
           \/ pc = "locked" /\ req_name \notin valid
           \/ pc = "got"
  <1> USE DEF Returns, Goto
  <1>1. CASE begin_metric_init \/ zfsmon_metric_init \/ zfsmon_metric_cleanup
    BY <1>1 DEF begin_metric_init, zfsmon_metric_init, zfsmon_metric_cleanup, InHandler
  <1>2. CASE update_returns
    BY <1>2 DEF update_returns, InHandler
  <1>3. CASE \E i \in Indices : call_handler(i)
    BY <1>3 DEF call_handler, InHandler
  <1>4. CASE HandlerStep
    <2>1. CASE is_initialised \/ initialise \/ set_first_time
      BY <2>1 DEF is_initialised, initialise, set_first_time
    <2>2. CASE lock_and_update \/ set_time \/ lock_without_update
      BY <2>2 DEF lock_and_update, set_time, lock_without_update
    <2>3. CASE zpool_is_valid \/ get_metric
      BY <2>3 DEF zpool_is_valid, get_metric
    <2>4. CASE reject_index \/ zpool_is_invalid \/ return_value
      BY <2>4 DEF reject_index, zpool_is_invalid, return_value, Return
    <2> QED BY <1>2, <1>4, <2>1, <2>2, <2>3, <2>4 DEF HandlerStep
  <1>5. CASE \E p \in Pools : Import(p) \/ Export(p)
    BY <1>5 DEF Import, Export, InHandler
  <1>6. CASE Tick \/ SetClockBack
    BY <1>6 DEF Tick, SetClockBack, InHandler
  <1>7. CASE UNCHANGED vars
    BY <1>7 DEF vars, InHandler
  <1> QED BY <1>1, <1>2, <1>3, <1>4, <1>5, <1>6, <1>7 DEF Next

(* A registered metric is the one whose pool and row the handler uses.     *)
LEMMA RequestedIsUsed ==
    ASSUME IInv, pc \in InHandler
    PROVE  /\ IsRegistered <=> InRange
           /\ IsRegistered =>
                /\ Requested.pool = req_name
                /\ zfsmon_zpool_metrics[zpool_m_idx + 1].get = Meant(Requested.reg)
  <1> USE DEF IInv
  <1>1. metric_index \in Nat /\ initial_pools \in Seq(Pools) /\ pools_cnt = Len(initial_pools)
    BY GmondConstants DEF TypeOK
  <1>2. metric_info = Registered(initial_pools)
    BY DEF RegisteredInv, InHandler
  <1>3. IsRegistered <=> InRange
    <2>1. zpool_idx \in Nat /\ (zpool_idx < pools_cnt <=> metric_index < Len(metric_info))
      BY <1>1, <1>2, IndexFinds DEF zpool_idx
    <2> HIDE DEF zpool_idx
    <2> QED BY <2>1 DEF IsRegistered, InRange
  <1>4. zpool_m_idx + 1 \in 1..ZFS_METRICS_CNT
    BY <1>1, IndexFinds DEF zpool_m_idx
  <1>5. IsRegistered =>
          Requested = [pool |-> req_name, reg |-> zfsmon_zpool_metrics[zpool_m_idx + 1].reg]
    BY <1>1, <1>2, IndexFinds
       DEF IsRegistered, Requested, req_name, zpool_idx, zpool_m_idx
  <1> QED BY <1>3, <1>4, <1>5, TableIsRight

(* What the handler returns with, and why.                                 *)
LEMMA ReplyStep ==
    ASSUME IInv, [Next]_vars, Returns
    PROVE  v = IF IsRegistered /\ Requested.pool \in listed
               THEN [pool |-> Requested.pool, get |-> Meant(Requested.reg)]
               ELSE None
  <1> USE DEF IInv
  <1>1. pc \in InHandler
    BY DEF Returns
  <1>2. CASE pc = "ready" /\ ~ InRange
    BY <1>1, <1>2, RequestedIsUsed DEF CallInv
  <1>3. CASE pc = "locked" /\ req_name \notin valid
    <2>1. ~ updating /\ v = None
      BY <1>3 DEF LibraryInv, CallInv
    <2> QED BY <1>1, <1>3, <2>1, RequestedIsUsed DEF ListedInv
  <1>4. CASE pc = "got"
    BY <1>1, <1>4, RequestedIsUsed DEF CallInv
  <1> QED BY <1>2, <1>3, <1>4, ReturnSteps

LEMMA ReplyIsRightStep ==
    IInv /\ [Next]_vars
    => [Returns =>
        v = IF IsRegistered /\ Requested.pool \in listed
            THEN [pool |-> Requested.pool, get |-> Meant(Requested.reg)]
            ELSE None]_vars
  BY ReplyStep

(* Every return of a handler is with the data of the pool and the metric   *)
(* registered under its index, if the last update listed the pool, and     *)
(* with zeros otherwise, for any pools and any indices gmond asks for.     *)
THEOREM ReplyCorrect == Spec => ReplyIsRight
  BY Invariance, ReplyIsRightStep, PTL DEF Spec, ReplyIsRight

LEMMA AnswersStep ==
    IInv /\ [Next]_vars
    => [Returns /\ IsRegistered =>
        /\ v # None => Requested.pool \in seen
        /\ Requested.pool \in stayed /\ ~ failed => v # None]_vars
  <1> SUFFICES ASSUME IInv, [Next]_vars, Returns, IsRegistered
               PROVE  /\ v # None => Requested.pool \in seen
                      /\ Requested.pool \in stayed /\ ~ failed => v # None
    OBVIOUS
  <1> USE DEF IInv
  <1>1. pc \in InHandler /\ pc \in {"ready", "locked", "got"}
    BY ReturnSteps DEF Returns
  <1>2. ~ updating
    BY <1>1 DEF LibraryInv
  <1>3. listed \subseteq seen /\ (failed \/ stayed \subseteq listed)
    BY <1>2 DEF ListedInv
  <1>4. [pool |-> Requested.pool, get |-> Meant(Requested.reg)] # None
    <2>1. [pool |-> req_name, get |-> zfsmon_zpool_metrics[zpool_m_idx + 1].get] \in Values
      BY <1>1, RequestedIsUsed, InBounds
    <2> QED BY <1>1, <2>1, RequestedIsUsed, GmondConstants
  <1>5. CASE Requested.pool \in listed
    BY <1>3, <1>4, <1>5, ReplyStep
  <1>6. CASE Requested.pool \notin listed
    BY <1>3, <1>6, ReplyStep
  <1> QED BY <1>5, <1>6

(* A handler never answers for a pool that was not there at any time of    *)
(* the last update, and answers for one that has been there since it began *)
(* unless that update failed.                                              *)
THEOREM AnswersCorrect == Spec => AnswersForPoolsThere
  BY Invariance, AnswersStep, PTL DEF Spec, AnswersForPoolsThere

(* Two steps get a handler past the check of the data's age.               *)
LEMMA LockSteps ==
    ASSUME [Next]_vars, pc # "locked", pc' = "locked"
    PROVE  set_time \/ lock_without_update
  <1> USE DEF Goto
  <1>1. CASE begin_metric_init \/ zfsmon_metric_init \/ zfsmon_metric_cleanup
    BY <1>1 DEF begin_metric_init, zfsmon_metric_init, zfsmon_metric_cleanup
  <1>2. CASE update_returns
    BY <1>2 DEF update_returns
  <1>3. CASE \E i \in Indices : call_handler(i)
    BY <1>3 DEF call_handler
  <1>4. CASE HandlerStep
    <2>1. CASE is_initialised \/ initialise \/ set_first_time \/ lock_and_update
      BY <2>1 DEF is_initialised, initialise, set_first_time, lock_and_update
    <2>2. CASE zpool_is_valid \/ get_metric
      BY <2>2 DEF zpool_is_valid, get_metric
    <2>3. CASE reject_index \/ zpool_is_invalid \/ return_value
      BY <2>3 DEF reject_index, zpool_is_invalid, return_value, Return
    <2> QED BY <1>2, <1>4, <2>1, <2>2, <2>3 DEF HandlerStep
  <1>5. CASE \E p \in Pools : Import(p) \/ Export(p)
    BY <1>5 DEF Import, Export
  <1>6. CASE Tick \/ SetClockBack
    BY <1>6 DEF Tick, SetClockBack
  <1>7. CASE UNCHANGED vars
    BY <1>7 DEF vars
  <1> QED BY <1>1, <1>2, <1>3, <1>4, <1>5, <1>6, <1>7 DEF Next

LEMMA FreshStep ==
    IInv /\ [Next]_vars
    => [pc # "locked" /\ pc' = "locked" /\ faults = 0 /\ setbacks = 0
        => age' < ZFS_STALE_DATA + took]_vars
  <1> SUFFICES ASSUME IInv, [Next]_vars, pc # "locked", pc' = "locked",
                      faults = 0, setbacks = 0
               PROVE  age' < ZFS_STALE_DATA + took
    OBVIOUS
  <1> USE GmondConstants DEF IInv, TypeOK, AgeInv, TakesTime, Goto, update
  <1>1. CASE set_time
    BY <1>1 DEF set_time
  <1>2. CASE lock_without_update
    <2>1. pc = "ready" /\ timed /\ since < ZFS_STALE_DATA
      BY <1>2 DEF lock_without_update, Stale, LibraryInv
    <2>2. age' = age
      BY <1>2 DEF lock_without_update
    <2> QED BY <2>1, <2>2
  <1> QED BY <1>1, <1>2, LockSteps

(* As long as no update has failed and the clock has not been set back, a  *)
(* handler serves data that are younger than ZFS_STALE_DATA seconds and    *)
(* the time their own update took, for any ZFS_STALE_DATA and any bound on *)
(* that time.                                                              *)
THEOREM Fresh == Spec => FreshUnlessMishap
  BY Invariance, FreshStep, PTL DEF Spec, FreshUnlessMishap
===============================================================================
