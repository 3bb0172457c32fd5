-------------------------- MODULE ZfsmonUpdateProofs --------------------------
(***************************************************************************)
(* Proofs about ZfsmonUpdate: an inductive invariant, the safety           *)
(* properties that follow from it, and the refinement of ZfsmonListing.    *)
(***************************************************************************)
EXTENDS ZfsmonUpdate, TLAPS

-------------------------------------------------------------------------------
(***************************************************************************)
(* The inductive invariant.                                                *)
(***************************************************************************)

(* zpool_iter leaves nothing behind, and visits no pool twice: the pools   *)
(* it has yet to visit, the one it is at and those in the list differ.     *)
IterInv ==
    /\ ~ loaded => names = {} /\ cur = None
    /\ pc \notin IterStages => ~ loaded
    /\ cur # None => cur.stage = pc /\ cur.name \notin names
    /\ list # {} => pc = "props" \/ (pc = "list" /\ loaded)
    /\ todo # {} => pc = "props"
    /\ \A h \in list : h.name \notin names /\ (cur # None => cur.name # h.name)
    /\ \A h, k \in list : h.name = k.name => h = k

(* Who owns the open handles.                                              *)
OpenInv == \A h \in open : h.stage = "refresh" \/ h \in list \/ h = cur

(* No list of pools zfsmon_update works from names one that was not there. *)
SeenInv ==
    /\ valid \subseteq seen
    /\ stayed \subseteq imported
    /\ pc # "idle" => names \cup imported \subseteq seen
    /\ cur # None => cur.name \in seen
    /\ \A h \in list : h.name \in seen

(* What is stored may come from the kernel's data as they are, but not     *)
(* from later ones than a handle that is about to replace it.              *)
NotNewer(v, g) == v # None => v <= g

StatNotNewer(s, g) == s # None => s.iostat <= g

AgeInv ==
    /\ gen0 <= gen
    /\ \A p \in Pools : /\ \A q \in Props : NotNewer(props[p][q], gen)
                        /\ StatNotNewer(curr[p], gen)
    /\ cur # None => /\ gen0 <= cur.gen /\ cur.gen <= gen
                     /\ \A q \in Props : NotNewer(props[cur.name][q], cur.gen)
                     /\ StatNotNewer(curr[cur.name], cur.gen)
    /\ \A h \in list :
        /\ gen0 <= h.gen /\ h.gen <= gen
        /\ \A q \in Props : pc = "list" \/ <<h, q>> \in todo
                                => NotNewer(props[h.name][q], h.gen)

SamplesInv ==
    /\ SamplesOrdered
    /\ \A p \in Pools : curr[p] # None => curr[p].time <= now

(* What an update without a failure has done so far for a pool that has    *)
(* been there since it began.                                              *)
Pending(p) == p \in names \/ (cur # None /\ cur.name = p)

DoneFor(p) ==
    /\ pc = "pools" /\ loaded => p \in valid \/ Pending(p)
    /\ pc # "pools" => p \in valid
    /\ pc = "list" /\ loaded => Pending(p) \/ \E h \in list : h.name = p
    /\ pc = "props" => \E h \in list :
        h.name = p /\ \A q \in Props : <<h, q>> \in todo \/ Newer(props[p][q], gen0)
    /\ pc \in {"refresh", "save"} => \A q \in Props : Newer(props[p][q], gen0)
    /\ pc = "save" /\ loaded => Pending(p) \/ (curr[p] # None /\ curr[p].iostat >= gen0)

CompleteInv == pc # "idle" /\ ~ failed => \A p \in stayed : DoneFor(p)

IInv ==
    /\ TypeOK
    /\ IterInv
    /\ OpenInv
    /\ SeenInv
    /\ AgeInv
    /\ SamplesInv
    /\ CompleteInv

-------------------------------------------------------------------------------
(***************************************************************************)
(* Lemmas about the parts the actions are made of.                         *)
(***************************************************************************)

(* A handle or a sample is never mistaken for None.                        *)
LEMMA NoneIsNothing ==
    None \notin Gens /\ None \notin Handles /\ None \notin Store!Sample
  BY UpdateConstants

LEMMA FaultTypes ==
    ASSUME TypeOK, Fault \/ NoFault
    PROVE  faults' \in 0..MaxFaults /\ failed' \in BOOLEAN
  <1>1. faults' \in 0..MaxFaults
    BY UpdateConstants DEF TypeOK, Fault, NoFault
  <1>2. failed' \in BOOLEAN
    BY Zenon DEF TypeOK, Fault, NoFault
  <1> QED BY <1>1, <1>2

LEMMA InitIInv == Init => IInv
  <1> SUFFICES ASSUME Init PROVE IInv
    OBVIOUS
  <1> USE DEF Init, Store!Init
  <1>1. TypeOK
    <2>1. props \in [Pools -> [Props -> Gens \cup {None}]]
      OBVIOUS
    <2>2. 0 \in Gens /\ 0 \in 0..MaxTime /\ 0 \in 0..MaxFaults
      BY UpdateConstants DEF Gens
    <2> QED BY <2>1, <2>2 DEF TypeOK
  <1>2. IterInv /\ OpenInv /\ SeenInv
    BY DEF IterInv, OpenInv, SeenInv, IterStages
  <1>3. AgeInv
    BY DEF AgeInv, NotNewer, StatNotNewer
  <1>4. SamplesInv /\ CompleteInv
    BY DEF SamplesInv, SamplesOrdered, CompleteInv
  <1> QED BY <1>1, <1>2, <1>3, <1>4 DEF IInv

(* The kernel, between any two steps of the update.                        *)
LEMMA ImportIInv ==
    ASSUME IInv, NEW p \in Pools, Import(p)
    PROVE  IInv'
  <1> USE DEF IInv, Import, NextGen, store, iter
  <1>1. TypeOK'
    BY UpdateConstants DEF TypeOK, Gens
  <1>2. IterInv' /\ OpenInv'
    BY DEF IterInv, OpenInv
  <1>3. SeenInv'
    BY DEF SeenInv, TypeOK, IterInv
  <1>4. AgeInv'
    BY UpdateConstants DEF AgeInv, NotNewer, StatNotNewer, TypeOK, Gens, Handles, Store!Sample
  <1>5. SamplesInv' /\ CompleteInv'
    BY DEF SamplesInv, SamplesOrdered, CompleteInv, DoneFor, Pending
  <1> QED BY <1>1, <1>2, <1>3, <1>4, <1>5

LEMMA ExportIInv ==
    ASSUME IInv, NEW p \in Pools, Export(p)
    PROVE  IInv'
  <1> USE DEF IInv, Export, NextGen, store, iter
  <1>1. TypeOK'
    BY UpdateConstants DEF TypeOK, Gens
  <1>2. IterInv' /\ OpenInv'
    BY DEF IterInv, OpenInv
  <1>3. SeenInv'
    BY DEF SeenInv
  <1>4. AgeInv'
    BY UpdateConstants DEF AgeInv, NotNewer, StatNotNewer, TypeOK, Gens, Handles, Store!Sample
  <1>5. SamplesInv' /\ CompleteInv'
    BY DEF SamplesInv, SamplesOrdered, CompleteInv, DoneFor, Pending
  <1> QED BY <1>1, <1>2, <1>3, <1>4, <1>5

LEMMA PoolsChangeIInv ==
    ASSUME IInv, PoolsChange
    PROVE  IInv'
  <1> USE DEF IInv, PoolsChange, NextGen, store, iter, history
  <1>1. TypeOK'
    BY UpdateConstants DEF TypeOK, Gens
  <1>2. IterInv' /\ OpenInv' /\ SeenInv'
    BY DEF IterInv, OpenInv, SeenInv
  <1>3. AgeInv'
    BY UpdateConstants DEF AgeInv, NotNewer, StatNotNewer, TypeOK, Gens, Handles, Store!Sample
  <1>4. SamplesInv' /\ CompleteInv'
    BY DEF SamplesInv, SamplesOrdered, CompleteInv, DoneFor, Pending
  <1> QED BY <1>1, <1>2, <1>3, <1>4

LEMMA TickIInv ==
    ASSUME IInv, Tick
    PROVE  IInv'
  <1> USE DEF IInv, Tick, kernel, iter, history
  <1>1. TypeOK'
    BY UpdateConstants DEF TypeOK
  <1>2. IterInv' /\ OpenInv' /\ SeenInv' /\ AgeInv'
    BY DEF IterInv, OpenInv, SeenInv, AgeInv, NotNewer, StatNotNewer
  <1>3. SamplesInv'
    BY UpdateConstants DEF SamplesInv, SamplesOrdered, TypeOK, Store!Sample
  <1>4. CompleteInv'
    BY DEF CompleteInv, DoneFor, Pending
  <1> QED BY <1>1, <1>2, <1>3, <1>4

-------------------------------------------------------------------------------
(***************************************************************************)
(* zfsmon_update and zpool_iter.                                           *)
(***************************************************************************)
LEMMA BeginIInv ==
    ASSUME IInv, zfsmon_update
    PROVE  IInv'
  <1> USE DEF IInv, zfsmon_update, Store!Invalidate, kernel
  <1>1. TypeOK'
    BY DEF TypeOK, IterStages
  <1>2. IterInv' /\ OpenInv' /\ SeenInv'
    BY DEF IterInv, OpenInv, SeenInv, IterStages
  <1>3. AgeInv'
    BY DEF AgeInv, NotNewer, StatNotNewer, IterInv, TypeOK, Gens, IterStages
  <1>4. SamplesInv' /\ CompleteInv'
    BY DEF SamplesInv, SamplesOrdered, CompleteInv, DoneFor, IterInv, IterStages
  <1> QED BY <1>1, <1>2, <1>3, <1>4

LEMMA CannotBeginIInv ==
    ASSUME IInv, libzfs_init_fails
    PROVE  IInv'
  <1> USE DEF IInv, libzfs_init_fails, Fault, store, kernel, iter, history
  <1>1. TypeOK'
    BY UpdateConstants DEF TypeOK
  <1>2. IterInv' /\ OpenInv' /\ SeenInv' /\ AgeInv'
    BY DEF IterInv, OpenInv, SeenInv, AgeInv, NotNewer, StatNotNewer
  <1>3. SamplesInv' /\ CompleteInv'
    BY DEF SamplesInv, SamplesOrdered, CompleteInv
  <1> QED BY <1>1, <1>2, <1>3

LEMMA ReloadIInv ==
    ASSUME IInv, namespace_reload
    PROVE  IInv'
  <1> USE DEF IInv, namespace_reload, store, kernel, history
  <1>1. TypeOK'
    BY DEF TypeOK
  <1>2. IterInv' /\ OpenInv'
    BY DEF IterInv, OpenInv, IterStages
  <1>3. SeenInv' /\ AgeInv' /\ SamplesInv'
    BY DEF SeenInv, AgeInv, NotNewer, StatNotNewer, SamplesInv, SamplesOrdered, IterStages
  <1>4. CompleteInv'
    BY DEF CompleteInv, DoneFor, Pending, SeenInv
  <1> QED BY <1>1, <1>2, <1>3, <1>4

LEMMA OpenIInv ==
    ASSUME IInv, NEW p \in Pools, zpool_open_silent(p)
    PROVE  IInv'
  <1> DEFINE h == [stage |-> pc, name |-> p, gen |-> gen]
  <1> USE DEF IInv, zpool_open_silent, store, kernel, history
  <1>1. CASE p \in imported
    <2>1. cur' = h /\ open' = open \cup {h} /\ h \in Handles /\ h # None
      BY <1>1, NoneIsNothing DEF Handles, TypeOK
    <2>2. h.stage = pc /\ h.name = p /\ h.gen = gen
      OBVIOUS
    <2> HIDE DEF h
    <2>3. TypeOK'
      BY <2>1 DEF TypeOK
    <2>4. IterInv' /\ OpenInv'
      BY <2>1, <2>2, NoneIsNothing DEF IterInv, OpenInv, TypeOK
    <2>5. SeenInv'
      BY <2>1, <2>2 DEF SeenInv, IterInv, IterStages
    <2>6. AgeInv' /\ SamplesInv'
      BY <2>1, <2>2 DEF AgeInv, NotNewer, StatNotNewer, SamplesInv, SamplesOrdered, TypeOK, Gens
    <2>7. CompleteInv'
      BY <2>1, <2>2 DEF CompleteInv, DoneFor, Pending
    <2> QED BY <2>3, <2>4, <2>5, <2>6, <2>7
  <1>2. CASE p \notin imported
    <2>1. TypeOK'
      BY <1>2 DEF TypeOK
    <2>2. IterInv' /\ OpenInv' /\ SeenInv'
      BY <1>2 DEF IterInv, OpenInv, SeenInv
    <2>3. AgeInv' /\ SamplesInv'
      BY <1>2 DEF AgeInv, NotNewer, StatNotNewer, SamplesInv, SamplesOrdered
    <2>4. CompleteInv'
      BY <1>2 DEF CompleteInv, DoneFor, Pending, SeenInv
    <2> QED BY <2>1, <2>2, <2>3, <2>4
  <1> QED BY <1>1, <1>2

(* The end of an iteration, whether all pools were visited or not.         *)
LEMMA IterReturnsTypes ==
    ASSUME TypeOK, pc \in IterStages, NEW ret \in {0, -1}, IterReturns(ret), BeginProps,
           UNCHANGED <<store, kernel, list, history>>, open' \subseteq open,
           faults' \in 0..MaxFaults, failed' \in BOOLEAN
    PROVE  TypeOK'
  <1>1. pc' \in {"list", "props", "save", "idle"}
    BY DEF IterReturns, FollowingStage, IterStages
  <1>2. todo' \subseteq list' \X Props
    BY DEF BeginProps, TypeOK
  <1> QED
    BY <1>1, <1>2 DEF TypeOK, IterReturns, IterStages, store, kernel, history

LEMMA IterReturnsInv ==
    ASSUME TypeOK, IterInv, SeenInv, AgeInv, SamplesInv,
           pc \in IterStages, NEW ret \in {0, -1}, IterReturns(ret), BeginProps,
           UNCHANGED <<store, kernel, list, history>>
    PROVE  IterInv' /\ SeenInv' /\ AgeInv' /\ SamplesInv'
  <1> USE DEF IterReturns, store, kernel, history
  <1>1. /\ pc = "pools" => pc' = "list"
        /\ pc = "list" => pc' = "props"
        /\ pc = "refresh" => pc' = "save"
        /\ pc = "save" => pc' = "idle"
    BY DEF FollowingStage
  <1>2. todo' # {} => pc' = "props"
    BY <1>1 DEF BeginProps, IterInv, IterStages
  <1>3. IterInv'
    BY <1>1, <1>2 DEF IterInv, IterStages
  <1>4. SeenInv'
    BY <1>1 DEF SeenInv, IterStages
  <1>5. AgeInv'
    BY <1>1, <1>2 DEF AgeInv, NotNewer, StatNotNewer, IterInv, IterStages
  <1>6. SamplesInv'
    BY DEF SamplesInv, SamplesOrdered
  <1> QED BY <1>3, <1>4, <1>5, <1>6

LEMMA IterDoneIInv ==
    ASSUME IInv, IterDone
    PROVE  IInv'
  <1> USE DEF IInv, IterDone
  <1>1. TypeOK'
    BY IterReturnsTypes DEF TypeOK
  <1>2. IterInv' /\ SeenInv' /\ AgeInv' /\ SamplesInv'
    BY IterReturnsInv
  <1>3. OpenInv'
    BY DEF OpenInv, IterReturns
  <1>4. CompleteInv'
    <2> SUFFICES ASSUME pc' # "idle", ~ failed, NEW p \in stayed PROVE DoneFor(p)'
      BY DEF CompleteInv, history
    <2> USE DEF IterReturns, FollowingStage, store, history
    <2>1. DoneFor(p) /\ ~ Pending(p)
      BY DEF CompleteInv, Pending, IterStages
    <2>2. CASE pc = "pools"
      BY <2>1, <2>2 DEF DoneFor
    <2>3. CASE pc = "list"
      <3>1. PICK h \in list : h.name = p
        BY <2>1, <2>3 DEF DoneFor
      <3>2. \A q \in Props : <<h, q>> \in todo'
        BY <2>3, <3>1 DEF BeginProps
      <3> QED BY <2>1, <2>3, <3>1, <3>2 DEF DoneFor
    <2>4. CASE pc = "refresh"
      BY <2>1, <2>4 DEF DoneFor, Newer
    <2> QED BY <2>2, <2>3, <2>4 DEF IterStages
  <1> QED BY <1>1, <1>2, <1>3, <1>4

LEMMA IterFailsIInv ==
    ASSUME IInv, IterFails
    PROVE  IInv'
  <1> USE DEF IInv, IterFails, Fault
  <1>1. TypeOK'
    BY IterReturnsTypes, UpdateConstants DEF TypeOK
  <1>2. IterInv' /\ SeenInv' /\ AgeInv' /\ SamplesInv'
    BY IterReturnsInv
  <1>3. OpenInv' /\ CompleteInv'
    BY DEF OpenInv, CompleteInv, IterReturns
  <1> QED BY <1>1, <1>2, <1>3

-------------------------------------------------------------------------------
(***************************************************************************)
(* The callbacks.                                                          *)
(***************************************************************************)
LEMMA AddPoolToStoreIInv ==
    ASSUME IInv, zfsmon_add_pool
    PROVE  IInv'
  <1> USE DEF IInv, zfsmon_add_pool, InCallback, IterContinues, NoFault, zpool_close,
              Store!See, kernel, history
  <1>1. cur.name \in Pools
    BY DEF TypeOK, Handles
  <1>2. TypeOK'
    BY <1>1 DEF TypeOK
  <1>3. IterInv' /\ OpenInv' /\ SeenInv'
    BY DEF IterInv, OpenInv, SeenInv
  <1>4. AgeInv' /\ SamplesInv'
    BY DEF AgeInv, NotNewer, StatNotNewer, SamplesInv, SamplesOrdered
  <1>5. CompleteInv'
    BY DEF CompleteInv, DoneFor, Pending
  <1> QED BY <1>2, <1>3, <1>4, <1>5

LEMMA AddPoolToListIInv ==
    ASSUME IInv, add_pool
    PROVE  IInv'
  <1> USE DEF IInv, add_pool, InCallback, IterContinues, NoFault, store, kernel, history
  <1>1. TypeOK'
    BY DEF TypeOK
  <1>2. IterInv' /\ OpenInv' /\ SeenInv'
    BY DEF IterInv, OpenInv, SeenInv
  <1>3. AgeInv' /\ SamplesInv'
    BY DEF AgeInv, NotNewer, StatNotNewer, SamplesInv, SamplesOrdered
  <1>4. CompleteInv'
    BY DEF CompleteInv, DoneFor, Pending
  <1> QED BY <1>1, <1>2, <1>3, <1>4

LEMMA AddPoolFailsIInv ==
    ASSUME IInv, add_pool_fails
    PROVE  IInv'
  <1> USE DEF IInv, add_pool_fails, InCallback, Fault, zpool_close
  <1>1. pc \in IterStages
    BY DEF IterStages
  <1>2. TypeOK'
    BY <1>1, IterReturnsTypes, UpdateConstants DEF TypeOK
  <1>3. IterInv' /\ SeenInv' /\ AgeInv' /\ SamplesInv'
    BY <1>1, IterReturnsInv
  <1>4. OpenInv' /\ CompleteInv'
    BY DEF OpenInv, CompleteInv, IterReturns
  <1> QED BY <1>2, <1>3, <1>4

LEMMA PropGetIInv ==
    ASSUME IInv, NEW h \in list, NEW q \in Props, prop_get_all(h, q)
    PROVE  IInv'
  <1> USE DEF IInv, prop_get_all, NoFault, kernel, iter, history
  <1>1. PICK g \in h.gen..gen : Store!SetProp(h.name, q, g)
    OBVIOUS
  <1> USE <1>1 DEF Store!SetProp
  <1>2. h \in Handles /\ h.name \in Pools /\ g \in Gens /\ g # None /\ h.gen <= g /\ g <= gen
    BY NoneIsNothing, UpdateConstants DEF TypeOK, Handles, Gens
  <1>3. \A p \in Pools, x \in Props :
            props'[p][x] = IF p = h.name /\ x = q THEN g ELSE props[p][x]
    BY <1>2 DEF TypeOK
  <1>4. TypeOK'
    <2>1. props' \in [Pools -> [Props -> Gens \cup {None}]]
      BY <1>2 DEF TypeOK
    <2>2. todo' \subseteq list' \X Props
      BY DEF TypeOK
    <2> QED BY <1>2, <2>1, <2>2 DEF TypeOK
  <1>5. IterInv' /\ OpenInv' /\ SeenInv'
    BY DEF IterInv, OpenInv, SeenInv
  <1>6. AgeInv'
    <2>1. cur = None
      BY DEF IterInv, IterStages
    <2>2. \A p \in Pools, x \in Props : NotNewer(props'[p][x], gen)
      BY <1>2, <1>3 DEF AgeInv, NotNewer
    <2>3. ASSUME NEW k \in list, NEW x \in Props, <<k, x>> \in todo'
          PROVE  NotNewer(props'[k.name][x], k.gen)
      <3>1. <<k, x>> # <<h, q>> /\ <<k, x>> \in todo
        BY <2>3
      <3>2. k.name # h.name \/ x # q
        BY <3>1 DEF IterInv
      <3> QED BY <1>3, <3>1, <3>2 DEF AgeInv, NotNewer, TypeOK, Handles
    <2> QED BY <2>1, <2>2, <2>3 DEF AgeInv, NotNewer, StatNotNewer
  <1>7. SamplesInv'
    BY DEF SamplesInv, SamplesOrdered
  <1>8. CompleteInv'
    <2> SUFFICES ASSUME ~ failed, NEW p \in stayed PROVE DoneFor(p)'
      BY DEF CompleteInv
    <2>1. DoneFor(p) /\ p \in Pools
      BY DEF CompleteInv, TypeOK
    <2>2. PICK k \in list :
            k.name = p /\ \A x \in Props : <<k, x>> \in todo \/ Newer(props[p][x], gen0)
      BY <2>1 DEF DoneFor
    <2>3. gen0 <= g
      BY <1>2 DEF AgeInv, TypeOK, Gens, Handles
    <2>4. ASSUME NEW x \in Props
          PROVE  <<k, x>> \in todo' \/ Newer(props'[p][x], gen0)
      BY <1>2, <1>3, <2>1, <2>2, <2>3 DEF Newer, TypeOK, Gens
    <2> QED BY <2>1, <2>2, <2>4 DEF DoneFor
  <1> QED BY <1>4, <1>5, <1>6, <1>7, <1>8

LEMMA PropSkipIInv ==
    ASSUME IInv, NEW h \in list, NEW q \in Props, prop_get_all_skips(h, q)
    PROVE  IInv'
  <1> USE DEF IInv, prop_get_all_skips, Fault, NoFault, store, kernel, iter, history
  <1>1. TypeOK'
    <2>1. todo' \subseteq list' \X Props
      BY DEF TypeOK
    <2>2. faults' \in 0..MaxFaults /\ failed' \in BOOLEAN
      BY FaultTypes
    <2> QED BY <2>1, <2>2 DEF TypeOK
  <1>2. IterInv' /\ OpenInv' /\ SeenInv'
    BY DEF IterInv, OpenInv, SeenInv
  <1>3. AgeInv' /\ SamplesInv'
    BY DEF AgeInv, NotNewer, StatNotNewer, SamplesInv, SamplesOrdered
  <1>4. CompleteInv'
    <2> SUFFICES ASSUME ~ failed', NEW p \in stayed PROVE DoneFor(p)'
      BY DEF CompleteInv
    <2>1. ~ failed /\ h.name # p
      BY DEF SeenInv
    <2>2. DoneFor(p)
      BY <2>1 DEF CompleteInv
    <2>3. PICK k \in list :
            k.name = p /\ \A x \in Props : <<k, x>> \in todo \/ Newer(props[p][x], gen0)
      BY <2>2 DEF DoneFor
    <2>4. \A x \in Props : <<k, x>> \in todo => <<k, x>> \in todo'
      BY <2>1, <2>3
    <2> QED BY <2>2, <2>3, <2>4 DEF DoneFor, Newer
  <1> QED BY <1>1, <1>2, <1>3, <1>4

LEMMA ListFreeIInv ==
    ASSUME IInv, pool_list_free
    PROVE  IInv'
  <1> USE DEF IInv, pool_list_free, store, kernel, history
  <1>1. TypeOK'
    BY DEF TypeOK, IterStages
  <1>2. IterInv' /\ OpenInv' /\ SeenInv'
    BY DEF IterInv, OpenInv, SeenInv, IterStages
  <1>3. AgeInv' /\ SamplesInv'
    BY DEF AgeInv, NotNewer, StatNotNewer, SamplesInv, SamplesOrdered
  <1>4. CompleteInv'
    BY DEF CompleteInv, DoneFor, Newer
  <1> QED BY <1>1, <1>2, <1>3, <1>4

LEMMA RefreshIInv ==
    ASSUME IInv, refresh_iostat
    PROVE  IInv'
  <1> USE DEF IInv, refresh_iostat, InCallback, IterContinues, NoFault, zpool_close,
              store, kernel, history
  <1>1. TypeOK'
    BY DEF TypeOK
  <1>2. IterInv' /\ OpenInv' /\ SeenInv'
    BY DEF IterInv, OpenInv, SeenInv
  <1>3. AgeInv' /\ SamplesInv'
    BY DEF AgeInv, NotNewer, StatNotNewer, SamplesInv, SamplesOrdered
  <1>4. CompleteInv'
    BY DEF CompleteInv, DoneFor, Newer
  <1> QED BY <1>1, <1>2, <1>3, <1>4

LEMMA RefreshFailsIInv ==
    ASSUME IInv, refresh_iostat_fails
    PROVE  IInv'
  <1> USE DEF IInv, refresh_iostat_fails, InCallback
  <1>1. pc \in IterStages
    BY DEF IterStages
  <1>2. BeginProps
    BY DEF BeginProps
  <1>3. faults' \in 0..MaxFaults /\ failed' \in BOOLEAN
    BY FaultTypes
  <1>4. TypeOK'
    <2>1. IterReturns(-1) /\ open' = open /\ UNCHANGED <<store, kernel, list, history>>
      OBVIOUS
    <2> QED BY <1>1, <1>2, <1>3, <2>1, IterReturnsTypes
  <1>5. IterInv' /\ SeenInv' /\ AgeInv' /\ SamplesInv'
    BY <1>1, <1>2, IterReturnsInv
  <1>6. OpenInv'
    BY DEF OpenInv, IterReturns, IterInv
  <1>7. CompleteInv'
    BY DEF CompleteInv, DoneFor, Newer, IterReturns, FollowingStage, Fault, NoFault,
           store, history
  <1> QED BY <1>4, <1>5, <1>6, <1>7

(* The one step that changes samples.                                      *)
LEMMA SaveIInv ==
    ASSUME IInv, save_iostat
    PROVE  IInv'
  <1> DEFINE p == cur.name
             s == [time |-> now, iostat |-> cur.gen]
  <1> USE DEF IInv, save_iostat, InCallback, IterContinues, NoFault, zpool_close, kernel,
              history
  <1>1. p \in Pools /\ s \in Store!Sample /\ s # None /\ now \in Nat
    BY NoneIsNothing, UpdateConstants DEF TypeOK, Handles, Store!Sample, Gens
  <1>2. /\ valid' = valid \cup {p} /\ UNCHANGED <<props, now>>
        /\ curr' = [curr EXCEPT ![p] = s]
        /\ prev' = IF curr[p] # None /\ curr[p].time = now THEN prev
                   ELSE [prev EXCEPT ![p] = curr[p]]
    BY DEF Store!SaveIostat, Store!SavedInThisSecond
  <1>3. s.time = now /\ s.iostat = cur.gen
    OBVIOUS
  <1> HIDE DEF s
  <1>4. TypeOK'
    BY <1>1, <1>2 DEF TypeOK
  <1>5. IterInv' /\ OpenInv' /\ SeenInv'
    BY <1>2 DEF IterInv, OpenInv, SeenInv
  <1>6. \A x \in Pools : curr'[x] = IF x = p THEN s ELSE curr[x]
    BY <1>1, <1>2 DEF TypeOK
  <1>7. AgeInv'
    BY <1>1, <1>2, <1>3, <1>6 DEF AgeInv, NotNewer, StatNotNewer, IterInv
  <1>8. SamplesInv'
    <2>1. \A x \in Pools \ {p} : curr'[x] = curr[x] /\ prev'[x] = prev[x]
      BY <1>2, <1>6 DEF TypeOK
    <2>2. curr'[p].time <= now'
      BY <1>1, <1>2, <1>3, <1>6
    <2>3. ASSUME prev'[p] # None
          PROVE  prev'[p].time < now /\ prev'[p].iostat <= cur.gen
      <3>1. CASE curr[p] # None /\ curr[p].time = now
        BY <1>1, <1>2, <2>3, <3>1, UpdateConstants
           DEF SamplesInv, SamplesOrdered, AgeInv, StatNotNewer, TypeOK, Store!Sample, Gens,
               Handles
      <3>2. CASE ~ (curr[p] # None /\ curr[p].time = now)
        <4>1. prev'[p] = curr[p]
          BY <1>1, <1>2, <3>2 DEF TypeOK
        <4>2. curr[p] # None /\ curr[p].time \in Nat /\ curr[p].time # now
          BY <1>1, <2>3, <3>2, <4>1 DEF TypeOK, Store!Sample
        <4>3. curr[p].time <= now /\ curr[p].iostat <= cur.gen
          BY <1>1, <4>2 DEF SamplesInv, AgeInv, StatNotNewer
        <4> QED BY <1>1, <4>1, <4>2, <4>3
      <3> QED BY <3>1, <3>2
    <2> QED BY <1>1, <1>2, <1>3, <1>6, <2>1, <2>2, <2>3 DEF SamplesInv, SamplesOrdered
  <1>9. CompleteInv'
    <2> SUFFICES ASSUME ~ failed, NEW x \in stayed PROVE DoneFor(x)'
      BY DEF CompleteInv
    <2>1. DoneFor(x) /\ x \in Pools /\ cur.gen >= gen0
      BY DEF CompleteInv, TypeOK, AgeInv, Gens, Handles
    <2> QED BY <1>1, <1>2, <1>3, <1>6, <2>1 DEF DoneFor, Pending, Newer
  <1> QED BY <1>4, <1>5, <1>7, <1>8, <1>9

LEMMA UnchangedIInv ==
    ASSUME IInv, UNCHANGED vars
    PROVE  IInv'
  <1> USE DEF IInv, vars, store, kernel, iter, history
  <1>1. TypeOK' /\ IterInv' /\ OpenInv' /\ SeenInv'
    BY DEF TypeOK, IterInv, OpenInv, SeenInv
  <1>2. AgeInv' /\ SamplesInv'
    BY DEF AgeInv, NotNewer, StatNotNewer, SamplesInv, SamplesOrdered
  <1>3. CompleteInv'
    BY DEF CompleteInv, DoneFor, Pending, Newer
  <1> QED BY <1>1, <1>2, <1>3

LEMMA NextIInv == IInv /\ [Next]_vars => IInv'
  <1> SUFFICES ASSUME IInv, [Next]_vars PROVE IInv'
    OBVIOUS
  <1>1. CASE Environment
    BY <1>1, ImportIInv, ExportIInv, PoolsChangeIInv, TickIInv DEF Environment
  <1>2. ASSUME NEW p \in Pools, zpool_open_silent(p) PROVE IInv'
    BY <1>2, OpenIInv
  <1>3. ASSUME NEW h \in list, NEW q \in Props,
               prop_get_all(h, q) \/ prop_get_all_skips(h, q)
        PROVE  IInv'
    BY <1>3, PropGetIInv, PropSkipIInv
  <1>4. CASE \/ zfsmon_update \/ libzfs_init_fails
             \/ namespace_reload \/ IterDone \/ IterFails
    BY <1>4, BeginIInv, CannotBeginIInv, ReloadIInv, IterDoneIInv, IterFailsIInv
  <1>5. CASE zfsmon_add_pool \/ add_pool \/ add_pool_fails \/ pool_list_free
    BY <1>5, AddPoolToStoreIInv, AddPoolToListIInv, AddPoolFailsIInv, ListFreeIInv
  <1>6. CASE refresh_iostat \/ refresh_iostat_fails \/ save_iostat
    BY <1>6, RefreshIInv, RefreshFailsIInv, SaveIInv
  <1>7. CASE UNCHANGED vars
    BY <1>7, UnchangedIInv
  <1> QED BY <1>1, <1>2, <1>3, <1>4, <1>5, <1>6, <1>7 DEF Next, UpdateStep

-------------------------------------------------------------------------------
(***************************************************************************)
(* The inductive invariant holds, and with it what it says of the store    *)
(* and of the handles, however many pools, properties, changes and         *)
(* failures there are.                                                     *)
(***************************************************************************)
THEOREM Invariance == Spec => []IInv
  BY InitIInv, NextIInv, PTL DEF Spec

(* Every variable always has its type: no step of zfsmon_update leaves a   *)
(* value behind that a later one does not expect.                          *)
THEOREM TypeCorrectness == Spec => []TypeOK
  <1>1. IInv => TypeOK
    BY DEF IInv
  <1> QED BY <1>1, Invariance, PTL

(* zfsmon_update lists only pools that were there at some time of it.      *)
THEOREM NothingInvented == Spec => []ListedWereSeen
  <1>1. IInv => ListedWereSeen
    BY DEF IInv, SeenInv, ListedWereSeen
  <1> QED BY <1>1, Invariance, PTL

(* The two samples a bandwidth is computed from are in order, with a clock *)
(* that, as everywhere in this module, is never set back.                  *)
THEOREM SamplesInOrder == Spec => []SamplesOrdered
  <1>1. IInv => SamplesOrdered
    BY DEF IInv, SamplesInv
  <1> QED BY <1>1, Invariance, PTL

(* Between two updates no pool handle is open but those refresh_iostat     *)
(* dropped.                                                                *)
THEOREM LeaksOnlyInRefresh == Spec => []OnlyRefreshLeaks
  <1>1. ASSUME IInv, pc = "idle", NEW h \in open
        PROVE  h.stage = "refresh"
    <2>1. cur = None /\ list = {}
      BY <1>1 DEF IInv, IterInv, IterStages
    <2>2. h # None
      BY <1>1, NoneIsNothing DEF IInv, TypeOK
    <2> QED BY <1>1, <2>1, <2>2 DEF IInv, OpenInv
  <1>2. IInv => OnlyRefreshLeaks
    BY <1>1 DEF OnlyRefreshLeaks
  <1> QED BY <1>2, Invariance, PTL

-------------------------------------------------------------------------------
(***************************************************************************)
(* The action properties.                                                  *)
(***************************************************************************)

(* Only the last iteration ends an update, and only IterDone does without  *)
(* a failure.                                                              *)
LEMMA EndOfUpdate ==
    ASSUME IInv, Next, pc # "idle", pc' = "idle"
    PROVE  /\ pc = "save"
           /\ UNCHANGED <<store, kernel, list, history>>
           /\ failed' \in {failed, TRUE}
           /\ \/ failed'
              \/ ~ failed /\ cur = None /\ loaded /\ names = {}
  <1> USE DEF IterReturns, IterContinues, FollowingStage, IterStages, InCallback
  <1>1. ~ Environment
    BY DEF Environment, Import, Export, PoolsChange, Tick, iter
  <1>2. ~ \E p \in Pools : zpool_open_silent(p)
    BY DEF zpool_open_silent
  <1>3. ~ \E h \in list, q \in Props : prop_get_all(h, q) \/ prop_get_all_skips(h, q)
    BY DEF prop_get_all, prop_get_all_skips, iter
  <1>4. /\ ~ zfsmon_update /\ ~ libzfs_init_fails /\ ~ namespace_reload
        /\ ~ pool_list_free
    BY DEF zfsmon_update, libzfs_init_fails, namespace_reload, pool_list_free
  <1>5. /\ ~ zfsmon_add_pool /\ ~ add_pool /\ ~ add_pool_fails
        /\ ~ refresh_iostat /\ ~ refresh_iostat_fails /\ ~ save_iostat
    BY DEF zfsmon_add_pool, add_pool, add_pool_fails, refresh_iostat,
           refresh_iostat_fails, save_iostat
  <1>6. IterDone \/ IterFails
    BY <1>1, <1>2, <1>3, <1>4, <1>5 DEF Next, UpdateStep
  <1>7. failed' \in {failed, TRUE}
    BY <1>6, Zenon DEF IterDone, IterFails, Fault
  <1>8. CASE IterDone
    BY <1>7, <1>8 DEF IterDone, history
  <1>9. CASE IterFails
    BY <1>7, <1>9 DEF IterFails, Fault, history
  <1> QED BY <1>6, <1>8, <1>9

LEMMA CompleteStep ==
    IInv /\ [Next]_vars =>
        [pc # "idle" /\ pc' = "idle" /\ ~ failed'
            => (\A p \in stayed : p \in valid /\ Fresh(p, gen0))']_vars
  <1> SUFFICES ASSUME IInv, [Next]_vars, pc # "idle", pc' = "idle", ~ failed',
                      NEW p \in stayed'
               PROVE  p \in valid' /\ Fresh(p, gen0)'
    OBVIOUS
  <1> Next
    BY DEF vars, iter
  <1>1. /\ pc = "save" /\ ~ failed /\ cur = None /\ loaded /\ names = {}
        /\ UNCHANGED <<valid, props, curr, stayed, gen0>>
    BY EndOfUpdate DEF store, history
  <1>2. DoneFor(p) /\ ~ Pending(p)
    BY <1>1 DEF IInv, CompleteInv, Pending
  <1> QED BY <1>1, <1>2 DEF DoneFor, Fresh, Newer

(* An update without a failure leaves nothing out: every pool that stayed  *)
(* is listed, with data no older than the call of zfsmon_update.  The      *)
(* sample is the current one because the clock is never set back.          *)
THEOREM Complete == Spec => UpdateIsComplete
  BY Invariance, CompleteStep, PTL DEF Spec, UpdateIsComplete

(* Two callbacks write data to the store.                                  *)
LEMMA Writers ==
    ASSUME [Next]_vars
    PROVE  \/ UNCHANGED <<props, curr>>
           \/ \E h \in list, q \in Props : prop_get_all(h, q)
           \/ save_iostat
  <1> USE DEF store
  <1>1. CASE Environment
    BY <1>1 DEF Environment, Import, Export, PoolsChange, Tick
  <1>2. ASSUME NEW p \in Pools, zpool_open_silent(p) PROVE UNCHANGED <<props, curr>>
    BY <1>2 DEF zpool_open_silent
  <1>3. ASSUME NEW h \in list, NEW q \in Props, prop_get_all_skips(h, q)
        PROVE  UNCHANGED <<props, curr>>
    BY <1>3 DEF prop_get_all_skips
  <1>4. CASE \/ zfsmon_update \/ libzfs_init_fails
             \/ namespace_reload \/ IterDone \/ IterFails
    BY <1>4 DEF zfsmon_update, Store!Invalidate, libzfs_init_fails, namespace_reload,
                IterDone, IterFails
  <1>5. CASE zfsmon_add_pool \/ add_pool \/ add_pool_fails \/ pool_list_free
    BY <1>5 DEF zfsmon_add_pool, Store!See, add_pool, add_pool_fails, pool_list_free
  <1>6. CASE refresh_iostat \/ refresh_iostat_fails
    BY <1>6 DEF refresh_iostat, refresh_iostat_fails
  <1>7. CASE UNCHANGED vars
    BY <1>7 DEF vars
  <1> QED BY <1>1, <1>2, <1>3, <1>4, <1>5, <1>6, <1>7 DEF Next, UpdateStep

LEMMA NeverOlderStep ==
    IInv /\ [Next]_vars =>
        [\A p \in Pools :
            /\ \A q \in Props : props[p][q] # None => Newer(props'[p][q], props[p][q])
            /\ curr[p] # None => /\ curr'[p] # None
                                 /\ curr'[p].iostat >= curr[p].iostat]_vars
  <1> SUFFICES ASSUME IInv, [Next]_vars, NEW p \in Pools
               PROVE  /\ \A q \in Props : props[p][q] # None
                                            => Newer(props'[p][q], props[p][q])
                      /\ curr[p] # None => /\ curr'[p] # None
                                           /\ curr'[p].iostat >= curr[p].iostat
    OBVIOUS
  <1> USE DEF IInv, Newer
  <1>1. /\ \A q \in Props : props[p][q] # None => props[p][q] \in Int
        /\ curr[p] # None => curr[p].iostat \in Int
    BY DEF TypeOK, Store!Sample, Gens
  <1>2. CASE UNCHANGED <<props, curr>>
    BY <1>1, <1>2
  <1>3. ASSUME NEW h \in list, NEW x \in Props, prop_get_all(h, x)
        PROVE  /\ curr' = curr
               /\ \A q \in Props : props[p][q] # None => Newer(props'[p][q], props[p][q])
    <2>1. PICK g \in h.gen..gen : Store!SetProp(h.name, x, g)
      BY <1>3 DEF prop_get_all
    <2>2. h \in Handles /\ h.gen \in Int /\ g \in Int /\ g # None /\ h.gen <= g
      BY <2>1, NoneIsNothing, UpdateConstants DEF TypeOK, Handles, Gens
    <2>3. \A q \in Props :
            props'[p][q] = IF p = h.name /\ q = x THEN g ELSE props[p][q]
      BY <2>1 DEF Store!SetProp, TypeOK
    <2>4. NotNewer(props[h.name][x], h.gen)
      BY <1>3 DEF prop_get_all, AgeInv
    <2> QED BY <1>1, <2>1, <2>2, <2>3, <2>4 DEF Store!SetProp, NotNewer
  <1>4. ASSUME save_iostat
        PROVE  /\ props' = props
               /\ curr[p] # None => curr'[p] # None /\ curr'[p].iostat >= curr[p].iostat
    <2> DEFINE s == [time |-> now, iostat |-> cur.gen]
    <2>1. s \in Store!Sample /\ s # None /\ cur.gen \in Int
      BY <1>4, NoneIsNothing, UpdateConstants
         DEF save_iostat, InCallback, TypeOK, Handles, Store!Sample, Gens
    <2>2. props' = props /\ curr' = [curr EXCEPT ![cur.name] = s]
      BY <1>4 DEF save_iostat, Store!SaveIostat
    <2>3. StatNotNewer(curr[cur.name], cur.gen)
      BY <1>4 DEF save_iostat, InCallback, AgeInv
    <2> QED BY <1>1, <2>1, <2>2, <2>3 DEF StatNotNewer, TypeOK
  <1> QED BY <1>1, <1>2, <1>3, <1>4, Writers

(* Newer data of a pool are never replaced by older ones, whatever becomes *)
(* of the pools and of the stages of zfsmon_update, with a clock that is   *)
(* never set back.                                                         *)
THEOREM NeverOlder == Spec => DataNeverOlder
  BY Invariance, NeverOlderStep, PTL DEF Spec, DataNeverOlder

-------------------------------------------------------------------------------
(***************************************************************************)
(* The refinement of ZfsmonListing: pc tells when an update runs.          *)
(***************************************************************************)
LEMMA InitListing == Init => Listing!Init
  BY DEF Init, Store!Init, Listing!Init

(* A step within an update is a fault or nothing at all.                   *)
LEMMA WithinUpdate ==
    ASSUME pc # "idle", pc' # "idle", UNCHANGED <<imported, stayed, seen>>,
           Fault \/ UNCHANGED failed
    PROVE  [Listing!Next]_(Listing!vars)
  BY DEF Listing!Next, Listing!Fault, Listing!vars, Fault

LEMMA EndImplementsEnd ==
    ASSUME IInv, Next, pc # "idle", pc' = "idle"
    PROVE  Listing!End
  <1>1. /\ UNCHANGED <<valid, imported, stayed, seen>>
        /\ failed' \/ (~ failed /\ pc = "save")
        /\ failed' \in {failed, TRUE}
    BY EndOfUpdate DEF store, kernel, history
  <1>2. valid \subseteq seen
    BY DEF IInv, SeenInv
  <1>3. failed' \/ stayed \subseteq valid
    BY <1>1 DEF IInv, CompleteInv, DoneFor
  <1> QED BY <1>1, <1>2, <1>3 DEF Listing!End

LEMMA NextListing == IInv /\ [Next]_vars => [Listing!Next]_(Listing!vars)
  <1> SUFFICES ASSUME IInv, [Next]_vars PROVE [Listing!Next]_(Listing!vars)
    OBVIOUS
  <1> USE DEF store, kernel, iter, history
  <1>1. ASSUME NEW p \in Pools, Import(p) PROVE Listing!Import(p)
    BY <1>1 DEF Import, Listing!Import
  <1>2. ASSUME NEW p \in Pools, Export(p) PROVE Listing!Export(p)
    BY <1>2 DEF Export, Listing!Export
  <1>3. CASE PoolsChange \/ Tick \/ UNCHANGED vars
    BY <1>3 DEF PoolsChange, Tick, vars, Listing!vars
  <1>4. CASE zfsmon_update
    <2> Listing!Begin
      BY <1>4 DEF zfsmon_update, Store!Invalidate, Listing!Begin
    <2> QED BY DEF Listing!Next
  <1>5. CASE libzfs_init_fails
    <2> Listing!CannotBegin
      BY <1>5 DEF libzfs_init_fails, Fault, Listing!CannotBegin
    <2> QED BY DEF Listing!Next
  <1>6. ASSUME UpdateStep, ~ zfsmon_update, ~ libzfs_init_fails
        PROVE  [Listing!Next]_(Listing!vars)
    <2>1. pc # "idle" /\ UNCHANGED <<imported, stayed, seen>> /\ (Fault \/ UNCHANGED failed)
      <3>1. CASE \/ namespace_reload \/ \E p \in Pools : zpool_open_silent(p)
                 \/ IterDone \/ IterFails
        BY <3>1 DEF namespace_reload, zpool_open_silent, IterDone, IterFails, IterStages
      <3>2. CASE zfsmon_add_pool \/ add_pool \/ add_pool_fails \/ pool_list_free
        BY <3>2 DEF zfsmon_add_pool, add_pool, add_pool_fails, pool_list_free, InCallback,
                    NoFault
      <3>3. CASE \E h \in list, q \in Props :
                    prop_get_all(h, q) \/ prop_get_all_skips(h, q)
        BY <3>3 DEF prop_get_all, prop_get_all_skips, NoFault
      <3>4. CASE refresh_iostat \/ refresh_iostat_fails \/ save_iostat
        BY <3>4 DEF refresh_iostat, refresh_iostat_fails, save_iostat, InCallback, NoFault
      <3> QED BY <1>6, <3>1, <3>2, <3>3, <3>4 DEF UpdateStep
    <2>2. CASE pc' # "idle"
      BY <2>1, <2>2, WithinUpdate
    <2>3. CASE pc' = "idle"
      BY <1>6, <2>1, <2>3, EndImplementsEnd DEF Next, Listing!Next
    <2> QED BY <2>2, <2>3
  <1> QED BY <1>1, <1>2, <1>3, <1>4, <1>5, <1>6 DEF Next, Environment, Listing!Next

(* However its iterations and callbacks interleave with imports, exports   *)
(* and failures, zfsmon_update does to the list of pools what              *)
(* ZfsmonListing says: what the Ganglia module is modelled on.             *)
THEOREM UpdateImplementsListing == Spec => ImplementsListing
  BY InitListing, NextListing, Invariance, PTL DEF Spec, ImplementsListing, Listing!Spec
===============================================================================
