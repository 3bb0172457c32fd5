-------------------------- MODULE ZfsmonStoreProofs ---------------------------
(***************************************************************************)
(* Proofs about ZfsmonStore: IInv is an invariant, and the store           *)
(* implements ZfsmonView while the clock is not set back.                  *)
(***************************************************************************)
EXTENDS ZfsmonStore, TLAPS

Known(name) == \E r \in zpool_t : r.name = name

(***************************************************************************)
(* What zfsmon_db_zpool_add does to zpool_t, row by row.                   *)
(***************************************************************************)

(* Every old row survives with its id and its name. *)
LEMMA AddKeepsRows ==
    ASSUME TypeOK, NEW name \in Pools, zfsmon_db_zpool_add(name),
           NEW r \in zpool_t
    PROVE  \E s \in zpool_t' : /\ s.id = r.id /\ s.name = r.name
                               /\ s.valid = IF r.name = name THEN 1 ELSE r.valid
  <1> DEFINE s == IF r.name = name THEN [r EXCEPT !.valid = 1] ELSE r
  <1>1. r \in InsertOrIgnore(name)
    BY DEF InsertOrIgnore
  <1>2. s \in zpool_t'
    BY <1>1 DEF zfsmon_db_zpool_add
  <1>3. s.id = r.id /\ s.name = r.name /\ s.valid = IF r.name = name THEN 1 ELSE r.valid
    BY DEF TypeOK, ZpoolRow
  <1> QED BY <1>2, <1>3

(* Every new row is an old one, listed if it is the one added, or the row  *)
(* of a pool that was unknown, under the next id.                          *)
LEMMA AddRows ==
    ASSUME TypeOK, NEW name \in Pools, zfsmon_db_zpool_add(name),
           NEW s \in zpool_t'
    PROVE  /\ s \in ZpoolRow
           /\ \/ \E r \in zpool_t : /\ s.id = r.id /\ s.name = r.name
                                    /\ s.valid = IF r.name = name THEN 1 ELSE r.valid
              \/ /\ ~ Known(name)
                 /\ s = [id |-> seq + 1, name |-> name, valid |-> 1]
  <1>1. PICK r \in InsertOrIgnore(name) :
            s = IF r.name = name THEN [r EXCEPT !.valid = 1] ELSE r
    BY DEF zfsmon_db_zpool_add
  <1>2. CASE r \in zpool_t
    BY <1>1, <1>2 DEF TypeOK, ZpoolRow
  <1>3. CASE r \notin zpool_t
    <2>1. ~ Known(name) /\ r = [id |-> seq + 1, name |-> name, valid |-> None]
      BY <1>1, <1>3 DEF InsertOrIgnore, Known
    <2>2. s = [id |-> seq + 1, name |-> name, valid |-> 1]
      BY <1>1, <2>1
    <2> QED BY <2>1, <2>2 DEF TypeOK, ZpoolRow
  <1> QED BY <1>2, <1>3

LEMMA AddPresent ==
    ASSUME TypeOK, NEW name \in Pools, zfsmon_db_zpool_add(name)
    PROVE  \E s \in zpool_t' : /\ s.name = name /\ s.valid = 1
                               /\ ~ Known(name) => s.id = seq + 1
  <1>1. CASE Known(name)
    BY <1>1, AddKeepsRows DEF Known
  <1>2. CASE ~ Known(name)
    <2> DEFINE r == [id |-> seq + 1, name |-> name, valid |-> None]
    <2>1. r \in InsertOrIgnore(name)
      BY <1>2 DEF InsertOrIgnore, Known
    <2>2. [r EXCEPT !.valid = 1] \in zpool_t'
      BY <2>1 DEF zfsmon_db_zpool_add
    <2> QED BY <2>2
  <1> QED BY <1>1, <1>2

LEMMA AddTypes ==
    ASSUME TypeOK, NEW name \in Pools, zfsmon_db_zpool_add(name)
    PROVE  /\ zpool_t' \subseteq ZpoolRow
           /\ seq' \in Nat
           /\ seq' = IF Known(name) THEN seq ELSE seq + 1
  BY AddRows DEF TypeOK, zfsmon_db_zpool_add, Known

LEMMA AddIdsUnique ==
    ASSUME TypeOK, IdsUnique, NEW name \in Pools, zfsmon_db_zpool_add(name)
    PROVE  IdsUnique'
  <1>1. ASSUME NEW r \in zpool_t', NEW s \in zpool_t', r.id = s.id \/ r.name = s.name
        PROVE  r = s
    <2>1. r \in ZpoolRow /\ s \in ZpoolRow
      BY AddRows
    <2>2. r.id = s.id /\ r.name = s.name /\ r.valid = s.valid
      BY <1>1, AddRows DEF IdsUnique, Known, TypeOK, ZpoolRow
    <2> QED BY <2>1, <2>2 DEF ZpoolRow
  <1>2. ASSUME NEW r \in zpool_t' PROVE r.id <= seq'
    BY AddRows, AddTypes DEF IdsUnique, TypeOK, ZpoolRow
  <1> QED BY <1>1, <1>2 DEF IdsUnique

-------------------------------------------------------------------------------
(***************************************************************************)
(* Ids.                                                                    *)
(***************************************************************************)
LEMMA ChosenByName ==
    ASSUME NEW t, NEW r \in t, \A a, b \in t : a.name = b.name => a = b
    PROVE  (CHOOSE x \in t : x.name = r.name) = r
  OBVIOUS

LEMMA IdOfRow ==
    ASSUME IdsUnique, NEW r \in zpool_t
    PROVE  zfsmon_db_zpool_get_id(r.name) = r.id
  BY ChosenByName DEF IdsUnique, zfsmon_db_zpool_get_id

LEMMA IdOfKnown ==
    ASSUME TypeOK, IdsUnique, NEW name
    PROVE  /\ ~ Known(name) => zfsmon_db_zpool_get_id(name) = 0
           /\ Known(name) => zfsmon_db_zpool_get_id(name) \in 1..seq
  BY IdOfRow DEF TypeOK, ZpoolRow, IdsUnique, Known, zfsmon_db_zpool_get_id

(* Adding a pool gives it an id if it had none, and changes no other id.   *)
LEMMA AddIds ==
    ASSUME TypeOK, IdsUnique, NEW name \in Pools, zfsmon_db_zpool_add(name),
           NEW p \in Pools
    PROVE  zfsmon_db_zpool_get_id(p)' =
             IF p = name /\ ~ Known(name) THEN seq + 1 ELSE zfsmon_db_zpool_get_id(p)
  <1>1. \A a, b \in zpool_t' : a.name = b.name => a = b
    BY AddIdsUnique DEF IdsUnique
  <1>2. ASSUME NEW s \in zpool_t' PROVE zfsmon_db_zpool_get_id(s.name)' = s.id
    BY <1>1, <1>2, ChosenByName DEF zfsmon_db_zpool_get_id
  <1>3. CASE Known(p)
    <2>1. PICK r \in zpool_t : r.name = p
      BY <1>3 DEF Known
    <2>2. PICK s \in zpool_t' : s.id = r.id /\ s.name = r.name
      BY AddKeepsRows
    <2> QED BY <1>2, <1>3, <2>1, <2>2, IdOfRow
  <1>4. CASE p = name /\ ~ Known(name)
    BY <1>2, <1>4, AddPresent
  <1>5. CASE p # name /\ ~ Known(p)
    <2>1. \A s \in zpool_t' : s.name # p
      BY <1>5, AddRows DEF Known
    <2> QED BY <1>5, <2>1 DEF zfsmon_db_zpool_get_id, Known
  <1> QED BY <1>3, <1>4, <1>5

(* Different pools have different ids, before and after.                   *)
LEMMA IdsDiffer ==
    ASSUME TypeOK, IdsUnique, NEW p \in Pools, NEW r \in Pools, p # r,
           zfsmon_db_zpool_get_id(p) = zfsmon_db_zpool_get_id(r)
    PROVE  ~ Known(p) /\ ~ Known(r)
  <1>1. ASSUME Known(p), Known(r) PROVE FALSE
    BY <1>1, IdOfRow DEF Known, IdsUnique
  <1> QED BY <1>1, IdOfKnown DEF Known, TypeOK

LEMMA AddedId ==
    ASSUME TypeOK, IdsUnique, NEW name \in Pools, zfsmon_db_zpool_add(name)
    PROVE  /\ zfsmon_db_zpool_get_id(name)' \in Nat \ {0}
           /\ \E z \in zpool_t' : z.id = zfsmon_db_zpool_get_id(name)'
  <1>1. zfsmon_db_zpool_get_id(name)' \in Nat \ {0}
    BY AddIds, IdOfKnown DEF TypeOK
  <1>2. PICK s \in zpool_t' : s.name = name /\ (~ Known(name) => s.id = seq + 1)
    BY AddPresent
  <1>3. \A a, b \in zpool_t' : a.name = b.name => a = b
    BY AddIdsUnique DEF IdsUnique
  <1>4. zfsmon_db_zpool_get_id(name)' = s.id
    BY <1>2, <1>3, ChosenByName DEF zfsmon_db_zpool_get_id
  <1> QED BY <1>1, <1>4

LEMMA AddKeepsOwners ==
    ASSUME TypeOK, RowsOwned, NEW name \in Pools, zfsmon_db_zpool_add(name)
    PROVE  /\ \A r \in zpool_props_t  : \E z \in zpool_t' : z.id = r.zpool_id
           /\ \A r \in zpool_iostat_t : \E z \in zpool_t' : z.id = r.zpool_id
  BY AddKeepsRows DEF RowsOwned

-------------------------------------------------------------------------------
(***************************************************************************)
(* IInv is inductive.                                                      *)
(***************************************************************************)
LEMMA InitIInv == Init => IInv
  BY StoreConstants
     DEF Init, zfsmon_db_init, IInv, TypeOK, IdsUnique, RowsOwned, KeysUnique,
         IostatBounded, NotFromTheFuture

LEMMA AddIInv ==
    ASSUME IInv, NEW name \in Pools, zpool_add(name)
    PROVE  IInv'
  <1> USE DEF zpool_add, IInv
  <1>1. TypeOK'
    BY AddTypes DEF TypeOK
  <1>2. IdsUnique'
    BY AddIdsUnique
  <1>3. RowsOwned'
    BY AddKeepsOwners DEF RowsOwned
  <1>4. KeysUnique' /\ IostatBounded' /\ NotFromTheFuture'
    BY DEF KeysUnique, IostatBounded, NotFromTheFuture
  <1> QED BY <1>1, <1>2, <1>3, <1>4

LEMMA InvalidateIInv ==
    ASSUME IInv, zfsmon_db_zpool_invalidate_all
    PROVE  IInv'
  <1> USE DEF zfsmon_db_zpool_invalidate_all, IInv
  <1>1. ASSUME NEW s \in zpool_t'
        PROVE  \E r \in zpool_t : /\ s = [r EXCEPT !.valid = 0]
                                  /\ s.id = r.id /\ s.name = r.name /\ s \in ZpoolRow
    BY DEF TypeOK, ZpoolRow
  <1>2. ASSUME NEW r \in zpool_t
        PROVE  \E s \in zpool_t' : s.id = r.id /\ s.name = r.name
    <2>1. [r EXCEPT !.valid = 0] \in zpool_t'
      OBVIOUS
    <2> QED BY <2>1 DEF TypeOK, ZpoolRow
  <1>3. TypeOK'
    BY <1>1 DEF TypeOK
  <1>4. IdsUnique'
    BY <1>1 DEF IdsUnique
  <1>5. RowsOwned'
    <2>1. \A id : (\E z \in zpool_t : z.id = id) => \E z \in zpool_t' : z.id = id
      BY <1>2
    <2>2. UNCHANGED <<zpool_props_t, zpool_iostat_t>>
      OBVIOUS
    <2> HIDE DEF zfsmon_db_zpool_invalidate_all
    <2> QED BY <2>1, <2>2 DEF RowsOwned
  <1>6. KeysUnique' /\ IostatBounded' /\ NotFromTheFuture'
    BY DEF KeysUnique, IostatBounded, NotFromTheFuture
  <1> QED BY <1>3, <1>4, <1>5, <1>6

LEMMA PropAddIInv ==
    ASSUME IInv, NEW name \in Pools, NEW prop \in Props, NEW value \in Values,
           zfsmon_db_zpool_prop_add(name, prop, value)
    PROVE  IInv'
  <1> USE DEF IInv
  <1>a. zfsmon_db_zpool_add(name)
    BY DEF zfsmon_db_zpool_prop_add
  <1> DEFINE p_id == zfsmon_db_zpool_get_id(name)'
             row  == [zpool_id |-> p_id, name |-> prop, value |-> value]
  <1>b. p_id \in Nat \ {0} /\ \E z \in zpool_t' : z.id = p_id
    BY <1>a, AddedId
  <1>c. /\ zpool_props_t' = (zpool_props_t \ PropRows(p_id, prop)) \cup {row}
        /\ UNCHANGED <<zpool_iostat_t, now>>
    BY DEF zfsmon_db_zpool_prop_add
  <1> HIDE DEF p_id
  <1>1. TypeOK'
    BY <1>a, <1>b, <1>c, AddTypes DEF TypeOK, PropRow
  <1>2. IdsUnique'
    BY <1>a, AddIdsUnique
  <1>3. RowsOwned'
    BY <1>a, <1>b, <1>c, AddKeepsOwners DEF RowsOwned
  <1>4. KeysUnique'
    BY <1>c DEF KeysUnique, PropRows
  <1>5. IostatBounded' /\ NotFromTheFuture'
    BY <1>c DEF IostatBounded, NotFromTheFuture
  <1> QED BY <1>1, <1>2, <1>3, <1>4, <1>5

LEMMA IostatAddIInv ==
    ASSUME IInv, NEW name \in Pools, NEW s \in Stats,
           zfsmon_db_zpool_iostat_add(name, s)
    PROVE  IInv'
  <1> USE DEF IInv
  <1>a. zfsmon_db_zpool_add(name)
    BY DEF zfsmon_db_zpool_iostat_add
  <1> DEFINE p_id == zfsmon_db_zpool_get_id(name)'
             row  == [zpool_id |-> p_id, timestamp |-> now, iostat |-> s]
  <1>b. p_id \in Nat \ {0} /\ \E z \in zpool_t' : z.id = p_id
    BY <1>a, AddedId
  <1>c. /\ zpool_iostat_t' = Trim(UpsertIostat(p_id, s), p_id)
        /\ UNCHANGED <<zpool_props_t, now>>
    BY DEF zfsmon_db_zpool_iostat_add
  <1> HIDE DEF p_id
  <1>d. now \in Nat
    BY StoreConstants DEF TypeOK
  <1>e. \A r \in zpool_iostat_t' : r = row \/ r \in zpool_iostat_t
    BY <1>c DEF Trim, UpsertIostat
  <1>1. TypeOK'
    BY <1>a, <1>b, <1>c, <1>d, <1>e, AddTypes DEF TypeOK, IostatRow
  <1>2. IdsUnique'
    BY <1>a, AddIdsUnique
  <1>3. RowsOwned'
    BY <1>a, <1>b, <1>c, <1>e, AddKeepsOwners DEF RowsOwned
  <1>4. KeysUnique'
    BY <1>c DEF KeysUnique, Trim, UpsertIostat
  <1>5. IostatBounded'
    <2> SUFFICES ASSUME NEW a \in zpool_iostat_t', NEW b \in zpool_iostat_t',
                        NEW c \in zpool_iostat_t',
                        a.zpool_id = b.zpool_id, b.zpool_id = c.zpool_id,
                        a.timestamp < b.timestamp, b.timestamp < c.timestamp
                 PROVE  FALSE
      BY DEF IostatBounded
    <2>1. CASE a.zpool_id = p_id
      BY <1>c, <2>1 DEF Trim
    <2>2. CASE a.zpool_id # p_id
      BY <1>e, <2>2 DEF IostatBounded
    <2> QED BY <2>1, <2>2
  <1>6. NotFromTheFuture'
    BY <1>c, <1>d, <1>e DEF NotFromTheFuture
  <1> QED BY <1>1, <1>2, <1>3, <1>4, <1>5, <1>6

LEMMA ClockIInv ==
    ASSUME IInv, Tick \/ SetClockBack \/ UNCHANGED vars
    PROVE  IInv'
  <1> USE StoreConstants
      DEF IInv, TypeOK, IdsUnique, RowsOwned, KeysUnique, IostatBounded
  <1>1. CASE Tick
    <2>1. NotFromTheFuture'
      BY <1>1 DEF Tick, NotFromTheFuture, IostatRow
    <2> QED BY <1>1, <2>1 DEF Tick
  <1>2. CASE SetClockBack
    BY <1>2 DEF SetClockBack, NotFromTheFuture
  <1>3. CASE UNCHANGED vars
    BY <1>3 DEF vars, NotFromTheFuture
  <1> QED BY <1>1, <1>2, <1>3

LEMMA NextIInv == IInv /\ [Next]_vars => IInv'
  <1> SUFFICES ASSUME IInv, [Next]_vars PROVE IInv'
    OBVIOUS
  <1>1. ASSUME NEW p \in Pools, zpool_add(p) PROVE IInv'
    BY <1>1, AddIInv
  <1>2. CASE zfsmon_db_zpool_invalidate_all
    BY <1>2, InvalidateIInv
  <1>3. ASSUME NEW p \in Pools, NEW q \in Props, NEW v \in Values,
               zfsmon_db_zpool_prop_add(p, q, v)
        PROVE  IInv'
    BY <1>3, PropAddIInv
  <1>4. ASSUME NEW p \in Pools, NEW q \in Props, zfsmon_db_zpool_prop_get(p, q)
        PROVE  IInv'
    BY <1>4, AddIInv DEF zfsmon_db_zpool_prop_get
  <1>5. ASSUME NEW p \in Pools, NEW s \in Stats, zfsmon_db_zpool_iostat_add(p, s)
        PROVE  IInv'
    BY <1>5, IostatAddIInv
  <1>6. CASE Tick \/ SetClockBack \/ UNCHANGED vars
    BY <1>6, ClockIInv
  <1> QED BY <1>1, <1>2, <1>3, <1>4, <1>5, <1>6 DEF Next

(***************************************************************************)
(* The tables always satisfy IInv: typed rows, unique keys, no row without *)
(* its pool, at most two samples of a pool, none from the future.          *)
(***************************************************************************)
THEOREM Invariance == Spec => []IInv
  BY InitIInv, NextIInv, PTL DEF Spec

(* Every column of every row always has its type.                          *)
THEOREM TypeCorrectness == Spec => []TypeOK
  <1>1. IInv => TypeOK
    BY DEF IInv
  <1> QED BY <1>1, Invariance, PTL

(* However often a pool is sampled, and however the wall clock moves, the  *)
(* trim leaves at most two samples of it.                                  *)
THEOREM Trimmed == Spec => []IostatBounded
  <1>1. IInv => IostatBounded
    BY DEF IInv
  <1> QED BY <1>1, Invariance, PTL
===============================================================================
