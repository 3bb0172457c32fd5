------------------------ MODULE ZfsmonStoreRefinement -------------------------
(***************************************************************************)
(* More proofs about ZfsmonStore, on top of its inductive invariant: what  *)
(* the queries return after each call.  They give the action properties    *)
(* PropsChangeOnlyWhenSet and SavedSampleIsCurrent and, while the clock is *)
(* not set back, the refinement of ZfsmonView.                             *)
(***************************************************************************)
EXTENDS ZfsmonStoreProofs

get_id(name) == zfsmon_db_zpool_get_id(name)

-------------------------------------------------------------------------------
(***************************************************************************)
(* Rows seen through the id of a pool.                                     *)
(***************************************************************************)

(* Neither id 0, "not found", nor the next id owns a row.                  *)
LEMMA UnusedIds ==
    ASSUME IInv, NEW id \in {0, seq + 1}, NEW q
    PROVE  PropRows(id, q) = {} /\ IostatRows(id) = {}
  <1>1. \A z \in zpool_t : z.id # id
    BY DEF IInv, TypeOK, IdsUnique, ZpoolRow
  <1> QED BY <1>1 DEF IInv, RowsOwned, PropRows, IostatRows

(* Registering a pool leaves every pool's rows where they were.            *)
LEMMA AddKeepsView ==
    ASSUME IInv, NEW name \in Pools, zfsmon_db_zpool_add(name),
           NEW p \in Pools, NEW q
    PROVE  /\ PropRows(get_id(p)', q) = PropRows(get_id(p), q)
           /\ IostatRows(get_id(p)') = IostatRows(get_id(p))
  <1>1. CASE p = name /\ ~ Known(name)
    <2>1. get_id(p)' = seq + 1 /\ get_id(p) = 0
      BY <1>1, AddIds, IdOfKnown DEF IInv, get_id
    <2> QED BY <2>1, UnusedIds
  <1>2. CASE ~ (p = name /\ ~ Known(name))
    BY <1>2, AddIds DEF IInv, get_id
  <1> QED BY <1>1, <1>2

(* After a pool is registered no other pool has its id.                    *)
LEMMA AddedIdDiffers ==
    ASSUME IInv, NEW name \in Pools, zfsmon_db_zpool_add(name),
           NEW p \in Pools, p # name
    PROVE  get_id(p)' # get_id(name)'
  <1>1. get_id(p)' = get_id(p)
    BY AddIds DEF IInv, get_id
  <1>2. CASE Known(name)
    <2>1. get_id(name)' = get_id(name)
      BY <1>2, AddIds DEF IInv, get_id
    <2> QED BY <1>1, <1>2, <2>1, IdsDiffer DEF IInv, get_id
  <1>3. CASE ~ Known(name)
    <2>1. get_id(name)' = seq + 1
      BY <1>3, AddIds DEF IInv, get_id
    <2>2. get_id(p) \in 0..seq
      BY IdOfKnown DEF IInv, TypeOK, get_id
    <2> QED BY <1>1, <2>1, <2>2 DEF IInv, TypeOK
  <1> QED BY <1>2, <1>3

LEMMA AddValid ==
    ASSUME IInv, NEW name \in Pools, zfsmon_db_zpool_add(name)
    PROVE  ValidPools' = ValidPools \cup {name}
  <1>1. ASSUME NEW p \in ValidPools' PROVE p \in ValidPools \cup {name}
    BY <1>1, AddRows DEF IInv, ValidPools
  <1>2. ASSUME NEW p \in ValidPools PROVE p \in ValidPools'
    <2>1. PICK r \in zpool_t : r.name = p /\ r.valid = 1
      BY DEF ValidPools
    <2>2. PICK s \in zpool_t' : s.name = p /\ s.valid = 1
      BY <2>1, AddKeepsRows DEF IInv
    <2> QED BY <2>2 DEF ValidPools
  <1>3. name \in ValidPools'
    BY AddPresent DEF IInv, ValidPools
  <1> QED BY <1>1, <1>2, <1>3

LEMMA InvalidateIds ==
    ASSUME IInv, zfsmon_db_zpool_invalidate_all, NEW p
    PROVE  get_id(p)' = get_id(p)
  <1> USE DEF zfsmon_db_zpool_invalidate_all
  <1>1. \A r \in zpool_t : \E s \in zpool_t' : s.id = r.id /\ s.name = r.name
    <2> TAKE r \in zpool_t
    <2>1. [r EXCEPT !.valid = 0] \in zpool_t'
      OBVIOUS
    <2> QED BY <2>1 DEF IInv, TypeOK, ZpoolRow
  <1>2. \A s \in zpool_t' : \E r \in zpool_t : s.id = r.id /\ s.name = r.name
    BY DEF IInv, TypeOK, ZpoolRow
  <1>3. \A a, b \in zpool_t' : a.name = b.name => a = b
    BY InvalidateIInv DEF IInv, IdsUnique
  <1> HIDE DEF zfsmon_db_zpool_invalidate_all
  <1>4. ASSUME NEW s \in zpool_t' PROVE zfsmon_db_zpool_get_id(s.name)' = s.id
    BY <1>3, <1>4, ChosenByName DEF zfsmon_db_zpool_get_id
  <1>5. CASE Known(p)
    BY <1>1, <1>4, <1>5, IdOfRow DEF IInv, Known, get_id
  <1>6. CASE ~ Known(p)
    BY <1>2, <1>6 DEF Known, get_id, zfsmon_db_zpool_get_id
  <1> QED BY <1>5, <1>6

-------------------------------------------------------------------------------
(***************************************************************************)
(* Properties.                                                             *)
(***************************************************************************)
ValueOf(rows) == IF rows = {} THEN None ELSE (CHOOSE r \in rows : TRUE).value

(* Setting a property changes the rows of that property of that pool only. *)
LEMMA PropAddRows ==
    ASSUME IInv, NEW name \in Pools, NEW prop \in Props, NEW value \in Values,
           zfsmon_db_zpool_prop_add(name, prop, value),
           NEW p \in Pools, NEW q \in Props
    PROVE  PropRows(get_id(p), q)' =
             IF p = name /\ q = prop
             THEN {[zpool_id |-> get_id(name)', name |-> prop, value |-> value]}
             ELSE PropRows(get_id(p), q)
  <1>a. zfsmon_db_zpool_add(name)
    BY DEF zfsmon_db_zpool_prop_add
  <1> DEFINE i == get_id(name)'
             j == get_id(p)'
             row == [zpool_id |-> i, name |-> prop, value |-> value]
  <1>b. zpool_props_t' = (zpool_props_t \ PropRows(i, prop)) \cup {row}
    BY DEF zfsmon_db_zpool_prop_add, get_id
  <1>c. PropRows(get_id(p), q)' = {r \in zpool_props_t' : r.zpool_id = j /\ r.name = q}
    BY DEF PropRows
  <1>d. PropRows(j, q) = PropRows(get_id(p), q)
    BY <1>a, AddKeepsView
  <1>e. p # name => i # j
    BY <1>a, AddedIdDiffers
  <1> HIDE DEF i, j
  <1>1. CASE p = name /\ q = prop
    <2>1. i = j
      BY <1>1 DEF i, j
    <2>2. {r \in zpool_props_t' : r.zpool_id = j /\ r.name = q} = {row}
      BY <1>1, <2>1, <1>b DEF PropRows
    <2> QED BY <1>1, <1>c, <2>2 DEF i
  <1>2. CASE ~ (p = name /\ q = prop)
    <2>1. {r \in zpool_props_t' : r.zpool_id = j /\ r.name = q} = PropRows(j, q)
      BY <1>2, <1>b, <1>e DEF PropRows
    <2> QED BY <1>2, <1>c, <1>d, <2>1
  <1> QED BY <1>1, <1>2

LEMMA PropAddValue ==
    ASSUME IInv, NEW name \in Pools, NEW prop \in Props, NEW value \in Values,
           zfsmon_db_zpool_prop_add(name, prop, value),
           NEW p \in Pools, NEW q \in Props
    PROVE  PropValue(p, q)' = IF p = name /\ q = prop THEN value ELSE PropValue(p, q)
  <1>1. PropValue(p, q)' = ValueOf(PropRows(get_id(p), q)')
    BY DEF PropValue, ValueOf, get_id
  <1>2. PropValue(p, q) = ValueOf(PropRows(get_id(p), q))
    BY DEF PropValue, ValueOf, get_id
  <1>3. CASE p = name /\ q = prop
    <2> DEFINE row == [zpool_id |-> get_id(name)', name |-> prop, value |-> value]
    <2>1. PropRows(get_id(p), q)' = {row}
      BY <1>3, PropAddRows
    <2>2. row.value = value
      OBVIOUS
    <2> HIDE DEF row
    <2>3. ValueOf({row}) = row.value
      BY DEF ValueOf
    <2> QED BY <1>1, <1>3, <2>1, <2>2, <2>3
  <1>4. CASE ~ (p = name /\ q = prop)
    BY <1>1, <1>2, <1>4, PropAddRows
  <1> QED BY <1>3, <1>4

(* Every other action leaves every property as it is.                      *)
LEMMA PropsUnchanged ==
    ASSUME IInv, NEW p \in Pools, NEW q \in Props,
           \/ \E name \in Pools : zpool_add(name)
           \/ zfsmon_db_zpool_invalidate_all
           \/ \E name \in Pools, s \in Stats : zfsmon_db_zpool_iostat_add(name, s)
           \/ UNCHANGED <<zpool_t, zpool_props_t>>
    PROVE  PropValue(p, q)' = PropValue(p, q)
  <1>0. /\ PropValue(p, q)' = ValueOf(PropRows(get_id(p), q)')
        /\ PropValue(p, q) = ValueOf(PropRows(get_id(p), q))
    BY DEF PropValue, ValueOf, get_id
  <1>1. ASSUME NEW name \in Pools, zfsmon_db_zpool_add(name), UNCHANGED zpool_props_t
        PROVE  PropRows(get_id(p), q)' = PropRows(get_id(p), q)
    <2>1. PropRows(get_id(p), q)' = PropRows(get_id(p)', q)
      BY <1>1 DEF PropRows
    <2> QED BY <2>1, <1>1, AddKeepsView
  <1>2. CASE zfsmon_db_zpool_invalidate_all
    <2>1. get_id(p)' = get_id(p) /\ zpool_props_t' = zpool_props_t
      BY <1>2, InvalidateIds DEF zfsmon_db_zpool_invalidate_all
    <2> QED BY <2>1, <1>0 DEF PropRows
  <1>3. CASE UNCHANGED <<zpool_t, zpool_props_t>>
    BY <1>3 DEF PropValue, PropRows, zfsmon_db_zpool_get_id
  <1> QED BY <1>0, <1>1, <1>2, <1>3 DEF zpool_add, zfsmon_db_zpool_iostat_add

(* One step of the specification satisfies PropsChangeOnlyWhenSet.         *)
LEMMA PropsStep == IInv /\ [Next]_vars =>
    [\A p \in Pools, q \in Props :
        PropValue(p, q)' # PropValue(p, q)
            => \E v \in Values : /\ zfsmon_db_zpool_prop_add(p, q, v)
                                 /\ PropValue(p, q)' = v]_vars
  <1> SUFFICES ASSUME IInv, Next, NEW p \in Pools, NEW q \in Props,
                      PropValue(p, q)' # PropValue(p, q)
               PROVE  \E v \in Values : /\ zfsmon_db_zpool_prop_add(p, q, v)
                                        /\ PropValue(p, q)' = v
    OBVIOUS
  <1>1. PICK n \in Pools, r \in Props, v \in Values : zfsmon_db_zpool_prop_add(n, r, v)
    BY PropsUnchanged DEF Next, zfsmon_db_zpool_prop_get, Tick, SetClockBack
  <1> QED BY <1>1, PropAddValue

(***************************************************************************)
(* A stored property value changes only when that property is set, and to  *)
(* the value it is set to (zfsmon_db_zpool_add keeps the row of a known    *)
(* pool, so ON DELETE CASCADE never fires).                                *)
(***************************************************************************)
THEOREM PropsStable == Spec => PropsChangeOnlyWhenSet
  BY Invariance, PropsStep, PTL DEF Spec, PropsChangeOnlyWhenSet

-------------------------------------------------------------------------------
(***************************************************************************)
(* Samples.  Two facts about a set of samples with different timestamps,   *)
(* no three of which are in a row: it has a newest, and what is left       *)
(* without the newest is empty or a singleton.                             *)
(***************************************************************************)
TwoAtMost(R) ==
    /\ R \subseteq IostatRow
    /\ \A r, s \in R : r.timestamp = s.timestamp => r = s
    /\ \A a, b, c \in R : ~ (a.timestamp < b.timestamp /\ b.timestamp < c.timestamp)

LEMMA NewestIs ==
    ASSUME NEW R, TwoAtMost(R), NEW n \in R,
           \A s \in R : s.timestamp <= n.timestamp
    PROVE  Newest(R) = n
  <1>1. ASSUME NEW m \in R, \A s \in R : s.timestamp <= m.timestamp PROVE m = n
    BY <1>1 DEF TwoAtMost, IostatRow
  <1> QED BY <1>1 DEF Newest

LEMMA NewestExists ==
    ASSUME NEW R, TwoAtMost(R), R # {}
    PROVE  /\ Newest(R) \in R
           /\ \A s \in R : s.timestamp <= Newest(R).timestamp
  <1>1. \E n \in R : \A s \in R : s.timestamp <= n.timestamp
    <2>1. PICK a \in R : TRUE
      OBVIOUS
    <2>2. CASE \A s \in R : s.timestamp <= a.timestamp
      BY <2>1, <2>2
    <2>3. CASE ~ \A s \in R : s.timestamp <= a.timestamp
      <3>1. PICK b \in R : a.timestamp < b.timestamp
        BY <2>3 DEF TwoAtMost, IostatRow
      <3>2. \A s \in R : s.timestamp <= b.timestamp
        BY <2>1, <3>1 DEF TwoAtMost, IostatRow
      <3> QED BY <3>1, <3>2
    <2> QED BY <2>2, <2>3
  <1> QED BY <1>1, NewestIs

LEMMA FirstOfOne ==
    ASSUME NEW r \in IostatRow
    PROVE  FirstSample({r}) = [time |-> r.timestamp, iostat |-> r.iostat]
  <1>1. Newest({r}) = r
    BY DEF Newest, IostatRow
  <1> QED BY <1>1 DEF FirstSample

LEMMA RowsOfPool ==
    ASSUME IInv, NEW id PROVE TwoAtMost(IostatRows(id))
  BY DEF IInv, TypeOK, KeysUnique, IostatBounded, IostatRows, TwoAtMost

-------------------------------------------------------------------------------
(***************************************************************************)
(* Saving a sample, while the clock is not set back.                       *)
(***************************************************************************)
Second(R) == IF R = {} THEN None ELSE FirstSample(R \ {Newest(R)})

(* The rows of the pool afterwards: the new one and, unless there is none, *)
(* the newest of those of an earlier second.                               *)
LEMMA SaveRows ==
    ASSUME IInv, ~ ClockStepsBack, NEW name \in Pools, NEW s \in Stats,
           zfsmon_db_zpool_iostat_add(name, s),
           NEW R, R = IostatRows(get_id(name)),
           NEW row, row = [zpool_id |-> get_id(name)', timestamp |-> now, iostat |-> s]
    PROVE  IostatRows(get_id(name))' =
             {row} \cup IF R = {} THEN {}
                        ELSE IF Newest(R).timestamp = now THEN R \ {Newest(R)}
                        ELSE {Newest(R)}
  <1>a. zfsmon_db_zpool_add(name)
    BY DEF zfsmon_db_zpool_iostat_add
  <1> DEFINE i == get_id(name)'
             U == UpsertIostat(i, s)
  <1>b. IostatRows(get_id(name))' = {r \in Trim(U, i) : r.zpool_id = i}
    BY DEF zfsmon_db_zpool_iostat_add, IostatRows, get_id
  <1>c. R = {r \in zpool_iostat_t : r.zpool_id = i}
    BY <1>a, AddKeepsView DEF IostatRows
  <1>d. TwoAtMost(R)
    BY RowsOfPool
  <1>e. \A r \in R : r \in IostatRow /\ r.timestamp \in Nat /\ r.timestamp <= now
    BY <1>c DEF IInv, TypeOK, NotFromTheFuture, IostatRow
  <1>f. now \in Nat
    BY StoreConstants DEF IInv, TypeOK
  <1> HIDE DEF i
  <1>g. row = [zpool_id |-> i, timestamp |-> now, iostat |-> s]
    BY DEF i
  <1> DEFINE V == {r \in R : r.timestamp # now} \cup {row}
             W == {r \in V : ~ \E a, b \in V : /\ r.timestamp < a.timestamp
                                               /\ a.timestamp < b.timestamp}
  <1>1. {r \in U : r.zpool_id = i} = V
    BY <1>c, <1>g DEF UpsertIostat
  <1>2. {r \in Trim(U, i) : r.zpool_id = i} = W
    <2> HIDE DEF V, U
    <2> QED BY <1>1 DEF Trim
  <1>3. CASE R = {}
    <2>1. W = {row}
      BY <1>3, <1>f, <1>g
    <2> QED BY <1>b, <1>2, <1>3, <2>1
  <1>4. CASE R # {} /\ Newest(R).timestamp = now
    <2> DEFINE n == Newest(R)
    <2>1. n \in R
      BY <1>4, <1>d, NewestExists
    <2>2. {r \in R : r.timestamp # now} = R \ {n}
      BY <1>4, <1>d, <2>1 DEF TwoAtMost
    <2>3. V = (R \ {n}) \cup {row}
      BY <2>2
    <2>4. \A r, t \in R \ {n} : ~ (r.timestamp < t.timestamp)
      <3> SUFFICES ASSUME NEW r \in R \ {n}, NEW t \in R \ {n}, r.timestamp < t.timestamp
                   PROVE  FALSE
        OBVIOUS
      <3>1. t.timestamp < n.timestamp
        BY <1>4, <1>e, <1>f, <2>2
      <3> QED BY <2>1, <3>1, <1>d DEF TwoAtMost
    <2> HIDE DEF n
    <2>5. \A r \in R \ {n} : r.timestamp < now
      BY <2>2, <1>e, <1>f
    <2>6. \A r, a, b \in V : ~ (r.timestamp < a.timestamp /\ a.timestamp < b.timestamp)
      BY <2>3, <2>4, <2>5, <1>e, <1>f, <1>g
    <2>7. W = V
      BY <2>6
    <2> QED BY <1>b, <1>2, <1>4, <2>3, <2>7 DEF n
  <1>5. CASE R # {} /\ Newest(R).timestamp # now
    <2> DEFINE n == Newest(R)
    <2>1. n \in R /\ \A r \in R : r.timestamp <= n.timestamp
      BY <1>5, <1>d, NewestExists
    <2>2. n.timestamp < now
      BY <1>5, <1>e, <1>f, <2>1
    <2> HIDE DEF n
    <2>3. V = R \cup {row}
      BY <1>e, <1>f, <2>1, <2>2
    <2>4. \A r \in R : r # n => r.timestamp < n.timestamp
      BY <1>d, <1>e, <2>1 DEF TwoAtMost
    <2>5. \A r \in V : r.timestamp <= now
      BY <1>e, <1>f, <1>g
    <2>6. \A r \in W : r \in {row, n}
      <3> SUFFICES ASSUME NEW r \in V, r \notin {row, n}
                   PROVE  \E a, b \in V : r.timestamp < a.timestamp /\ a.timestamp < b.timestamp
        OBVIOUS
      <3>1. r.timestamp < n.timestamp
        BY <2>3, <2>4
      <3>2. n.timestamp < row.timestamp
        BY <2>2, <1>g
      <3> QED BY <2>1, <2>3, <3>1, <3>2
    <2>7. row \in W
      <3>1. row \in V /\ row.timestamp = now
        BY <1>g
      <3>2. \A a \in V : ~ (now < a.timestamp)
        BY <2>3, <1>e, <1>f, <3>1
      <3> QED BY <3>1, <3>2
    <2>8. n \in W
      <3>1. ASSUME NEW a \in V, n.timestamp < a.timestamp PROVE a = row
        BY <3>1, <2>1, <2>3, <1>e
      <3>2. \A b \in V : ~ (now < b.timestamp)
        BY <2>3, <1>e, <1>f, <1>g
      <3>3. row.timestamp = now
        BY <1>g
      <3> QED BY <2>1, <2>3, <3>1, <3>2, <3>3
    <2>9. W = {row, n}
      BY <2>6, <2>7, <2>8
    <2> QED BY <1>b, <1>2, <1>5, <2>9 DEF n
  <1> QED BY <1>3, <1>4, <1>5

LEMMA SaveSamples ==
    ASSUME IInv, ~ ClockStepsBack, NEW name \in Pools, NEW s \in Stats,
           zfsmon_db_zpool_iostat_add(name, s)
    PROVE  /\ CurrSample(name)' = [time |-> now, iostat |-> s]
           /\ PrevSample(name)' =
                IF CurrSample(name) # None /\ CurrSample(name).time = now
                THEN PrevSample(name) ELSE CurrSample(name)
  <1> DEFINE R == IostatRows(get_id(name))
             N == IostatRows(get_id(name))'
             row == [zpool_id |-> get_id(name)', timestamp |-> now, iostat |-> s]
             rest == IF R = {} THEN {}
                     ELSE IF Newest(R).timestamp = now THEN R \ {Newest(R)}
                     ELSE {Newest(R)}
  <1>a. /\ CurrSample(name)' = FirstSample(N)
        /\ PrevSample(name)' = Second(N)
        /\ CurrSample(name) = FirstSample(R)
        /\ PrevSample(name) = Second(R)
    BY DEF CurrSample, PrevSample, FirstSample, Second, get_id
  <1>b. TwoAtMost(R) /\ TwoAtMost(N)
    <2>1. TwoAtMost(R)
      BY RowsOfPool
    <2>2. IInv'
      BY IostatAddIInv
    <2>3. TwoAtMost(N)
      BY <2>2 DEF IInv, TypeOK, KeysUnique, IostatBounded, IostatRows, TwoAtMost
    <2> QED BY <2>1, <2>3
  <1>c. \A r \in R : r \in IostatRow /\ r.timestamp \in Nat /\ r.timestamp <= now
    BY DEF IInv, TypeOK, NotFromTheFuture, IostatRow, IostatRows
  <1>d. now \in Nat
    BY StoreConstants DEF IInv, TypeOK
  <1>e. N = {row} \cup rest
    BY SaveRows
  <1>f. row.timestamp = now /\ row.iostat = s
    OBVIOUS
  <1> HIDE DEF R, N, row, rest
  <1>1. R # {} => Newest(R) \in R /\ \A r \in R : r.timestamp <= Newest(R).timestamp
    BY <1>b, NewestExists
  <1>2. \A r \in rest : r \in R /\ r.timestamp < now
    <2>1. ASSUME R # {}, Newest(R).timestamp = now, NEW r \in R \ {Newest(R)}
          PROVE  r.timestamp < now
      BY <1>1, <1>b, <1>c, <1>d, <2>1 DEF TwoAtMost
    <2> QED BY <1>1, <1>c, <1>d, <2>1 DEF rest
  <1>3. Newest(N) = row
    <2>1. row \in N /\ \A r \in N : r.timestamp <= row.timestamp
      BY <1>c, <1>d, <1>e, <1>f, <1>2
    <2> QED BY <2>1, <1>b, NewestIs
  <1>4. N \ {row} = rest
    BY <1>d, <1>e, <1>f, <1>2
  <1>5. FirstSample(N) = [time |-> now, iostat |-> s]
    BY <1>e, <1>f, <1>3 DEF FirstSample
  <1>6. Second(N) = FirstSample(rest)
    BY <1>e, <1>3, <1>4 DEF Second
  <1>7. R # {} => /\ FirstSample(R) # None
                  /\ FirstSample(R).time = Newest(R).timestamp
    <2> SUFFICES ASSUME R # {} PROVE FirstSample(R) # None /\ FirstSample(R).time = Newest(R).timestamp
      OBVIOUS
    <2>1. FirstSample(R) = [time |-> Newest(R).timestamp, iostat |-> Newest(R).iostat]
      BY DEF FirstSample
    <2>2. FirstSample(R) \in [time : Nat, iostat : Stats]
      BY <1>1, <1>c, <2>1 DEF IostatRow
    <2> QED BY <2>1, <2>2, StoreConstants
  <1>8. CASE R = {}
    <2>1. FirstSample(rest) = None /\ FirstSample(R) = None
      BY <1>8 DEF FirstSample, rest
    <2> QED BY <1>a, <1>5, <1>6, <2>1
  <1>9. CASE R # {} /\ Newest(R).timestamp = now
    <2>1. FirstSample(rest) = Second(R)
      BY <1>9 DEF rest, Second
    <2> QED BY <1>a, <1>5, <1>6, <1>7, <1>9, <2>1
  <1>10. CASE R # {} /\ Newest(R).timestamp # now
    <2>1. rest = {Newest(R)}
      BY <1>10 DEF rest
    <2>2. FirstSample(rest) = FirstSample(R)
      BY <1>1, <1>c, <1>10, <2>1, FirstOfOne DEF FirstSample
    <2> QED BY <1>a, <1>5, <1>6, <1>7, <1>10, <2>2
  <1> QED BY <1>8, <1>9, <1>10

(***************************************************************************)
(* While the clock is not set back, the sample just saved is the one read  *)
(* as current (zfsmon_db_zpool_iostat_add, then _get).                     *)
(***************************************************************************)
THEOREM SavedIsCurrent ==
    ASSUME ~ ClockStepsBack PROVE Spec => SavedSampleIsCurrent
  <1>1. IInv /\ [Next]_vars =>
            [\A p \in Pools, s \in Stats : zfsmon_db_zpool_iostat_add(p, s)
                => CurrSample(p)' = [time |-> now, iostat |-> s]]_vars
    BY SaveSamples
  <1> QED BY <1>1, Invariance, PTL DEF Spec, SavedSampleIsCurrent

-------------------------------------------------------------------------------
(***************************************************************************)
(* The samples of the other pools, and of every pool in the other actions. *)
(***************************************************************************)
LEMMA SameRowsSameSamples ==
    ASSUME NEW p, IostatRows(get_id(p))' = IostatRows(get_id(p))
    PROVE  CurrSample(p)' = CurrSample(p) /\ PrevSample(p)' = PrevSample(p)
  <1> DEFINE R == IostatRows(get_id(p))
             N == IostatRows(get_id(p))'
  <1>1. /\ CurrSample(p)' = FirstSample(N)
        /\ PrevSample(p)' = Second(N)
        /\ CurrSample(p) = FirstSample(R)
        /\ PrevSample(p) = Second(R)
    BY DEF CurrSample, PrevSample, FirstSample, Second, get_id
  <1> HIDE DEF R, N
  <1>2. N = R
    BY DEF N, R
  <1> QED BY <1>1, <1>2

LEMMA SaveOthers ==
    ASSUME IInv, NEW name \in Pools, NEW s \in Stats,
           zfsmon_db_zpool_iostat_add(name, s), NEW p \in Pools, p # name
    PROVE  IostatRows(get_id(p))' = IostatRows(get_id(p))
  <1>a. zfsmon_db_zpool_add(name)
    BY DEF zfsmon_db_zpool_iostat_add
  <1> DEFINE i == get_id(name)'
             j == get_id(p)'
  <1>b. zpool_iostat_t' = Trim(UpsertIostat(i, s), i)
    BY DEF zfsmon_db_zpool_iostat_add, get_id
  <1>c. i # j
    BY <1>a, AddedIdDiffers
  <1>d. IostatRows(j) = IostatRows(get_id(p))
    BY <1>a, AddKeepsView
  <1>e. IostatRows(get_id(p))' = {r \in zpool_iostat_t' : r.zpool_id = j}
    BY DEF IostatRows
  <1> HIDE DEF i, j
  <1>1. {r \in zpool_iostat_t' : r.zpool_id = j} = IostatRows(j)
    BY <1>b, <1>c DEF Trim, UpsertIostat, IostatRows
  <1> QED BY <1>d, <1>e, <1>1

LEMMA IostatUnchanged ==
    ASSUME IInv, NEW p \in Pools,
           \/ \E name \in Pools : zpool_add(name)
           \/ zfsmon_db_zpool_invalidate_all
           \/ \E name \in Pools, q \in Props, v \in Values :
                    zfsmon_db_zpool_prop_add(name, q, v)
           \/ UNCHANGED <<zpool_t, zpool_iostat_t>>
    PROVE  IostatRows(get_id(p))' = IostatRows(get_id(p))
  <1>1. ASSUME NEW name \in Pools, zfsmon_db_zpool_add(name), UNCHANGED zpool_iostat_t
        PROVE  IostatRows(get_id(p))' = IostatRows(get_id(p))
    <2>1. IostatRows(get_id(p))' = IostatRows(get_id(p)')
      BY <1>1 DEF IostatRows
    <2> QED BY <2>1, <1>1, AddKeepsView
  <1>2. CASE zfsmon_db_zpool_invalidate_all
    <2>1. get_id(p)' = get_id(p) /\ zpool_iostat_t' = zpool_iostat_t
      BY <1>2, InvalidateIds DEF zfsmon_db_zpool_invalidate_all
    <2> QED BY <2>1 DEF IostatRows
  <1>3. CASE UNCHANGED <<zpool_t, zpool_iostat_t>>
    BY <1>3 DEF IostatRows, get_id, zfsmon_db_zpool_get_id
  <1> QED BY <1>1, <1>2, <1>3 DEF zpool_add, zfsmon_db_zpool_prop_add

-------------------------------------------------------------------------------
(***************************************************************************)
(* The refinement: each call is a step of the view.                        *)
(***************************************************************************)
LEMMA InitView == Init => View!Init
  <1> SUFFICES ASSUME Init PROVE View!Init
    OBVIOUS
  <1> USE DEF Init, zfsmon_db_init
  <1>1. ValidPools = {}
    BY DEF ValidPools
  <1>2. \A p \in Pools, q \in Props : PropValue(p, q) = None
    BY DEF PropValue, PropRows
  <1>3. \A p \in Pools : CurrSample(p) = None /\ PrevSample(p) = None
    BY DEF CurrSample, PrevSample, IostatRows, FirstSample
  <1> QED BY <1>1, <1>2, <1>3 DEF View!Init

LEMMA AddView ==
    ASSUME IInv, NEW name \in Pools, zpool_add(name)
    PROVE  View!See(name)
  <1>1. ValidPools' = ValidPools \cup {name}
    BY AddValid DEF zpool_add
  <1>2. \A p \in Pools, q \in Props : PropValue(p, q)' = PropValue(p, q)
    BY PropsUnchanged
  <1>3. \A p \in Pools : CurrSample(p)' = CurrSample(p) /\ PrevSample(p)' = PrevSample(p)
    BY IostatUnchanged, SameRowsSameSamples
  <1>4. now' = now
    BY DEF zpool_add
  <1> QED BY <1>1, <1>2, <1>3, <1>4 DEF View!See

LEMMA InvalidateView ==
    ASSUME IInv, zfsmon_db_zpool_invalidate_all
    PROVE  View!Invalidate
  <1>1. ValidPools' = {}
    BY DEF zfsmon_db_zpool_invalidate_all, ValidPools, IInv, TypeOK, ZpoolRow
  <1>2. \A p \in Pools, q \in Props : PropValue(p, q)' = PropValue(p, q)
    BY PropsUnchanged
  <1>3. \A p \in Pools : CurrSample(p)' = CurrSample(p) /\ PrevSample(p)' = PrevSample(p)
    BY IostatUnchanged, SameRowsSameSamples
  <1>4. now' = now
    BY DEF zfsmon_db_zpool_invalidate_all
  <1> QED BY <1>1, <1>2, <1>3, <1>4 DEF View!Invalidate

LEMMA PropAddView ==
    ASSUME IInv, NEW name \in Pools, NEW prop \in Props, NEW value \in Values,
           zfsmon_db_zpool_prop_add(name, prop, value)
    PROVE  View!SetProp(name, prop, value)
  <1>1. ValidPools' = ValidPools \cup {name}
    BY AddValid DEF zfsmon_db_zpool_prop_add
  <1>2. \A p \in Pools, q \in Props :
            PropValue(p, q)' = IF p = name /\ q = prop THEN value ELSE PropValue(p, q)
    BY PropAddValue
  <1>3. \A p \in Pools : CurrSample(p)' = CurrSample(p) /\ PrevSample(p)' = PrevSample(p)
    BY IostatUnchanged, SameRowsSameSamples
  <1>4. now' = now
    BY DEF zfsmon_db_zpool_prop_add
  <1> QED BY <1>1, <1>2, <1>3, <1>4 DEF View!SetProp

LEMMA IostatAddView ==
    ASSUME IInv, ~ ClockStepsBack, NEW name \in Pools, NEW s \in Stats,
           zfsmon_db_zpool_iostat_add(name, s)
    PROVE  View!SaveIostat(name, s)
  <1>1. ValidPools' = ValidPools \cup {name}
    BY AddValid DEF zfsmon_db_zpool_iostat_add
  <1>2. \A p \in Pools, q \in Props : PropValue(p, q)' = PropValue(p, q)
    BY PropsUnchanged
  <1>3. \A p \in Pools : p # name =>
            CurrSample(p)' = CurrSample(p) /\ PrevSample(p)' = PrevSample(p)
    BY SaveOthers, SameRowsSameSamples
  <1>4. /\ CurrSample(name)' = [time |-> now, iostat |-> s]
        /\ PrevSample(name)' =
             IF CurrSample(name) # None /\ CurrSample(name).time = now
             THEN PrevSample(name) ELSE CurrSample(name)
    BY SaveSamples
  <1>5. now' = now
    BY DEF zfsmon_db_zpool_iostat_add
  <1> QED BY <1>1, <1>2, <1>3, <1>4, <1>5 DEF View!SaveIostat, View!SavedInThisSecond

LEMMA TickView ==
    ASSUME IInv, Tick
    PROVE  View!Tick
  <1>1. ValidPools' = ValidPools
    BY DEF Tick, ValidPools
  <1>2. \A p \in Pools, q \in Props : PropValue(p, q)' = PropValue(p, q)
    BY PropsUnchanged DEF Tick
  <1>3. \A p \in Pools : CurrSample(p)' = CurrSample(p) /\ PrevSample(p)' = PrevSample(p)
    BY IostatUnchanged, SameRowsSameSamples DEF Tick
  <1>4. now' \in Nat /\ now' > now
    BY StoreConstants DEF Tick, IInv, TypeOK
  <1> QED BY <1>1, <1>2, <1>3, <1>4 DEF View!Tick

LEMMA StutterView ==
    ASSUME IInv, UNCHANGED vars
    PROVE  UNCHANGED View!vars
  BY DEF vars, View!vars, ValidPools, PropValue, PropRows, CurrSample, PrevSample,
         IostatRows, FirstSample, Newest, zfsmon_db_zpool_get_id

LEMMA NextView ==
    ASSUME ~ ClockStepsBack
    PROVE  IInv /\ [Next]_vars => [View!Next]_(View!vars)
  <1> SUFFICES ASSUME IInv, [Next]_vars PROVE [View!Next]_(View!vars)
    OBVIOUS
  <1>1. ASSUME NEW p \in Pools, zpool_add(p) PROVE View!Next
    BY <1>1, AddView DEF View!Next
  <1>2. CASE zfsmon_db_zpool_invalidate_all
    BY <1>2, InvalidateView DEF View!Next
  <1>3. ASSUME NEW p \in Pools, NEW q \in Props, NEW v \in Values,
               zfsmon_db_zpool_prop_add(p, q, v)
        PROVE  View!Next
    BY <1>3, PropAddView DEF View!Next
  <1>4. ASSUME NEW p \in Pools, NEW q \in Props, zfsmon_db_zpool_prop_get(p, q)
        PROVE  View!Next
    BY <1>4, AddView DEF View!Next, zfsmon_db_zpool_prop_get
  <1>5. ASSUME NEW p \in Pools, NEW s \in Stats, zfsmon_db_zpool_iostat_add(p, s)
        PROVE  View!Next
    BY <1>5, IostatAddView DEF View!Next
  <1>6. CASE Tick
    BY <1>6, TickView DEF View!Next
  <1>7. CASE SetClockBack
    BY <1>7 DEF SetClockBack
  <1>8. CASE UNCHANGED vars
    BY <1>8, StutterView
  <1> QED BY <1>1, <1>2, <1>3, <1>4, <1>5, <1>6, <1>7, <1>8 DEF Next

(***************************************************************************)
(* While the clock is not set back, the tables of zfsmon_sqlite.c          *)
(* implement the view by pool names.                                       *)
(***************************************************************************)
THEOREM StoreImplementsView ==
    ASSUME ~ ClockStepsBack PROVE Spec => ImplementsView
  BY InitView, NextView, Invariance, PTL DEF Spec, ImplementsView, View!Spec
===============================================================================
