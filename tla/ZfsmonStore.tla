----------------------------- MODULE ZfsmonStore ------------------------------
(***************************************************************************)
(* The SQLite store of libzfsmon: src/src/zfsmon_sqlite.c.                 *)
(*                                                                         *)
(* A table is a set of rows, a row a record of its columns.  One action is *)
(* one zfsmon_db_* call, all its SQL statements included.  The COMMIT at   *)
(* the end of the writers is outside any transaction (each statement has   *)
(* committed itself) and changes nothing.  zpool_devices_t is created and  *)
(* never used; zpool_t.timestamp is written and never read: both are left  *)
(* out.                                                                    *)
(*                                                                         *)
(* SQLite takes an id from sqlite_sequence even for an ignored INSERT, so  *)
(* real ids have gaps.  Ids are only compared for equality: here the ids   *)
(* of inserted rows are consecutive.                                       *)
(***************************************************************************)
EXTENDS Naturals

CONSTANTS
    Pools, Props, Values, Stats,    \* see ZfsmonView
    None,
    MaxTime,        \* bound: the wall clock stops at this second
    ClockStepsBack  \* may the wall clock be set back?

VARIABLES
    zpool_t,        \* rows [id, name, valid]
    zpool_props_t,  \* rows [zpool_id, name, value]
    zpool_iostat_t, \* rows [zpool_id, timestamp, iostat]
    seq,            \* sqlite_sequence of zpool_t: the last AUTOINCREMENT id
    now             \* strftime('%s', 'now')

vars == <<zpool_t, zpool_props_t, zpool_iostat_t, seq, now>>

ASSUME StoreConstants ==
    /\ MaxTime \in Nat
    /\ ClockStepsBack \in BOOLEAN
    /\ None \notin Values
    /\ None \notin [time : Nat, iostat : Stats]

ZpoolRow  == [id : Nat \ {0}, name : Pools, valid : {0, 1}]
PropRow   == [zpool_id : Nat \ {0}, name : Props, value : Values]
IostatRow == [zpool_id : Nat \ {0}, timestamp : Nat, iostat : Stats]

TypeOK ==
    /\ zpool_t \subseteq ZpoolRow
    /\ zpool_props_t \subseteq PropRow
    /\ zpool_iostat_t \subseteq IostatRow
    /\ seq \in Nat
    /\ now \in 0..MaxTime

zfsmon_db_init ==
    /\ zpool_t = {}
    /\ zpool_props_t = {}
    /\ zpool_iostat_t = {}
    /\ seq = 0

Init == zfsmon_db_init /\ now = 0

-------------------------------------------------------------------------------
(***************************************************************************)
(* Queries.                                                                *)
(***************************************************************************)
zfsmon_db_zpool_get_id(name) ==
    IF \E r \in zpool_t : r.name = name
    THEN (CHOOSE r \in zpool_t : r.name = name).id
    ELSE 0

(* The names SELECTed by zfsmon_db_zpool_get, before ORDER BY and the cap. *)
ValidPools == {r.name : r \in {z \in zpool_t : z.valid = 1}}

(* The SELECT of zfsmon_db_zpool_prop_get; None is the cleared buffer. *)
PropRows(id, prop) == {r \in zpool_props_t : r.zpool_id = id /\ r.name = prop}

PropValue(name, prop) ==
    LET rows == PropRows(zfsmon_db_zpool_get_id(name), prop)
    IN  IF rows = {} THEN None ELSE (CHOOSE r \in rows : TRUE).value

(* The first row of "ORDER BY timestamp DESC". *)
Newest(rows) == CHOOSE r \in rows : \A s \in rows : s.timestamp <= r.timestamp

IostatRows(id) == {r \in zpool_iostat_t : r.zpool_id = id}

(* The first and the second row zfsmon_db_zpool_iostat_get steps to; None  *)
(* is the cleared structure.                                               *)
FirstSample(rows) ==
    IF rows = {} THEN None
    ELSE [time |-> Newest(rows).timestamp, iostat |-> Newest(rows).iostat]

CurrSample(name) == FirstSample(IostatRows(zfsmon_db_zpool_get_id(name)))

PrevSample(name) ==
    LET rows == IostatRows(zfsmon_db_zpool_get_id(name))
    IN  IF rows = {} THEN None ELSE FirstSample(rows \ {Newest(rows)})

-------------------------------------------------------------------------------
(***************************************************************************)
(* Updates.  zfsmon_db_zpool_add is a part of three more calls, so it      *)
(* constrains only its own table.                                          *)
(***************************************************************************)

(* INSERT OR IGNORE: a pool already known keeps its row. *)
InsertOrIgnore(name) ==
    IF \E r \in zpool_t : r.name = name
    THEN zpool_t
    ELSE zpool_t \cup {[id |-> seq + 1, name |-> name, valid |-> None]}

(* Mutants: no UPDATE after the INSERT; INSERT OR REPLACE. *)
zpool_add_without_update(name) ==
    /\ zpool_t' = InsertOrIgnore(name)
    /\ seq' = IF \E r \in zpool_t : r.name = name THEN seq ELSE seq + 1

zpool_add_replacing(name) ==
    /\ zpool_t' = {r \in zpool_t : r.name # name} \cup
                        {[id |-> seq + 1, name |-> name, valid |-> 1]}
    /\ seq' = seq + 1

zfsmon_db_zpool_add(name) ==
    /\ zpool_t' = {IF r.name = name THEN [r EXCEPT !.valid = 1] ELSE r :
                        r \in InsertOrIgnore(name)}
    /\ seq' = IF \E r \in zpool_t : r.name = name THEN seq ELSE seq + 1

zpool_add(name) ==
    /\ zfsmon_db_zpool_add(name)
    /\ UNCHANGED <<zpool_props_t, zpool_iostat_t, now>>

zfsmon_db_zpool_invalidate_all ==
    /\ zpool_t' = {[r EXCEPT !.valid = 0] : r \in zpool_t}
    /\ UNCHANGED <<zpool_props_t, zpool_iostat_t, seq, now>>

(* Mutant: the id is looked up before the pool is registered, so that the  *)
(* row of a new pool has an id of no pool.                                 *)
prop_add_looking_up_first(name, prop, value) ==
    /\ zfsmon_db_zpool_add(name)
    /\ LET p_id == zfsmon_db_zpool_get_id(name)
       IN  zpool_props_t' = (zpool_props_t \ PropRows(p_id, prop)) \cup
                {[zpool_id |-> p_id, name |-> prop, value |-> value]}
    /\ UNCHANGED <<zpool_iostat_t, now>>

(* INSERT OR REPLACE under UNIQUE (zpool_id, name). *)
zfsmon_db_zpool_prop_add(name, prop, value) ==
    /\ zfsmon_db_zpool_add(name)
    /\ LET p_id == zfsmon_db_zpool_get_id(name)'
       IN  zpool_props_t' = (zpool_props_t \ PropRows(p_id, prop)) \cup
                {[zpool_id |-> p_id, name |-> prop, value |-> value]}
    /\ UNCHANGED <<zpool_iostat_t, now>>

(* Reading a property registers the pool first, as writing one does. *)
zfsmon_db_zpool_prop_get(name, prop) == zpool_add(name)

(* INSERT OR REPLACE under UNIQUE (zpool_id, timestamp). *)
UpsertIostat(p_id, s) ==
    {r \in zpool_iostat_t : ~ (r.zpool_id = p_id /\ r.timestamp = now)} \cup
        {[zpool_id |-> p_id, timestamp |-> now, iostat |-> s]}

(* Mutants: LIMIT 1; LIMIT 3; ORDER BY timestamp ASC. *)
TrimToOne(rows, p_id) ==
    {r \in rows : ~ /\ r.zpool_id = p_id
                    /\ \E a \in rows : a.zpool_id = p_id /\ r.timestamp < a.timestamp}

TrimToThree(rows, p_id) ==
    {r \in rows : ~ /\ r.zpool_id = p_id
                    /\ \E a, b, c \in rows :
                        /\ {a.zpool_id, b.zpool_id, c.zpool_id} = {p_id}
                        /\ r.timestamp < a.timestamp
                        /\ a.timestamp < b.timestamp
                        /\ b.timestamp < c.timestamp}

TrimNewest(rows, p_id) ==
    {r \in rows : ~ /\ r.zpool_id = p_id
                    /\ \E a, b \in rows :
                        /\ a.zpool_id = p_id /\ b.zpool_id = p_id
                        /\ a.timestamp < b.timestamp
                        /\ b.timestamp < r.timestamp}

(* DELETE ... timestamp NOT IN (SELECT ... DESC LIMIT 2): a row goes when  *)
(* two of its pool's rows are newer.                                       *)
Trim(rows, p_id) ==
    {r \in rows : ~ /\ r.zpool_id = p_id
                    /\ \E a, b \in rows :
                        /\ a.zpool_id = p_id /\ b.zpool_id = p_id
                        /\ r.timestamp < a.timestamp
                        /\ a.timestamp < b.timestamp}

zfsmon_db_zpool_iostat_add(name, s) ==
    /\ zfsmon_db_zpool_add(name)
    /\ LET p_id == zfsmon_db_zpool_get_id(name)'
       IN  zpool_iostat_t' = Trim(UpsertIostat(p_id, s), p_id)
    /\ UNCHANGED <<zpool_props_t, now>>

(***************************************************************************)
(* The wall clock.                                                         *)
(***************************************************************************)
Tick ==
    /\ now < MaxTime
    /\ now' = now + 1
    /\ UNCHANGED <<zpool_t, zpool_props_t, zpool_iostat_t, seq>>

SetClockBack ==
    /\ ClockStepsBack
    /\ \E t \in 0..MaxTime : t < now /\ now' = t
    /\ UNCHANGED <<zpool_t, zpool_props_t, zpool_iostat_t, seq>>

Next ==
    \/ \E p \in Pools : zpool_add(p)
    \/ zfsmon_db_zpool_invalidate_all
    \/ \E p \in Pools, q \in Props, v \in Values : zfsmon_db_zpool_prop_add(p, q, v)
    \/ \E p \in Pools, q \in Props : zfsmon_db_zpool_prop_get(p, q)
    \/ \E p \in Pools, s \in Stats : zfsmon_db_zpool_iostat_add(p, s)
    \/ Tick
    \/ SetClockBack

Spec == Init /\ [][Next]_vars

-------------------------------------------------------------------------------
(***************************************************************************)
(* Properties.                                                             *)
(***************************************************************************)

(* A pool name has one id for ever and an id one pool: the UNIQUE clauses  *)
(* of zpool_t, and no id handed out twice (zfsmon_db_zpool_add).           *)
IdsUnique ==
    /\ \A r, s \in zpool_t : r.id = s.id \/ r.name = s.name => r = s
    /\ \A r \in zpool_t : r.id <= seq

(* Every property and sample row belongs to a known pool.  Were it not so, *)
(* FOREIGN KEY would reject the INSERT, and as no caller looks at what     *)
(* sqlite3_step returns, the write would be lost without a trace.          *)
RowsOwned ==
    /\ \A r \in zpool_props_t  : \E z \in zpool_t : z.id = r.zpool_id
    /\ \A r \in zpool_iostat_t : \E z \in zpool_t : z.id = r.zpool_id

(* The other two UNIQUE clauses: one value of a property, one sample of a  *)
(* second.  The queries that take "the" row rely on it.                    *)
KeysUnique ==
    /\ \A r, s \in zpool_props_t :
        r.zpool_id = s.zpool_id /\ r.name = s.name => r = s
    /\ \A r, s \in zpool_iostat_t :
        r.zpool_id = s.zpool_id /\ r.timestamp = s.timestamp => r = s

(* The trim in zfsmon_db_zpool_iostat_add bounds the store: whatever the   *)
(* clock does, no pool ever keeps three samples.                           *)
IostatBounded ==
    \A a, b, c \in zpool_iostat_t :
        a.zpool_id = b.zpool_id /\ b.zpool_id = c.zpool_id
            => ~ (a.timestamp < b.timestamp /\ b.timestamp < c.timestamp)

(* While the clock only advances no row is stamped with a later second.    *)
NotFromTheFuture ==
    ~ ClockStepsBack => \A r \in zpool_iostat_t : r.timestamp <= now

(* The inductive invariant.                                                *)
IInv ==
    /\ TypeOK
    /\ IdsUnique
    /\ RowsOwned
    /\ KeysUnique
    /\ IostatBounded
    /\ NotFromTheFuture

(* A stored property value changes only when that property of that pool is *)
(* set: no re-registration, invalidation, read or sample of any pool, and  *)
(* no clock step, makes it disappear or hands it to another pool.  It is   *)
(* why zfsmon_db_zpool_add must not replace the row ("be careful not to    *)
(* remove", src/src/zfsmon_sqlite.c:91): ON DELETE CASCADE would take the  *)
(* pool's properties and samples along.                                    *)
PropsChangeOnlyWhenSet ==
    [][\A p \in Pools, q \in Props :
        PropValue(p, q)' # PropValue(p, q)
            => \E v \in Values : /\ zfsmon_db_zpool_prop_add(p, q, v)
                                 /\ PropValue(p, q)' = v]_vars

(* zfsmon_db_zpool_iostat_add followed by zfsmon_db_zpool_iostat_get       *)
(* returns the sample just saved, "current iostat values"                  *)
(* (src/src/zpool_iostat.h:10).                                            *)
SavedSampleIsCurrent ==
    [][\A p \in Pools, s \in Stats :
        zfsmon_db_zpool_iostat_add(p, s)
            => CurrSample(p)' = [time |-> now, iostat |-> s]]_vars

(* The store implements the view its callers have of it.                   *)
View == INSTANCE ZfsmonView WITH
    valid <- ValidPools,
    props <- [p \in Pools |-> [q \in Props |-> PropValue(p, q)]],
    curr  <- [p \in Pools |-> CurrSample(p)],
    prev  <- [p \in Pools |-> PrevSample(p)]

ImplementsView == View!Spec
===============================================================================
