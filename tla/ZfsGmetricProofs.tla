--------------------------- MODULE ZfsGmetricProofs ---------------------------
(***************************************************************************)
(* Proofs about ZfsGmetric: the rates, the file and the reports of the     *)
(* script, for any pools, speeds, times, kills, errors and setbacks.       *)
(***************************************************************************)
EXTENDS ZfsGmetric, TLAPS

USE DEF mishaps

-------------------------------------------------------------------------------
(***************************************************************************)
(* The inductive invariant.                                                *)
(***************************************************************************)

(* If the counter a was read when it is stamped, and the clock has only    *)
(* gone forward from a to b, then b's counter is as much larger as the     *)
(* pool could make it, or smaller.                                         *)
Before(a, b) ==
    /\ a.setback <= b.setback
    /\ a.setback = b.setback /\ a.prompt =>
        /\ a.timestamp <= b.timestamp
        /\ b.bytes - a.bytes <= Peak * (b.timestamp - a.timestamp)

Now(p) == [timestamp |-> time, bytes |-> io[p], setback |-> setbacks, prompt |-> TRUE]

(* What the script may take for the last entry of a pool, an absent one    *)
(* included, is from before now.                                           *)
EntriesInv == \A p \in Pools : Before(NoIostat, Now(p)) /\ Before(load_iostat(p), Now(p))

(* So are the two entries it computes a rate of, until they are compared.  *)
RoundInv ==
    /\ pc = "read" => /\ zpool_name \in Pools
                      /\ curr_iostat.prompt
                      /\ Before(old_iostat, curr_iostat)
                      /\ Before(curr_iostat, Now(zpool_name))
    /\ pc = "saved" => /\ zpool_name \in Pools
                       /\ Before(old_iostat, curr_iostat)

(* The pools of the glob are visited or yet to visit; the file has an      *)
(* entry of this run of those that were visited, could be read and have    *)
(* stayed, and after clean_iostat none of pools that were not visited.     *)
InLoop == pc \in {"iostat", "read", "saved"}

FileInv ==
    /\ stayed \subseteq imported
    /\ stored \subseteq listed
    /\ \A p \in stored : iodb[p] # None
    /\ InLoop => /\ todo \cup iostat_zpools = listed
                 /\ stored \subseteq iostat_zpools
                 /\ pc = "read" => zpool_name \in iostat_zpools
                 /\ \A p \in iostat_zpools \cap stayed :
                        p \in stored \/ p \in unread \/ (pc = "read" /\ p = zpool_name)
    /\ pc \in {"props", "wait"} => /\ stayed \ unread \subseteq stored
                                   /\ \A p \in Pools : iodb[p] # None => p \in listed

(* Only a run that was killed leaves gmetric processes behind.             *)
ReportsInv == kills = 0 => \A r \in gmetric_pids : ~ r.left

IInv ==
    /\ TypeOK
    /\ EntriesInv
    /\ RoundInv
    /\ FileInv
    /\ ReportsInv

-------------------------------------------------------------------------------
(***************************************************************************)
(* Entries and the time between them.                                      *)
(***************************************************************************)
Entries == [timestamp : Nat, bytes : Nat, setback : Nat, prompt : BOOLEAN]

LEMMA Distance ==
    ASSUME NEW x \in Int, NEW y \in Int, NEW z \in Int, NEW n \in Nat
    PROVE  /\ n * (x - y) + n * (y - z) = n * (x - z)
           /\ n * (x - x) = 0
           /\ y <= x => 0 <= n * (x - y)
           /\ n * (x - y) \in Int
  OBVIOUS

LEMMA BeforeTransitive ==
    ASSUME NEW a \in Entries, NEW b \in Entries, NEW c \in Entries,
           Before(a, b), Before(b, c), b.prompt
    PROVE  Before(a, c)
  <1>1. /\ a.timestamp \in Nat /\ a.bytes \in Nat /\ a.setback \in Nat
        /\ b.timestamp \in Nat /\ b.bytes \in Nat /\ b.setback \in Nat
        /\ c.timestamp \in Nat /\ c.bytes \in Nat /\ c.setback \in Nat
    BY DEF Entries
  <1>2. a.setback <= b.setback /\ b.setback <= c.setback
    BY DEF Before
  <1>3. ASSUME a.setback = c.setback, a.prompt
        PROVE  /\ a.timestamp <= c.timestamp
               /\ c.bytes - a.bytes <= Peak * (c.timestamp - a.timestamp)
    <2>1. a.setback = b.setback /\ b.setback = c.setback
      BY <1>1, <1>2, <1>3
    <2>2. /\ a.timestamp <= b.timestamp /\ b.timestamp <= c.timestamp
          /\ b.bytes - a.bytes <= Peak * (b.timestamp - a.timestamp)
          /\ c.bytes - b.bytes <= Peak * (c.timestamp - b.timestamp)
      BY <1>3, <2>1 DEF Before
    <2>3. /\ Peak * (c.timestamp - b.timestamp) + Peak * (b.timestamp - a.timestamp)
              = Peak * (c.timestamp - a.timestamp)
          /\ Peak * (c.timestamp - b.timestamp) \in Int
          /\ Peak * (b.timestamp - a.timestamp) \in Int
      BY <1>1, Distance, GmetricConstants
    <2> QED BY <1>1, <2>2, <2>3
  <1> QED BY <1>1, <1>2, <1>3 DEF Before

(* The time stamp an entry is saved with is that of now.                   *)
LEMMA Stamped ==
    ASSUME NEW a \in Entries, NEW b \in Entries, NEW p \in Pools, NEW s \in Entries,
           TypeOK, Before(a, b), Before(b, Now(p)), b.prompt,
           s.bytes = b.bytes, s.timestamp = time, s.setback = setbacks,
           s.prompt => b.timestamp = time /\ b.setback = setbacks
    PROVE  Before(a, s) /\ Before(s, Now(p))
  <1>1. /\ b.timestamp \in Nat /\ b.bytes \in Nat /\ b.setback \in Nat
        /\ time \in Nat /\ setbacks \in Nat /\ io[p] \in Nat
    BY GmetricConstants DEF Entries, TypeOK
  <1>2. /\ b.setback <= setbacks
        /\ b.setback = setbacks => /\ b.timestamp <= time
                                   /\ io[p] - b.bytes <= Peak * (time - b.timestamp)
    BY DEF Before, Now
  <1>3. Before(b, s)
    <2>1. b.setback = setbacks => 0 <= Peak * (time - b.timestamp)
      BY <1>1, <1>2, Distance, GmetricConstants
    <2>2. b.bytes - b.bytes = 0
      BY <1>1
    <2> QED BY <1>2, <2>1, <2>2 DEF Before
  <1>4. Before(a, s)
    BY <1>3, BeforeTransitive
  <1>5. Before(s, Now(p))
    <2>1. s.setback <= Now(p).setback /\ s.timestamp <= Now(p).timestamp
      BY <1>1 DEF Now
    <2>2. s.prompt => io[p] - s.bytes <= Peak * (time - s.timestamp)
      BY <1>1, <1>2
    <2> QED BY <2>1, <2>2 DEF Before, Now
  <1> QED BY <1>4, <1>5

LEMMA QuotientBounded ==
    ASSUME NEW x \in Int, NEW n \in Nat, NEW y \in Nat, n > 0, x > 0, x <= y * n
    PROVE  x \div n <= y
  <1> DEFINE q == x \div n
  <1>1. q \in Int /\ n * q <= x
    OBVIOUS
  <1> HIDE DEF q
  <1> SUFFICES ASSUME q >= y + 1 PROVE FALSE
    BY <1>1 DEF q
  <1>2. n * q >= n * (y + 1)
    BY <1>1
  <1>3. n * (y + 1) = y * n + n
    OBVIOUS
  <1> QED BY <1>1, <1>2, <1>3

(* A rate of two such entries is one the pool could have.                  *)
LEMMA RateOfEntries ==
    ASSUME TypeOK, Before(old_iostat, curr_iostat),
           old_iostat.setback = curr_iostat.setback, old_iostat.prompt
    PROVE  rd_bw <= Peak
  <1> DEFINE d == curr_iostat.timestamp - old_iostat.timestamp
             moved == curr_iostat.bytes - old_iostat.bytes
  <1>1. d \in Nat /\ moved \in Int /\ moved <= Peak * d /\ Peak \in Nat
    BY GmetricConstants DEF TypeOK, Iostat, Before
  <1>2. time_diff = IF d = 0 THEN 1 ELSE d
    BY DEF time_diff
  <1>3. rd_bw = CASE moved > 0 /\ time_diff > 0 -> moved \div time_diff
                  [] moved < 0 /\ time_diff < 0 -> (- moved) \div (- time_diff)
                  [] OTHER -> 0
    BY DEF rd_bw
  <1> HIDE DEF d, moved
  <1>4. CASE d = 0
    <2>1. moved <= 0 /\ time_diff = 1
      BY <1>1, <1>2, <1>4
    <2> QED BY <1>1, <1>3, <2>1
  <1>5. CASE d > 0
    <2>1. time_diff = d
      BY <1>2, <1>5
    <2>2. CASE moved > 0
      <3>1. rd_bw = moved \div d
        BY <1>1, <1>3, <1>5, <2>1, <2>2
      <3>2. moved \div d <= Peak
        BY <1>1, <1>5, <2>2, QuotientBounded
      <3> QED BY <3>1, <3>2
    <2>3. CASE moved <= 0
      BY <1>1, <1>3, <1>5, <2>1, <2>3
    <2> QED BY <1>1, <2>2, <2>3
  <1> QED BY <1>1, <1>4, <1>5

-------------------------------------------------------------------------------
(***************************************************************************)
(* The kernel, the clock and the gmetric processes.                        *)
(***************************************************************************)
LEMMA TypesOfEntries ==
    ASSUME TypeOK, NEW p \in Pools
    PROVE  /\ NoIostat \in Iostat /\ load_iostat(p) \in Iostat
           /\ Now(p) \in Entries /\ Now(p) \in Iostat /\ Now(p).prompt
           /\ Iostat \subseteq Entries
  <1>1. NoIostat \in Iostat
    BY GmetricConstants DEF NoIostat, Iostat
  <1>2. load_iostat(p) \in Iostat
    BY <1>1 DEF load_iostat, TypeOK, Saved
  <1>3. Now(p) \in Iostat /\ Now(p).prompt
    BY GmetricConstants DEF TypeOK, Now, Iostat
  <1>4. Iostat \subseteq Entries
    BY GmetricConstants DEF Iostat, Entries
  <1> QED BY <1>1, <1>2, <1>3, <1>4

LEMMA InitIInv == Init => IInv
  <1> SUFFICES ASSUME Init PROVE IInv
    OBVIOUS
  <1> USE DEF Init
  <1>1. TypeOK
    <2>1. NoIostat \in Iostat
      BY GmetricConstants DEF NoIostat, Iostat
    <2>2. io \in [Pools -> Nat]
      <3>1. PICK moved \in [Pools -> 0..Peak] :
                io = [p \in Pools |-> IF p \in imported THEN moved[p] ELSE 0]
        OBVIOUS
      <3> QED BY <3>1, GmetricConstants
    <2> QED BY <2>1, <2>2, GmetricConstants DEF TypeOK
  <1>2. ASSUME NEW p \in Pools PROVE Before(NoIostat, Now(p)) /\ load_iostat(p) = NoIostat
    <2>1. io[p] \in 0..Peak
      <3>1. PICK moved \in [Pools -> 0..Peak] :
                io = [q \in Pools |-> IF q \in imported THEN moved[q] ELSE 0]
        OBVIOUS
      <3> QED BY <3>1, GmetricConstants
    <2>2. Before(NoIostat, Now(p))
      BY <2>1, GmetricConstants DEF Before, Now, NoIostat
    <2> QED BY <2>2 DEF load_iostat
  <1>3. EntriesInv
    BY <1>2 DEF EntriesInv
  <1>4. RoundInv /\ FileInv /\ ReportsInv
    BY DEF RoundInv, FileInv, InLoop, ReportsInv
  <1> QED BY <1>1, <1>3, <1>4 DEF IInv

(* The kernel and the clock move on: what was before now still is.         *)
LEMMA EnvironmentEntries ==
    ASSUME IInv, UNCHANGED <<iodb, pc, zpool_name, old_iostat, curr_iostat>>,
           TypeOK', \A p \in Pools : Before(Now(p), Now(p)')
    PROVE  EntriesInv' /\ RoundInv'
  <1>1. ASSUME NEW p \in Pools
        PROVE  Now(p) \in Entries /\ Now(p)' \in Entries /\ Now(p).prompt
    <2>1. Now(p) \in Entries /\ Now(p).prompt
      BY TypesOfEntries DEF IInv
    <2>2. Now(p)' \in Entries
      BY GmetricConstants DEF TypeOK, Now, Entries
    <2> QED BY <2>1, <2>2
  <1>2. ASSUME NEW p \in Pools, NEW a \in Iostat, Before(a, Now(p)) PROVE Before(a, Now(p)')
    <2>1. a \in Entries
      BY TypesOfEntries DEF IInv
    <2> QED BY <1>1, <1>2, <2>1, BeforeTransitive
  <1>3. EntriesInv'
    <2> SUFFICES ASSUME NEW p \in Pools
                 PROVE  Before(NoIostat, Now(p)') /\ Before(load_iostat(p), Now(p)')
      BY DEF EntriesInv, load_iostat
    <2>1. NoIostat \in Iostat /\ load_iostat(p) \in Iostat
      BY TypesOfEntries DEF IInv
    <2> QED BY <1>2, <2>1 DEF IInv, EntriesInv
  <1>4. RoundInv'
    <2>1. CASE pc = "read"
      <3>1. PICK p \in Pools : p = zpool_name
        BY <2>1 DEF IInv, RoundInv
      <3>2. Before(curr_iostat, Now(p)')
        BY <1>2, <2>1, <3>1 DEF IInv, RoundInv, TypeOK
      <3>3. Now(p)' = Now(zpool_name)'
        BY <3>1 DEF Now
      <3>4. Before(curr_iostat, Now(zpool_name))'
        BY <3>2, <3>3 DEF Before
      <3> QED BY <2>1, <3>1, <3>4 DEF IInv, RoundInv, Before
    <2>2. CASE pc = "saved"
      BY <2>2 DEF IInv, RoundInv
    <2>3. CASE pc \notin {"read", "saved"}
      BY <2>3 DEF RoundInv
    <2> QED BY <2>1, <2>2, <2>3
  <1> QED BY <1>3, <1>4

LEMMA FileKept ==
    ASSUME FileInv, UNCHANGED <<iodb, pc, todo, iostat_zpools, zpool_name, listed, stored, unread>>,
           stayed' \subseteq stayed, stayed' \subseteq imported'
    PROVE  FileInv'
  BY DEF FileInv, InLoop

LEMMA PoolsIInv ==
    ASSUME IInv, NEW p \in Pools, Import(p) \/ Export(p)
    PROVE  IInv'
  <1>1. UNCHANGED <<time, mishaps, setbacks, iodb, pc, local, gmetric_pids, listed, stored,
                  unread>>
    BY DEF Import, Export, history
  <1>2. /\ imported' \subseteq Pools /\ io' \in [Pools -> Nat]
        /\ \A q \in Pools : io'[q] <= io[q]
        /\ stayed' \subseteq stayed /\ stayed' \subseteq imported'
    <2>1. CASE Import(p)
      BY <2>1 DEF Import, IInv, TypeOK, FileInv, history
    <2>2. CASE Export(p)
      <3>1. io' \in [Pools -> Nat] /\ \A q \in Pools : io'[q] <= io[q]
        BY <2>2 DEF Export, IInv, TypeOK
      <3> QED BY <2>2, <3>1 DEF Export, IInv, TypeOK, FileInv
    <2> QED BY <2>1, <2>2
  <1>3. TypeOK'
    BY <1>1, <1>2 DEF IInv, TypeOK, local
  <1>4. ASSUME NEW q \in Pools PROVE Before(Now(q), Now(q)')
    <2>1. time \in Nat /\ time' = time /\ setbacks' = setbacks
      BY <1>1, GmetricConstants DEF IInv, TypeOK
    <2>2. io[q] \in Nat /\ io'[q] \in Nat /\ io'[q] - io[q] <= 0
      BY <1>2 DEF IInv, TypeOK
    <2>3. Peak * (time - time) = 0
      BY <2>1, Distance, GmetricConstants
    <2>4. setbacks \in Nat
      BY GmetricConstants DEF IInv, TypeOK
    <2> QED BY <2>1, <2>2, <2>3, <2>4 DEF Before, Now
  <1>5. EntriesInv' /\ RoundInv'
    BY <1>1, <1>3, <1>4, EnvironmentEntries DEF local
  <1>6. FileInv' /\ ReportsInv'
    BY <1>1, <1>2, FileKept DEF IInv, ReportsInv, local
  <1> QED BY <1>3, <1>5, <1>6 DEF IInv

LEMMA WorkIInv ==
    ASSUME IInv, NEW moved \in [Pools -> 0..Peak], Work(moved)
    PROVE  IInv'
  <1>1. /\ UNCHANGED <<imported, mishaps, setbacks, iodb, pc, local, gmetric_pids, history>>
        /\ time < MaxTime /\ time' = time + 1
    BY DEF Work
  <1>2. time \in Nat /\ time' \in 1..MaxTime
    <2>1. time \in 1..MaxTime /\ MaxTime \in Nat
      BY GmetricConstants DEF IInv, TypeOK
    <2> QED BY <1>1, <2>1
  <1>3. /\ io' \in [Pools -> Nat]
        /\ \A q \in Pools : io[q] \in Nat /\ io'[q] \in io[q]..(io[q] + Peak)
    <2>1. \A q \in Pools : io[q] \in Nat /\ moved[q] \in 0..Peak /\ Peak \in Nat
      BY GmetricConstants DEF IInv, TypeOK
    <2>2. io' = [p \in Pools |-> IF p \in imported THEN io[p] + moved[p] ELSE io[p]]
      BY DEF Work
    <2> QED BY <2>1, <2>2
  <1>4. TypeOK'
    BY <1>1, <1>2, <1>3 DEF IInv, TypeOK, local, history
  <1>5. ASSUME NEW q \in Pools PROVE Before(Now(q), Now(q)')
    <2>1. /\ io[q] \in Nat /\ io'[q] \in Nat /\ io'[q] - io[q] <= Peak /\ Peak \in Nat
          /\ setbacks \in Nat /\ setbacks' = setbacks
      BY <1>1, <1>3, GmetricConstants DEF IInv, TypeOK
    <2>2. Peak * (time' - time) = Peak
      BY <1>1, <1>2, <2>1
    <2> QED BY <1>1, <1>2, <2>1, <2>2 DEF Before, Now
  <1>6. EntriesInv' /\ RoundInv'
    BY <1>1, <1>4, <1>5, EnvironmentEntries DEF local
  <1>7. FileInv' /\ ReportsInv'
    <2>1. stayed' \subseteq imported'
      BY <1>1 DEF IInv, FileInv, history
    <2> QED BY <1>1, <2>1, FileKept DEF IInv, ReportsInv, local, history
  <1> QED BY <1>4, <1>6, <1>7 DEF IInv

LEMMA SetbackIInv ==
    ASSUME IInv, SetClockBack
    PROVE  IInv'
  <1>1. /\ UNCHANGED <<imported, io, mishaps, iodb, pc, local, gmetric_pids, history>>
        /\ setbacks' = setbacks + 1 /\ setbacks' \in 0..MaxSetbacks
        /\ time' \in 1..MaxTime /\ setbacks \in Nat
    BY GmetricConstants DEF SetClockBack, IInv, TypeOK
  <1>2. TypeOK'
    BY <1>1 DEF IInv, TypeOK, local, history
  <1>3. \A q \in Pools : Before(Now(q), Now(q)')
    BY <1>1 DEF Before, Now
  <1>4. EntriesInv' /\ RoundInv'
    BY <1>1, <1>2, <1>3, EnvironmentEntries DEF local
  <1>5. FileInv' /\ ReportsInv'
    <2>1. stayed' \subseteq imported'
      BY <1>1 DEF IInv, FileInv, history
    <2> QED BY <1>1, <2>1, FileKept DEF IInv, ReportsInv, local, history
  <1> QED BY <1>2, <1>4, <1>5 DEF IInv

(* Steps that leave the counters and the clock alone.                      *)
LEMMA ClockStands ==
    ASSUME UNCHANGED <<io, time, setbacks>>, NEW p \in Pools
    PROVE  Now(p)' = Now(p)
  BY DEF Now

LEMMA ExitsIInv ==
    ASSUME IInv, NEW r \in Reports, GmetricExits(r)
    PROVE  IInv'
  <1>1. /\ UNCHANGED <<env, mishaps, iodb, pc, local, history>>
        /\ gmetric_pids' \subseteq gmetric_pids
    BY DEF GmetricExits
  <1>2. TypeOK'
    BY <1>1 DEF IInv, TypeOK, env, local, history
  <1>3. EntriesInv' /\ RoundInv'
    BY <1>1 DEF IInv, EntriesInv, RoundInv, load_iostat, Now, Before, env, local
  <1>4. FileInv' /\ ReportsInv'
    BY <1>1 DEF IInv, FileInv, InLoop, ReportsInv, env, local, history
  <1> QED BY <1>2, <1>3, <1>4 DEF IInv

-------------------------------------------------------------------------------
(***************************************************************************)
(* The script.                                                             *)
(***************************************************************************)
LEMMA EntriesKept ==
    ASSUME EntriesInv, UNCHANGED env, \A p \in Pools : iodb'[p] \in {iodb[p], None}
    PROVE  EntriesInv'
  <1> SUFFICES ASSUME NEW p \in Pools
               PROVE  Before(NoIostat, Now(p)') /\ Before(load_iostat(p)', Now(p)')
    BY DEF EntriesInv
  <1>1. Now(p)' = Now(p)
    BY ClockStands DEF env
  <1>2. load_iostat(p)' \in {load_iostat(p), NoIostat}
    BY DEF load_iostat
  <1> QED BY <1>1, <1>2 DEF EntriesInv

LEMMA StartIInv ==
    ASSUME IInv, Start
    PROVE  IInv'
  <1> USE DEF Start, Goto, IInv, env
  <1>1. TypeOK'
    BY DEF TypeOK
  <1>2. EntriesInv'
    BY EntriesKept
  <1>3. RoundInv' /\ ReportsInv'
    BY DEF RoundInv, ReportsInv
  <1>4. FileInv'
    BY DEF FileInv, InLoop
  <1> QED BY <1>1, <1>2, <1>3, <1>4

LEMMA ReadIInv ==
    ASSUME IInv, NEW p \in Pools, read_io(p)
    PROVE  IInv'
  <1> USE DEF IInv
  <1>1. /\ UNCHANGED <<env, mishaps, iodb, gmetric_pids, history>>
        /\ pc = "iostat" /\ pc' = "read"
        /\ p \in todo /\ todo' = todo \ {p} /\ iostat_zpools' = iostat_zpools \cup {p}
        /\ zpool_name' = p /\ old_iostat' = load_iostat(p) /\ curr_iostat' = Now(p)
    BY DEF read_io, Goto, NextPool, Now
  <1>2. TypeOK'
    BY <1>1, TypesOfEntries DEF TypeOK, env, history
  <1>3. EntriesInv'
    BY <1>1, EntriesKept
  <1>4. RoundInv'
    <2>1. Now(p)' = Now(p)
      BY <1>1, ClockStands DEF env
    <2>2. Before(load_iostat(p), Now(p))
      BY DEF EntriesInv
    <2>3. Before(Now(p), Now(p)) /\ Now(p).prompt
      <3>1. io[p] \in Nat /\ time \in Nat /\ setbacks \in Nat
        BY GmetricConstants DEF TypeOK
      <3>2. Peak * (time - time) = 0
        BY <3>1, Distance, GmetricConstants
      <3> QED BY <3>1, <3>2 DEF Before, Now
    <2>4. Now(zpool_name)' = Now(p)
      BY <1>1, <2>1 DEF Now
    <2> QED BY <1>1, <2>2, <2>3, <2>4 DEF RoundInv, Before
  <1>5. FileInv' /\ ReportsInv'
    BY <1>1 DEF FileInv, InLoop, ReportsInv, env, history
  <1> QED BY <1>2, <1>3, <1>4, <1>5

LEMMA ReadFailsIInv ==
    ASSUME IInv, NEW p \in Pools, read_io_fails(p)
    PROVE  IInv'
  <1> USE DEF IInv
  <1>1. /\ UNCHANGED <<env, kills, iodb, zpool_name, old_iostat, curr_iostat, gmetric_pids,
                       listed, stayed, stored>>
        /\ pc = "iostat" /\ pc' = "iostat" /\ unread' = unread \cup {p}
        /\ p \in todo /\ todo' = todo \ {p} /\ iostat_zpools' = iostat_zpools \cup {p}
    BY DEF read_io_fails, Goto, NextPool
  <1>2. errors' \in 0..MaxErrors
    BY GmetricConstants DEF read_io_fails, TypeOK
  <1>3. TypeOK'
    BY <1>1, <1>2 DEF TypeOK, env
  <1>4. EntriesInv'
    BY <1>1, EntriesKept
  <1>5. RoundInv' /\ FileInv' /\ ReportsInv'
    BY <1>1 DEF RoundInv, FileInv, InLoop, ReportsInv, env
  <1> QED BY <1>3, <1>4, <1>5

LEMMA SaveIInv ==
    ASSUME IInv, save_iostat
    PROVE  IInv'
  <1> USE DEF IInv
  <1>1. PICK p \in Pools : p = zpool_name
    BY DEF save_iostat, Goto, RoundInv
  <1>2. /\ UNCHANGED <<env, mishaps, todo, iostat_zpools, zpool_name, old_iostat, gmetric_pids,
                       listed, stayed, unread>>
        /\ pc = "read" /\ pc' = "saved"
        /\ iodb' = [iodb EXCEPT ![p] = curr_iostat']
        /\ stored' = stored \cup {p}
    BY <1>1 DEF save_iostat, Goto
  <1>3. /\ curr_iostat' \in Iostat
        /\ curr_iostat'.bytes = curr_iostat.bytes
        /\ curr_iostat'.timestamp = time /\ curr_iostat'.setback = setbacks
        /\ curr_iostat'.prompt =>
              curr_iostat.timestamp = time /\ curr_iostat.setback = setbacks
    <2>1. curr_iostat' = [curr_iostat EXCEPT !.timestamp = time, !.setback = setbacks,
            !.prompt = curr_iostat.timestamp = time /\ curr_iostat.setback = setbacks]
      BY DEF save_iostat
    <2>2. /\ curr_iostat \in Iostat /\ time \in 0..MaxTime /\ setbacks \in 0..MaxSetbacks
          /\ (curr_iostat.timestamp = time /\ curr_iostat.setback = setbacks) \in BOOLEAN
      BY GmetricConstants DEF TypeOK
    <2>3. curr_iostat' \in Iostat
      BY <2>1, <2>2 DEF Iostat
    <2>4. /\ curr_iostat'.bytes = curr_iostat.bytes
          /\ curr_iostat'.timestamp = time /\ curr_iostat'.setback = setbacks
      BY <2>1, <2>2 DEF Iostat
    <2>5. curr_iostat'.prompt
            = (curr_iostat.timestamp = time /\ curr_iostat.setback = setbacks)
      BY <2>1, <2>2 DEF Iostat
    <2> QED BY <2>3, <2>4, <2>5
  <1>4. curr_iostat' \in Saved
    BY <1>3 DEF Saved, TypeOK
  <1>5. Before(old_iostat, curr_iostat') /\ Before(curr_iostat', Now(p))
    <2>1. Before(old_iostat, curr_iostat) /\ Before(curr_iostat, Now(p)) /\ curr_iostat.prompt
      BY <1>1, <1>2 DEF RoundInv
    <2>2. old_iostat \in Entries /\ curr_iostat \in Entries /\ curr_iostat' \in Entries
      BY <1>1, <1>3, TypesOfEntries DEF TypeOK
    <2> QED BY <1>3, <2>1, <2>2, Stamped
  <1>6. TypeOK'
    <2>1. iodb' \in [Pools -> Saved \cup {None}]
      BY <1>2, <1>4 DEF TypeOK
    <2> QED BY <1>2, <1>3, <2>1 DEF TypeOK, env
  <1>7. EntriesInv'
    <2> SUFFICES ASSUME NEW q \in Pools
                 PROVE  Before(NoIostat, Now(q)) /\ Before(load_iostat(q)', Now(q))
      BY <1>2, ClockStands DEF EntriesInv, env
    <2>1. CASE q = p
      <3>1. iodb'[q] = curr_iostat' /\ curr_iostat' # None
        BY <1>2, <1>3, <2>1, GmetricConstants DEF TypeOK
      <3>2. load_iostat(q)' = curr_iostat'
        BY <3>1 DEF load_iostat
      <3> QED BY <1>5, <2>1, <3>2 DEF EntriesInv
    <2>2. CASE q # p
      <3>1. iodb'[q] = iodb[q]
        BY <1>2, <2>2 DEF TypeOK
      <3>2. load_iostat(q)' = load_iostat(q)
        BY <3>1 DEF load_iostat
      <3> QED BY <3>2 DEF EntriesInv
    <2> QED BY <2>1, <2>2
  <1>8. RoundInv'
    <2>1. zpool_name' \in Pools /\ old_iostat' = old_iostat
      BY <1>1, <1>2
    <2> QED BY <1>2, <1>5, <2>1 DEF RoundInv, Before
  <1>9. FileInv'
    <2>1. \A q \in Pools : iodb[q] # None \/ q = p => iodb'[q] # None
      BY <1>2, <1>3, GmetricConstants DEF TypeOK
    <2>2. p \in listed /\ p \in iostat_zpools
      BY <1>1, <1>2 DEF FileInv, InLoop
    <2> QED BY <1>1, <1>2, <2>1, <2>2 DEF FileInv, InLoop, env, TypeOK
  <1>10. ReportsInv'
    BY <1>2 DEF ReportsInv
  <1> QED BY <1>6, <1>7, <1>8, <1>9, <1>10

LEMMA ReportIInv ==
    ASSUME IInv, report_iostat
    PROVE  IInv'
  <1> USE DEF IInv
  <1>1. /\ UNCHANGED <<env, mishaps, iodb, todo, iostat_zpools, history>>
        /\ pc = "saved" /\ pc' = "iostat"
        /\ zpool_name' = None /\ old_iostat' = NoIostat /\ curr_iostat' = NoIostat
        /\ gmetric_pids' = gmetric_pids \cup
              {[pool |-> zpool_name, metric |-> "iostat", left |-> FALSE]}
    BY DEF report_iostat, Goto, gmetric
  <1>2. [pool |-> zpool_name, metric |-> "iostat", left |-> FALSE] \in Reports
    BY <1>1 DEF RoundInv, Reports
  <1>3. NoIostat \in Iostat
    BY GmetricConstants DEF NoIostat, Iostat
  <1>4. TypeOK'
    BY <1>1, <1>2, <1>3 DEF TypeOK, env, history
  <1>5. EntriesInv'
    BY <1>1, EntriesKept
  <1>6. RoundInv' /\ FileInv'
    BY <1>1 DEF RoundInv, FileInv, InLoop, env, history
  <1>7. ReportsInv'
    <2>1. ~ [pool |-> zpool_name, metric |-> "iostat", left |-> FALSE].left
      OBVIOUS
    <2> QED BY <1>1, <2>1 DEF ReportsInv
  <1> QED BY <1>4, <1>5, <1>6, <1>7

LEMMA WithoutEntries ==
    ASSUME TypeOK, NEW ps \in SUBSET Pools, iodb' = Without(ps)
    PROVE  /\ iodb' \in [Pools -> Saved \cup {None}]
           /\ \A p \in Pools : iodb'[p] = IF p \in ps THEN None ELSE iodb[p]
  BY DEF TypeOK, Without

LEMMA CleanIInv ==
    ASSUME IInv, clean_iostat
    PROVE  IInv'
  <1> USE DEF IInv
  <1>1. /\ UNCHANGED <<env, mishaps, todo, zpool_name, old_iostat, curr_iostat, gmetric_pids,
                       history>>
        /\ pc = "iostat" /\ pc' = "props" /\ todo = {} /\ iostat_zpools' = {}
        /\ iodb' = Without(Vanished)
    BY DEF clean_iostat, Goto
  <1>2. /\ iodb' \in [Pools -> Saved \cup {None}]
        /\ \A p \in Pools : iodb'[p] = IF p \in Vanished THEN None ELSE iodb[p]
    BY <1>1, WithoutEntries DEF Vanished
  <1>3. TypeOK'
    BY <1>1, <1>2 DEF TypeOK, env, history
  <1>4. EntriesInv'
    BY <1>1, <1>2, EntriesKept
  <1>5. RoundInv' /\ ReportsInv'
    BY <1>1 DEF RoundInv, ReportsInv
  <1>6. FileInv'
    <2>1. iostat_zpools = listed /\ stored \subseteq iostat_zpools
      BY <1>1 DEF FileInv, InLoop
    <2>2. \A p \in stored : iodb'[p] # None
      BY <1>2, <2>1 DEF FileInv, TypeOK, Vanished
    <2>3. \A p \in Pools : iodb'[p] # None => p \in listed
      BY <1>2, <2>1 DEF Vanished
    <2>4. stayed \ unread \subseteq stored
      BY <1>1, <2>1 DEF FileInv, InLoop, TypeOK
    <2> QED BY <1>1, <2>1, <2>2, <2>3, <2>4 DEF FileInv, InLoop, env, history
  <1> QED BY <1>3, <1>4, <1>5, <1>6

LEMMA PropsIInv ==
    ASSUME IInv, report_props
    PROVE  IInv'
  <1> USE DEF IInv
  <1>1. /\ UNCHANGED <<env, mishaps, iodb, local, history>>
        /\ pc = "props" /\ pc' = "wait"
        /\ gmetric_pids' \subseteq gmetric_pids \cup
              [pool : imported, metric : {"prop"}, left : {FALSE}]
    BY DEF report_props, Goto
  <1>2. \A r \in [pool : imported, metric : {"prop"}, left : {FALSE}] :
            r \in Reports /\ ~ r.left
    BY DEF TypeOK, Reports
  <1>3. TypeOK'
    BY <1>1, <1>2 DEF TypeOK, env, local, history
  <1>4. EntriesInv'
    BY <1>1, EntriesKept
  <1>5. RoundInv' /\ FileInv'
    BY <1>1 DEF RoundInv, FileInv, InLoop, env, local, history
  <1>6. ReportsInv'
    BY <1>1, <1>2 DEF ReportsInv
  <1> QED BY <1>3, <1>4, <1>5, <1>6

LEMMA LeavesReports ==
    ASSUME gmetric_pids \subseteq Reports, Leave
    PROVE  gmetric_pids' \subseteq Reports
  BY DEF Leave, Reports

(* The end of a run: its variables are gone, its processes are left.       *)
LEMMA EndIInv ==
    ASSUME IInv, Forget, Leave, UNCHANGED <<env, errors>>, pc' = "idle",
           kills' \in 0..MaxKills, kills' # 0 \/ gmetric_pids = {},
           iodb' \in [Pools -> Saved \cup {None}],
           \A p \in Pools : iodb'[p] \in {iodb[p], None}
    PROVE  IInv'
  <1> USE DEF IInv
  <1>1. NoIostat \in Iostat
    BY GmetricConstants DEF NoIostat, Iostat
  <1>2. gmetric_pids' \subseteq Reports
    BY LeavesReports DEF TypeOK
  <1>3. TypeOK'
    BY <1>1, <1>2 DEF TypeOK, env, Forget
  <1>4. EntriesInv'
    BY EntriesKept
  <1>5. RoundInv' /\ FileInv'
    BY DEF RoundInv, FileInv, InLoop, Forget
  <1>6. ReportsInv'
    BY DEF ReportsInv, Leave
  <1> QED BY <1>3, <1>4, <1>5, <1>6

LEMMA WaitIInv ==
    ASSUME IInv, gmetric_wait
    PROVE  IInv'
  <1> USE DEF IInv
  <1>1. /\ Forget /\ Leave /\ UNCHANGED <<env, mishaps, iodb>>
        /\ pc' = "idle" /\ \A r \in gmetric_pids : r.left
    BY DEF gmetric_wait, Goto
  <1>2. kills # 0 \/ gmetric_pids = {}
    BY <1>1 DEF ReportsInv
  <1>3. kills' \in 0..MaxKills /\ iodb' \in [Pools -> Saved \cup {None}]
    BY <1>1 DEF TypeOK
  <1> QED BY <1>1, <1>2, <1>3, EndIInv

LEMMA KillIInv ==
    ASSUME IInv, Kill
    PROVE  IInv'
  <1> USE DEF IInv
  <1>1. /\ Forget /\ Leave /\ UNCHANGED <<env, errors>> /\ pc' = "idle"
        /\ kills < MaxKills /\ kills' = kills + 1
    BY DEF Kill
  <1>2. kills' \in 0..MaxKills /\ kills' # 0
    BY <1>1, GmetricConstants DEF TypeOK
  <1>3. /\ iodb' \in [Pools -> Saved \cup {None}]
        /\ \A p \in Pools : iodb'[p] \in {iodb[p], None}
    <2>1. CASE \E ps \in SUBSET Vanished : iodb' = Without(ps)
      <3>1. PICK ps \in SUBSET Pools : iodb' = Without(ps)
        BY <2>1 DEF Vanished
      <3> QED BY <3>1, WithoutEntries
    <2>2. CASE UNCHANGED iodb
      BY <2>2 DEF TypeOK
    <2> QED BY <2>1, <2>2 DEF Kill
  <1> QED BY <1>1, <1>2, <1>3, EndIInv

LEMMA NextIInv == IInv /\ [Next]_vars => IInv'
  <1> SUFFICES ASSUME IInv, [Next]_vars PROVE IInv'
    OBVIOUS
  <1>1. CASE ScriptStep
    <2>1. ASSUME NEW p \in Pools, read_io(p) \/ read_io_fails(p) PROVE IInv'
      BY <2>1, ReadIInv, ReadFailsIInv
    <2> QED BY <1>1, <2>1, StartIInv, SaveIInv, ReportIInv, CleanIInv, PropsIInv, WaitIInv
            DEF ScriptStep
  <1>2. CASE Kill \/ SetClockBack
    BY <1>2, KillIInv, SetbackIInv
  <1>3. CASE \E p \in Pools : Import(p) \/ Export(p)
    BY <1>3, PoolsIInv
  <1>4. CASE \E moved \in [Pools -> 0..Peak] : Work(moved)
    BY <1>4, WorkIInv
  <1>5. CASE \E r \in Reports : GmetricExits(r)
    BY <1>5, ExitsIInv
  <1>6. CASE UNCHANGED vars
    <2> USE <1>6 DEF vars, env, local, history, IInv
    <2>1. TypeOK'
      BY DEF TypeOK
    <2>2. EntriesInv'
      BY EntriesKept
    <2>3. RoundInv'
      BY DEF RoundInv, Now, Before
    <2>4. FileInv' /\ ReportsInv'
      BY DEF FileInv, InLoop, ReportsInv
    <2> QED BY <2>1, <2>2, <2>3, <2>4
  <1> QED BY <1>1, <1>2, <1>3, <1>4, <1>5, <1>6 DEF Next

-------------------------------------------------------------------------------
(***************************************************************************)
(* The properties.                                                         *)
(***************************************************************************)

(* The inductive invariant holds: entries are from before now, the file is *)
(* as far as the loop over the pools is, and without a kill no process is  *)
(* left behind.                                                            *)
THEOREM Invariance == Spec => []IInv
  BY InitIInv, NextIInv, PTL DEF Spec

(* The script's variables and the shelve file always have their types.     *)
THEOREM TypeCorrectness == Spec => []TypeOK
  <1>1. IInv => TypeOK
    BY DEF IInv
  <1> QED BY <1>1, Invariance, PTL

(* No reported rate is more than the pool can do unless the clock was set  *)
(* back between the two entries or the older counter was read late, for    *)
(* any speed, any times, and any number of kills and setbacks.             *)
THEOREM RateCorrect == Spec => []RateIsPossible
  <1>1. IInv => RateIsPossible
    <2> SUFFICES ASSUME IInv, pc = "saved", old_iostat.setback = curr_iostat.setback,
                        old_iostat.prompt
                 PROVE  rd_bw <= Peak
      BY DEF RateIsPossible
    <2>1. TypeOK /\ Before(old_iostat, curr_iostat)
      BY DEF IInv, RoundInv
    <2> QED BY <2>1, RateOfEntries
  <1> QED BY <1>1, Invariance, PTL

(* Unless a run was killed no two reports of one metric are on their way.  *)
THEOREM ReportsCorrect == Spec => []ReportsInOrder
  <1>1. IInv => ReportsInOrder
    <2> SUFFICES ASSUME IInv, kills = 0, NEW r \in gmetric_pids, NEW s \in gmetric_pids,
                        r.pool = s.pool, r.metric = s.metric
                 PROVE  r = s
      BY DEF ReportsInOrder
    <2>1. r \in Reports /\ s \in Reports
      BY DEF IInv, TypeOK
    <2>2. ~ r.left /\ ~ s.left
      BY DEF IInv, ReportsInv
    <2>3. r.left = s.left
      BY <2>1, <2>2 DEF Reports
    <2> QED BY <2>1, <2>3 DEF Reports
  <1> QED BY <1>1, Invariance, PTL

LEMMA FileStep ==
    IInv /\ [Next]_vars
    => [pc = "wait" /\ gmetric_wait =>
        /\ \A p \in Pools : iodb[p] # None => p \in listed
        /\ \A p \in stayed \ unread : p \in stored /\ iodb[p] # None]_vars
  <1> SUFFICES ASSUME IInv, pc = "wait"
               PROVE  /\ \A p \in Pools : iodb[p] # None => p \in listed
                      /\ \A p \in stayed \ unread : p \in stored /\ iodb[p] # None
    OBVIOUS
  <1>1. \A p \in stored : iodb[p] # None
    BY DEF IInv, FileInv
  <1>2. stayed \ unread \subseteq stored /\ \A p \in Pools : iodb[p] # None => p \in listed
    BY DEF IInv, FileInv
  <1> QED BY <1>1, <1>2

(* A run that comes to its end has made the file current: no entry of a    *)
(* pool that was gone when it began, a new one of each pool that stayed    *)
(* and whose counters could be read, whatever earlier runs left in the     *)
(* file when they were killed.                                             *)
THEOREM FileCorrect == Spec => FileIsCurrent
  BY Invariance, FileStep, PTL DEF Spec, FileIsCurrent
===============================================================================
