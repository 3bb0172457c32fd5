------------------------------ MODULE ZfsGmetric ------------------------------
(***************************************************************************)
(* src/src/ganglia/zfs_gmetric.py: one run of the script after the other,  *)
(* each computing the I/O rate of every pool from the counters in /proc    *)
(* and those the last run left in a shelve file, and starting a gmetric    *)
(* process for every value.  A run can be killed between any two steps.    *)
(*                                                                         *)
(* External: the kernel's pools, whose counters in /proc restart when they *)
(* are imported, the clock, and the gmetric processes.  nread and nwritten *)
(* are treated alike, in pairs of lines: bytes is either of them.  The     *)
(* files and commands the script looks for are there and accessible.       *)
(***************************************************************************)
EXTENDS Integers

CONSTANTS
    Pools, None,
    Peak,           \* bytes a pool can move in a unit of time
    MaxTime,        \* bound: the clock stops at this reading
    MaxKills,       \* bound: runs are killed this often
    MaxErrors,      \* bound: the counters of a pool that is there cannot be
                    \* read, or not be parsed, this often
    MaxSetbacks     \* bound: the clock is set back this often

(* A gmetric process; left is TRUE once the run that started it has ended. *)
Reports == [pool : Pools, metric : {"iostat", "prop"}, left : BOOLEAN]

VARIABLES
    imported,       \* the kernel's pools
    io,             \* io[p]: the bytes in /proc/spl/kstat/zfs/p/io
    time,           \* time.time()
    kills, setbacks, errors, \* how often these have happened
    iodb,           \* the shelve file: iodb[p] is p's entry, or None
    pc,             \* where the script is, "idle" between two runs
    todo,           \* the pools of the glob it has yet to visit
    iostat_zpools,  \* those it has visited
    zpool_name,     \* the pool it is at, or None
    old_iostat, curr_iostat,
    gmetric_pids,   \* the gmetric processes that run
    listed,         \* history: the pools there were when the run began
    stayed,         \* history: those of them that have been there ever since
    stored,         \* history: the pools whose entry is of this run
    unread          \* history: the pools this run has skipped

env     == <<imported, io, time, setbacks>>
mishaps == <<kills, errors>>
local   == <<todo, iostat_zpools, zpool_name, old_iostat, curr_iostat>>
history == <<listed, stayed, stored, unread>>
vars    == <<env, mishaps, iodb, pc, local, gmetric_pids, history>>

(* History: setback is how often the clock had been set back at timestamp, *)
(* prompt whether the counter was read at that very time.                  *)
Iostat == [timestamp : 0..MaxTime, bytes : Nat, setback : 0..MaxSetbacks,
           prompt : BOOLEAN]

Saved == {s \in Iostat : s.timestamp > 0}

ASSUME GmetricConstants ==
    /\ None \notin Pools /\ None \notin Iostat
    /\ Peak \in Nat /\ MaxTime \in Nat \ {0}
    /\ MaxKills \in Nat /\ MaxErrors \in Nat /\ MaxSetbacks \in Nat

TypeOK ==
    /\ imported \subseteq Pools /\ io \in [Pools -> Nat] /\ time \in 1..MaxTime
    /\ kills \in 0..MaxKills /\ errors \in 0..MaxErrors /\ setbacks \in 0..MaxSetbacks
    /\ iodb \in [Pools -> Saved \cup {None}]
    /\ pc \in {"idle", "iostat", "read", "saved", "props", "wait"}
    /\ todo \subseteq Pools /\ iostat_zpools \subseteq Pools
    /\ zpool_name \in Pools \cup {None}
    /\ old_iostat \in Iostat /\ curr_iostat \in Iostat
    /\ gmetric_pids \subseteq Reports
    /\ listed \subseteq Pools /\ stayed \subseteq listed /\ stored \subseteq Pools
    /\ unread \subseteq Pools

NoIostat == [timestamp |-> 0, bytes |-> 0, setback |-> 0, prompt |-> TRUE]

Init ==
    /\ imported \in SUBSET Pools /\ time = 1
    /\ \E moved \in [Pools -> 0..Peak] : io = [p \in Pools |-> IF p \in imported THEN moved[p] ELSE 0]
    /\ kills = 0 /\ errors = 0 /\ setbacks = 0
    /\ iodb = [p \in Pools |-> None]
    /\ pc = "idle"
    /\ todo = {} /\ iostat_zpools = {} /\ zpool_name = None
    /\ old_iostat = NoIostat /\ curr_iostat = NoIostat
    /\ gmetric_pids = {}
    /\ listed = {} /\ stayed = {} /\ stored = {} /\ unread = {}

-------------------------------------------------------------------------------
(***************************************************************************)
(* The kernel, the clock and the gmetric processes.                        *)
(***************************************************************************)
Import(p) ==
    /\ p \notin imported
    /\ imported' = imported \cup {p}
    /\ UNCHANGED <<io, time, mishaps, setbacks, iodb, pc, local, gmetric_pids, history>>

Export(p) ==
    /\ p \in imported
    /\ imported' = imported \ {p}
    /\ io' = [io EXCEPT ![p] = 0]
    /\ stayed' = stayed \ {p}
    /\ UNCHANGED <<time, mishaps, setbacks, iodb, pc, local, gmetric_pids, listed, stored,
                   unread>>

(* Time passes, and pools read and write. *)
Work(moved) ==
    /\ time < MaxTime
    /\ time' = time + 1
    /\ io' = [p \in Pools |-> IF p \in imported THEN io[p] + moved[p] ELSE io[p]]
    /\ UNCHANGED <<imported, mishaps, setbacks, iodb, pc, local, gmetric_pids, history>>

SetClockBack ==
    /\ setbacks < MaxSetbacks
    /\ setbacks' = setbacks + 1
    /\ time' \in 1..(time - 1)
    /\ UNCHANGED <<imported, io, mishaps, iodb, pc, local, gmetric_pids, history>>

(* The value has reached Ganglia, or it could not be sent. *)
GmetricExits(r) ==
    /\ r \in gmetric_pids
    /\ gmetric_pids' = gmetric_pids \ {r}
    /\ UNCHANGED <<env, mishaps, iodb, pc, local, history>>

-------------------------------------------------------------------------------
(***************************************************************************)
(* The script.                                                             *)
(***************************************************************************)
Goto(from, to) == pc = from /\ pc' = to

gmetric(p, metric) ==
    gmetric_pids' = gmetric_pids \cup {[pool |-> p, metric |-> metric, left |-> FALSE]}

(* Open the shelve file, list /proc/spl/kstat/zfs. *)
Start ==
    /\ Goto("idle", "iostat")
    /\ todo' = imported
    /\ iostat_zpools' = {}
    /\ listed' = imported /\ stayed' = imported /\ stored' = {} /\ unread' = {}
    /\ UNCHANGED <<env, mishaps, iodb, zpool_name, old_iostat, curr_iostat, gmetric_pids>>

load_iostat_now(p) ==   \* mutant: a pool not in the file counts from now
    IF iodb[p] = None THEN [NoIostat EXCEPT !.timestamp = time, !.setback = setbacks]
                      ELSE iodb[p]

load_iostat(p) == IF iodb[p] = None THEN NoIostat ELSE iodb[p]

NextPool(p) ==
    /\ p \in todo
    /\ todo' = todo \ {p}
    /\ iostat_zpools' = iostat_zpools \cup {p}

read_io(p) ==
    /\ Goto("iostat", "read")
    /\ NextPool(p)
    /\ p \in imported
    /\ zpool_name' = p
    /\ old_iostat' = load_iostat(p)
    /\ curr_iostat' = [timestamp |-> time, bytes |-> io[p], setback |-> setbacks,
                       prompt |-> TRUE]
    /\ UNCHANGED <<env, mishaps, iodb, gmetric_pids, history>>

(* The pool is gone, or its file cannot be read or parsed: the exception   *)
(* is caught, the pool's entry stays as it is, and the loop continues.     *)
read_io_fails(p) ==
    /\ Goto("iostat", "iostat")
    /\ NextPool(p)
    /\ \/ p \notin imported /\ UNCHANGED errors
       \/ errors < MaxErrors /\ errors' = errors + 1
    /\ unread' = unread \cup {p}
    /\ UNCHANGED <<env, kills, iodb, zpool_name, old_iostat, curr_iostat, gmetric_pids,
                   listed, stayed, stored>>

save_iostat ==
    /\ Goto("read", "saved")
    /\ curr_iostat' = [curr_iostat EXCEPT !.timestamp = time, !.setback = setbacks,
            !.prompt = curr_iostat.timestamp = time /\ curr_iostat.setback = setbacks]
    /\ iodb' = [iodb EXCEPT ![zpool_name] = curr_iostat']
    /\ stored' = stored \cup {zpool_name}
    /\ UNCHANGED <<env, mishaps, todo, iostat_zpools, zpool_name, old_iostat, gmetric_pids,
                   listed, stayed, unread>>

(* 1 / time_scale. *)
time_diff ==
    LET d == curr_iostat.timestamp - old_iostat.timestamp
    IN  IF d = 0 THEN 1 ELSE d

(* long(rd_bw): a quotient of absolute values, 0 if it were negative.      *)
rd_bw ==
    LET moved == curr_iostat.bytes - old_iostat.bytes
    IN  CASE moved > 0 /\ time_diff > 0 -> moved \div time_diff
          [] moved < 0 /\ time_diff < 0 -> (- moved) \div (- time_diff)
          [] OTHER -> 0

report_iostat ==
    /\ Goto("saved", "iostat")
    /\ gmetric(zpool_name, "iostat")
    /\ zpool_name' = None /\ old_iostat' = NoIostat /\ curr_iostat' = NoIostat
    /\ UNCHANGED <<env, mishaps, iodb, todo, iostat_zpools, history>>

(* set(iodb.keys()) - set(zpools) is deleted. *)
Vanished == {p \in Pools \ iostat_zpools : iodb[p] # None}

WithZeros(ps) ==        \* mutant
    [p \in Pools |-> IF p \in ps THEN NoIostat ELSE iodb[p]]

Without(ps) == [p \in Pools |-> IF p \in ps THEN None ELSE iodb[p]]

clean_nothing ==        \* mutant
    /\ Goto("iostat", "props") /\ todo = {}
    /\ iostat_zpools' = {}
    /\ UNCHANGED <<env, mishaps, iodb, todo, zpool_name, old_iostat, curr_iostat,
                   gmetric_pids, history>>

clean_iostat ==
    /\ Goto("iostat", "props") /\ todo = {}
    /\ iodb' = Without(Vanished)
    /\ iostat_zpools' = {}
    /\ UNCHANGED <<env, mishaps, todo, zpool_name, old_iostat, curr_iostat, gmetric_pids,
                   history>>

(* zpool get prints all pools' properties, or fails. *)
report_props ==
    /\ Goto("props", "wait")
    /\ gmetric_pids' \in {gmetric_pids, gmetric_pids \cup
            [pool : imported, metric : {"prop"}, left : {FALSE}]}
    /\ UNCHANGED <<env, mishaps, iodb, local, history>>

Forget ==
    /\ todo' = {} /\ iostat_zpools' = {} /\ zpool_name' = None
    /\ old_iostat' = NoIostat /\ curr_iostat' = NoIostat
    /\ listed' = {} /\ stayed' = {} /\ stored' = {} /\ unread' = {}

Leave == gmetric_pids' = {[r EXCEPT !.left = TRUE] : r \in gmetric_pids}

leave_without_wait ==   \* mutant
    /\ Goto("wait", "idle")
    /\ Leave /\ Forget
    /\ UNCHANGED <<env, mishaps, iodb>>

gmetric_wait ==
    /\ Goto("wait", "idle")
    /\ \A r \in gmetric_pids : r.left
    /\ Leave /\ Forget
    /\ UNCHANGED <<env, mishaps, iodb>>

(* The run is killed, or ends with an exception.  What save_iostat wrote   *)
(* has been synced; of the deletions some may not have been.               *)
Kill ==
    /\ pc # "idle" /\ pc' = "idle"
    /\ kills < MaxKills /\ kills' = kills + 1
    /\ IF pc = "iostat" /\ todo = {}
       THEN \E ps \in SUBSET Vanished : iodb' = Without(ps)
       ELSE UNCHANGED iodb
    /\ Leave /\ Forget
    /\ UNCHANGED <<env, errors>>

ScriptStep ==
    \/ Start
    \/ \E p \in Pools : read_io(p) \/ read_io_fails(p)
    \/ save_iostat
    \/ report_iostat
    \/ clean_iostat
    \/ report_props
    \/ gmetric_wait

Next ==
    \/ ScriptStep
    \/ Kill
    \/ \E p \in Pools : Import(p) \/ Export(p)
    \/ \E moved \in [Pools -> 0..Peak] : Work(moved)
    \/ SetClockBack
    \/ \E r \in Reports : GmetricExits(r)

Spec == Init /\ [][Next]_vars

(* The script is run again and again, and a gmetric process ends.          *)
FairSpec ==
    /\ Spec
    /\ WF_vars(ScriptStep)
    /\ WF_vars(\E r \in Reports : GmetricExits(r))

-------------------------------------------------------------------------------
(***************************************************************************)
(* Properties.                                                             *)
(***************************************************************************)

(* A rate is never more than the pool can do unless the clock was set back *)
(* between the two entries, or the older counter was read late: whatever   *)
(* pools were imported again, entries are missing, runs were killed or     *)
(* came twice at one time, and whatever the clock did before.  So a clock  *)
(* that is set back does harm to the next report of a pool, and to the one *)
(* after it only if it is set back between the reading and the time stamp. *)
RateIsPossible ==
    pc = "saved" /\ old_iostat.setback = curr_iostat.setback /\ old_iostat.prompt =>
        rd_bw <= Peak

(* A run that comes to its end leaves no entry of a pool that was gone     *)
(* when it began ("Cleans iostat db",                                      *)
(* src/src/ganglia/zfs_gmetric.py:83), and a new one of each pool that     *)
(* stayed, unless it had to skip that pool because its counters could not  *)
(* be read: what earlier runs did before they were killed, and what they   *)
(* skipped, is made good.                                                  *)
FileIsCurrent ==
    [][pc = "wait" /\ gmetric_wait =>
        /\ \A p \in Pools : iodb[p] # None => p \in listed
        /\ \A p \in stayed \ unread : p \in stored /\ iodb[p] # None]_vars

(* Of two runs' reports of one metric never both are on their way, so the  *)
(* older cannot overtake the newer, unless a run was killed ("waits for    *)
(* all gmetric processes to finish", src/src/ganglia/zfs_gmetric.py:55).   *)
ReportsInOrder ==
    kills = 0 => \A r, s \in gmetric_pids :
        r.pool = s.pool /\ r.metric = s.metric => r = s

(* Pools that are gone for good are forgotten, and pools that are there to *)
(* stay are known, however many runs were killed or could not read a pool. *)
FileConverges ==
    \A p \in Pools :
        /\ <>[](p \notin imported) => <>[](iodb[p] = None)
        /\ <>[](p \in imported) => <>[](iodb[p] # None)
===============================================================================
