---------------------------- MODULE ZfsmonListing -----------------------------
(***************************************************************************)
(* What zfsmon_update promises its callers of the list of valid pools,     *)
(* while pools are imported and exported: an update that succeeds lists    *)
(* all pools that were there all the time, and any update only pools that  *)
(* were there at some time of it.                                          *)
(*                                                                         *)
(* ZfsmonUpdate, the module with the iterations and callbacks, implements  *)
(* this one; ZfsmonGmond is built on it.                                   *)
(***************************************************************************)
CONSTANT Pools

VARIABLES
    imported,   \* the kernel's pools
    valid,      \* the pools zfsmon_zpool_all lists, {} during an update
    updating,   \* does zfsmon_update run?
    failed,     \* has libzfs failed in the last update?
    stayed,     \* the pools that have been there since it began
    seen        \* the pools that were there at some time of it

vars == <<imported, valid, updating, failed, stayed, seen>>

Init ==
    /\ imported \subseteq Pools
    /\ valid = {} /\ updating = FALSE /\ failed = FALSE
    /\ stayed = {} /\ seen = {}

Import(p) ==
    /\ p \notin imported
    /\ imported' = imported \cup {p}
    /\ seen' = IF updating THEN seen \cup {p} ELSE seen
    /\ UNCHANGED <<valid, updating, failed, stayed>>

Export(p) ==
    /\ p \in imported
    /\ imported' = imported \ {p}
    /\ stayed' = stayed \ {p}
    /\ UNCHANGED <<valid, updating, failed, seen>>

(* libzfs_init fails: all stays as it was. *)
CannotBegin ==
    /\ ~ updating
    /\ failed' = TRUE
    /\ UNCHANGED <<imported, valid, updating, stayed, seen>>

Begin ==
    /\ ~ updating /\ updating' = TRUE
    /\ valid' = {}
    /\ failed' = FALSE
    /\ stayed' = imported /\ seen' = imported
    /\ UNCHANGED imported

Fault ==
    /\ updating
    /\ failed' = TRUE
    /\ UNCHANGED <<imported, valid, updating, stayed, seen>>

(* The last step may be one that fails. *)
End ==
    /\ updating /\ updating' = FALSE
    /\ failed' \in {failed, TRUE}
    /\ \E v \in SUBSET seen : valid' = v /\ (failed' \/ stayed \subseteq v)
    /\ UNCHANGED <<imported, stayed, seen>>

Next ==
    \/ \E p \in Pools : Import(p) \/ Export(p)
    \/ CannotBegin \/ Begin \/ Fault \/ End

Spec == Init /\ [][Next]_vars
===============================================================================
