------------------------------ MODULE Reconfig ------------------------------
(***************************************************************************)
(* The sync of Engine whose configuration changes between two runs: the    *)
(* operator edits the target list (adds, renames or removes a connection)  *)
(* and restarts.  Config is read at boot only, and nothing in the store    *)
(* remembers which targets the cursor was advanced for.                    *)
(***************************************************************************)
EXTENDS Engine

(* cmd/watchmesh boot, then runOne builds the targets from the new list. *)
Reconfigure ==
    /\ \A p \in Procs : run[p].pc = "idle"
    /\ names' \in Configs \ {names}
    /\ UNCHANGED <<clock, source, cursor, seen, sent, unreported, faults, run>>

ReconfigSpec ==
    /\ Init
    /\ [][Next \/ Reconfigure]_vars
    /\ Fairness

(* A connection that is renamed is owed the items again under its new name *)
(* and gets them, as long as it stays configured (per-target-seen,         *)
(* sync-engine/spec.md: "treated as unseen under the new name and          *)
(* re-delivered once").                                                    *)
RenameRedelivers ==
    \A t \in Targets, i \in Items :
        (i \in visible \ late /\ t \in Range(names))
            ~> (<<t, i>> \in seen \/ t \notin Range(names))
=============================================================================
