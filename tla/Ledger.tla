------------------------------- MODULE Ledger -------------------------------
(***************************************************************************)
(* What a sync promises, without processes, windows or calls: items        *)
(* surface at the source, reach the services of the targets, are recorded, *)
(* and the cursor only ever passes items recorded for every target.        *)
(***************************************************************************)
EXTENDS Integers, Functions

CONSTANTS
    Items, Targets,
    Unnamed         \* <<target, item>>: recorded without having been received

VARIABLES
    visible,        \* items the source returns
    watched,        \* when each was watched
    late,           \* items that surfaced behind a bound of some sync
    names,          \* the target list
    received,       \* <<target, item>>: what the services got
    seen,           \* <<target, item>>: what is recorded
    cursor

vars == <<visible, watched, late, names, received, seen, cursor>>

Init ==
    /\ visible = {} /\ late = {}
    /\ received = {} /\ seen = {}
    /\ cursor = 0

(* A new item; one behind the cursor is late. *)
Surface ==
    /\ \E i \in Items \ visible :
          /\ visible' = visible \cup {i}
          /\ watched' = [watched EXCEPT ![i] = watched'[i]]
          /\ late' \in {late, late \cup {i}}
          /\ watched'[i] < cursor => i \in late'
    /\ UNCHANGED <<names, received, seen, cursor>>

(* A service receives items the source has returned. *)
Deliver ==
    /\ received \subseteq received'
    /\ \A x \in received' \ received : x[1] \in Range(names) /\ x[2] \in visible
    /\ UNCHANGED <<visible, watched, late, names, seen, cursor>>

(* One delivery is recorded, or what a service fails to disown. *)
Record ==
    /\ \E x \in (received \cup Unnamed) \ seen : seen' = seen \cup {x}
    /\ UNCHANGED <<visible, watched, late, names, received, cursor>>

Advance ==
    /\ \A i \in visible \ late, t \in Range(names) :
          watched[i] < cursor' => <<t, i>> \in seen
    /\ UNCHANGED <<visible, watched, late, names, received, seen>>

Next == Surface \/ Deliver \/ Record \/ Advance

Spec == Init /\ [][Next]_vars
=============================================================================
