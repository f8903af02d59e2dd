---------------------------- MODULE SimklHistory ----------------------------
(***************************************************************************)
(* Simkl as the source of a sync (internal/simkl, Client.History): a run   *)
(* reads the per-category activity timestamps, skips the categories whose  *)
(* activity is not newer than the cursor, and requests the watched buckets *)
(* of the others one at a time, while the user's lists keep changing.      *)
(* What the engine does with the window is Engine's subject; here every    *)
(* target takes everything, so a run ends by recording its window.         *)
(*                                                                         *)
(* Simkl writes its timestamps in whole units (seconds) of Resolution      *)
(* ticks; the engine's cursor is a clock reading in ticks.  Every change   *)
(* and every clock reading has a tick of its own.                          *)
(***************************************************************************)
EXTENDS Integers, Sequences, FiniteSetsExt, SequencesExt

CONSTANTS
    Items,          \* watchlist entries, each with one watched item
    Category,       \* the category of each item
    Resolution,     \* ticks per unit of a Simkl timestamp
    MaxTime,        \* bound: changes and clock readings in one behaviour
    MaxFaults       \* bound: failing requests

Categories == <<"movies", "shows", "anime">>

ASSUME SimklAssumption ==
    /\ Category \in [Items -> ToSet(Categories)]
    /\ Resolution \in Nat \ {0}
    /\ {MaxTime, MaxFaults} \subseteq Nat

VARIABLES
    clock,
    bucket,         \* where each entry is listed
    changed,        \* when it was listed there
    cursor,         \* the sync's cursor, 0 when it never ran
    seen,           \* the items recorded
    faults,
    pc, since, windowEnd,
    acts,           \* the activity timestamps the run has read, 0 if absent
    requests,       \* the <<category, bucket>> pages the run still has to get
    got             \* the items fetched so far

lists == <<bucket, changed>>
state == <<cursor, seen>>
locals == <<pc, since, windowEnd, acts, requests, got>>
vars == <<clock, lists, state, faults, locals>>

Init ==
    /\ clock = 0
    /\ bucket = [i \in Items |-> "none"]
    /\ changed = [i \in Items |-> 0]
    /\ cursor = 0 /\ seen = {}
    /\ faults = 0
    /\ pc = "idle" /\ since = 0 /\ windowEnd = 0
    /\ acts = [c \in ToSet(Categories) |-> 0]
    /\ requests = <<>> /\ got = {}

-----------------------------------------------------------------------------
(* Simkl. *)

(* A timestamp as Simkl writes it, and as watchmesh writes date_from. *)
Stamp(t) == t - (t % Resolution)

(* The user watches something: a film is listed as completed, an episode   *)
(* puts its show among those being watched, and finishing the show moves   *)
(* it to the completed ones.                                               *)
List(i, b) ==
    /\ clock < MaxTime
    /\ \/ bucket[i] = "none" /\ b = IF Category[i] = "movies" THEN "completed" ELSE "watching"
       \/ bucket[i] = "watching" /\ b = "completed"
    /\ clock' = clock + 1
    /\ bucket' = [bucket EXCEPT ![i] = b]
    /\ changed' = [changed EXCEPT ![i] = clock']
    /\ UNCHANGED <<state, faults, locals>>

Listed(c) == {i \in Items : Category[i] = c /\ bucket[i] # "none"}

(* GET /sync/activities: the latest change of a category, if there is any. *)
Activity(c) ==
    IF Listed(c) = {} THEN 0 ELSE Stamp(Max({changed[i] : i \in Listed(c)}))

(* GET /sync/all-items/c/b?date_from=from, without date_from on the first  *)
(* run.                                                                    *)
AllItems(c, b, from) ==
    {i \in Listed(c) : bucket[i] = b /\ (from = 0 \/ Stamp(changed[i]) >= Stamp(from))}

-----------------------------------------------------------------------------
(* One run of the sync. *)

Fail ==
    /\ faults < MaxFaults
    /\ faults' = faults + 1
    /\ pc' = "idle"
    /\ UNCHANGED <<clock, lists, state, since, windowEnd, acts, requests, got>>

Open ==
    /\ pc = "idle" /\ clock < MaxTime
    /\ clock' = clock + 1
    /\ since' = cursor /\ windowEnd' = clock'
    /\ pc' = "activities" /\ got' = {} /\ requests' = <<>>
    /\ UNCHANGED <<lists, state, faults, acts>>

(* A category whose activity is not after the cursor is not requested. *)
Unchanged(activity) ==
    since # 0 /\ activity # 0 /\ activity <= since

(* Mutant of Buckets: shows still being watched are not requested. *)
Buckets_CompletedOnly(c) == <<"completed">>

(* Movies are only ever completed; shows and anime are in two buckets. *)
Buckets(c) ==
    IF c = "movies" THEN <<"completed">> ELSE <<"completed", "watching">>

Pages(c, activity) ==
    IF Unchanged(activity) THEN <<>>
    ELSE [k \in DOMAIN Buckets(c) |-> <<c, Buckets(c)[k]>>]

(* Category after category; those unchanged are left out. *)
Requests(activities) ==
    Pages("movies", activities["movies"]) \o Pages("shows", activities["shows"])
        \o Pages("anime", activities["anime"])

(* The activity timestamps are read once and decide for the whole run. *)
ReadActivities ==
    /\ pc = "activities"
    /\ acts' = [c \in ToSet(Categories) |-> Activity(c)]
    /\ requests' = Requests(acts')
    /\ pc' = "fetch"
    /\ UNCHANGED <<clock, lists, state, faults, since, windowEnd, got>>

Fetch ==
    /\ pc = "fetch" /\ requests # <<>>
    /\ got' = got \cup AllItems(Head(requests)[1], Head(requests)[2], since)
    /\ requests' = Tail(requests)
    /\ UNCHANGED <<clock, lists, state, faults, pc, since, windowEnd, acts>>

(* Mutant of Advance: the cursor moves to the end of the run. *)
Advance_ToNow == cursor' = clock

Advance == cursor' = windowEnd

(* engine.Sync with targets that take everything: a window with nothing    *)
(* fresh touches no state.                                                 *)
Record ==
    /\ pc = "fetch" /\ requests = <<>>
    /\ IF got \subseteq seen
       THEN UNCHANGED state
       ELSE seen' = seen \cup got /\ Advance
    /\ pc' = "idle"
    /\ UNCHANGED <<clock, lists, faults, since, windowEnd, acts, requests, got>>

Run ==
    \/ Open
    \/ ReadActivities
    \/ Fetch
    \/ Record
    \/ pc \in {"activities", "fetch"} /\ Fail

Next ==
    \/ \E i \in Items, b \in {"watching", "completed"} : List(i, b)
    \/ Run

Spec == Init /\ [][Next]_vars

-----------------------------------------------------------------------------
(* Properties *)

(* What changed after the cursor and before the run began is in the run's  *)
(* window, or recorded already: the dirty check skips nothing that is      *)
(* dirty, and an entry that moves between two buckets while they are       *)
(* requested one after the other does not slip through                     *)
(* (service-connectors/spec.md, "WHEN activities report a newer cursor     *)
(* THEN all-items MUST be fetched").                                       *)
WindowComplete ==
    pc = "fetch" /\ requests = <<>> =>
        \A i \in Items :
            since < changed[i] /\ changed[i] < windowEnd => i \in got \cup seen

(* What the cursor has passed is recorded: date_from would leave it out of *)
(* every later window.                                                     *)
NothingBehind ==
    \A i \in Items : bucket[i] # "none" /\ changed[i] < cursor => i \in seen
=============================================================================
