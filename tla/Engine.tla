------------------------------- MODULE Engine -------------------------------
(***************************************************************************)
(* One sync of watchmesh (internal/engine.Sync over internal/store): a     *)
(* process reads the cursor, captures the end of the window, fetches the   *)
(* source's history since the cursor, and for each target in config order  *)
(* looks every item up in the seen rows, pushes what is missing, and marks *)
(* what was delivered; the cursor moves to the window's end only when      *)
(* every target took everything.                                           *)
(*                                                                         *)
(* Several processes (a `serve` loop and a manual `sync`, two replicas)    *)
(* may run the same sync against the same database.  Every call that       *)
(* leaves the process (store, source, target) is one action, and each may  *)
(* fail; a process may crash or have its context cancelled between any     *)
(* two.  An item stands for its hash: the same title watched at another    *)
(* time is another item.                                                   *)
(***************************************************************************)
EXTENDS Integers, Sequences, FiniteSets, Functions

CONSTANTS
    Procs,          \* processes running this sync over one database
    Items,          \* watch events of the source account
    Targets,        \* connection names
    Configs,        \* the target lists the sync may be configured with
    Unsupported,    \* <<target, item>>: the target's service never takes the item
    Unnamed,        \* those of them that Push reports as delivered all the same
    Confused,       \* <<target, item, other>>: next to the other, which the service
                    \* does not know, Push leaves the item out of its report
    Broken,         \* targets whose Push fails on every call
    HistoryCap,     \* a longer window makes History fail (Trakt's page cap)
    MaxCopies,      \* bound: rows of one window for each item
    MaxTime,        \* bound: the clock stops there
    MaxLate,        \* bound: how long after the fact an event may surface
    MaxFaults,      \* bound: failures of the environment in one behaviour
    MaxUnreported   \* bound: a pair's deliveries are counted up to as many of them
                    \* that the report of a call in good order left out

ASSUME EngineAssumption ==
    /\ Configs \subseteq Seq(Targets)
    /\ Unsupported \subseteq Targets \X Items /\ Unnamed \subseteq Unsupported
    /\ Confused \subseteq Targets \X Items \X Items
    /\ \A c \in Confused : <<c[1], c[3]>> \in Unsupported
    /\ Broken \subseteq Targets
    /\ {HistoryCap, MaxTime, MaxLate, MaxFaults} \subseteq Nat
    /\ MaxCopies \in [Items -> Nat \ {0}]
    /\ MaxUnreported \in Nat \ {0}

VARIABLES
    clock,          \* wall clock of the processes
    visible,        \* items the source's API returns
    watched,        \* WatchedAt of each visible item
    late,           \* history variable: items that surfaced behind a bound
    names,          \* the sync's target list, in config order
    cursor,         \* sync_state.last_run_at, 0 when there is no row
    seen,           \* seen_items: <<target, item>> rows
    sent,           \* how many calls brought each item to each target's service
    unreported,     \* history variable: calls in good order that brought an item to a
                    \* target's service and left it out of their report
    faults,         \* failures so far
    run             \* the local variables of Sync, per process

source == <<visible, watched, late>>
vars == <<clock, visible, watched, late, names, cursor, seen, sent, unreported,
          faults, run>>

-----------------------------------------------------------------------------
(* The rows of a window: History may list an item more than once (PagedHis-*)
(* tory: arrivals push a row over a page boundary), and nothing removes    *)
(* the repeats, so a row is an item and which of its listings this is.     *)
Rows == UNION {{i} \X (1 .. MaxCopies[i]) : i \in Items}

Listed(rows) == {e[1] : e \in rows}

(* The locals of engine.Sync; todo holds the rows the current loop (the    *)
(* lookups, then the marks) still has to visit.                            *)
RunState ==
    [pc : {"idle", "window", "history", "diff", "mark", "finish"},
     since : Nat, windowEnd : Nat, items : SUBSET Rows, idx : Nat,
     todo : SUBSET Rows, fresh : SUBSET Rows,
     anyFresh : BOOLEAN, allOK : BOOLEAN, cancelled : BOOLEAN]

Idle ==
    [pc |-> "idle", since |-> 0, windowEnd |-> 0, items |-> {}, idx |-> 0,
     todo |-> {}, fresh |-> {},
     anyFresh |-> FALSE, allOK |-> TRUE, cancelled |-> FALSE]

Init ==
    /\ clock = 1
    /\ visible = {}
    /\ watched = [i \in Items |-> 0]
    /\ late = {}
    /\ names \in Configs
    /\ cursor = 0
    /\ seen = {}
    /\ sent = [x \in Targets \X Items |-> 0]
    /\ unreported = [x \in Targets \X Items |-> 0]
    /\ faults = 0
    /\ run = [p \in Procs |-> Idle]

Goto(p, r) == run' = [run EXCEPT ![p] = r]

Return(p) == Goto(p, Idle)

(* The outcome of a call that leaves process p.  Once the context is       *)
(* cancelled every call fails; before that a failure is a fault.           *)
Works(p) == ~run[p].cancelled /\ UNCHANGED faults

Fails(p) ==
    \/ run[p].cancelled /\ UNCHANGED faults
    \/ ~run[p].cancelled /\ faults < MaxFaults /\ faults' = faults + 1

-----------------------------------------------------------------------------
(* The environment. *)

Tick ==
    /\ clock < MaxTime
    /\ clock' = clock + 1
    /\ UNCHANGED <<source, names, cursor, seen, sent, unreported, faults, run>>

(* The cursors that decide what a window covers: the stored one, and those *)
(* a process holds.                                                        *)
Bounds ==
    {cursor} \cup {run[p].since : p \in Procs} \cup {run[p].windowEnd : p \in Procs}

(* An item watched at w shows up in the source's API, at most MaxLate      *)
(* after the fact; late records that some bound had passed it by then.     *)
Surface(i, w) ==
    /\ i \notin visible
    /\ clock <= w + MaxLate /\ w <= clock
    /\ visible' = visible \cup {i}
    /\ watched' = [watched EXCEPT ![i] = w]
    /\ late' = IF \E b \in Bounds : w < b THEN late \cup {i} ELSE late
    /\ UNCHANGED <<clock, names, cursor, seen, sent, unreported, faults, run>>

(* The process dies between two calls, and is later restarted. *)
Crash(p) ==
    /\ run[p].pc # "idle"
    /\ faults < MaxFaults
    /\ faults' = faults + 1
    /\ Return(p)
    /\ UNCHANGED <<clock, source, names, cursor, seen, sent, unreported>>

(* SIGINT or SIGTERM cancels the context while Sync runs. *)
Cancel(p) ==
    /\ run[p].pc # "idle" /\ ~run[p].cancelled
    /\ faults < MaxFaults
    /\ faults' = faults + 1
    /\ Goto(p, [run[p] EXCEPT !.cancelled = TRUE])
    /\ UNCHANGED <<clock, source, names, cursor, seen, sent, unreported>>

-----------------------------------------------------------------------------
(* engine.Sync *)

ReadCursor(p) ==
    /\ run[p].pc = "idle"
    /\ \/ Works(p) /\ Goto(p, [Idle EXCEPT !.pc = "window", !.since = cursor])
       \/ Fails(p) /\ Return(p)
    /\ UNCHANGED <<clock, source, names, cursor, seen, sent, unreported>>

OpenWindow(p) ==
    /\ run[p].pc = "window"
    /\ Goto(p, [run[p] EXCEPT !.pc = "history", !.windowEnd = clock])
    /\ UNCHANGED <<clock, source, names, cursor, seen, sent, unreported, faults>>

(* What the source must return for a cursor: everything at or after it. *)
Window(since) == {i \in visible : watched[i] >= since}

(* Mutant of EnterTarget: the loop runs one past the last target. *)
EnterTarget_PastEnd(r, k) ==
    [r EXCEPT !.pc = IF k <= Len(names) + 1 THEN "diff" ELSE "finish",
              !.idx = k, !.todo = r.items, !.fresh = {}]

(* The state of the loop over targets as it reaches the k-th one. *)
EnterTarget(r, k) ==
    [r EXCEPT !.pc = IF k <= Len(names) THEN "diff" ELSE "finish",
              !.idx = k,
              !.todo = IF k <= Len(names) THEN r.items ELSE {},
              !.fresh = {}]

(* The answers that list some items, each of them at least once; of an     *)
(* item's rows the first ones are those listed.                            *)
Listings(some) ==
    {rows \in SUBSET {e \in Rows : e[1] \in some} :
        /\ Listed(rows) = some
        /\ \A e \in rows : \A n \in 1 .. e[2] : <<e[1], n>> \in rows}

(* History answers with the window, some of it more than once, and may add *)
(* older items; it fails when the window is too long for its page cap; a   *)
(* failing read either fails the sync or, where the connector swallows it, *)
(* is an empty window.                                                     *)
FetchHistory(p) ==
    /\ run[p].pc = "history"
    /\ LET window == Window(run[p].since) IN
       \/ /\ Works(p)
          /\ Cardinality(window) <= HistoryCap
          /\ \E older \in SUBSET (visible \ window) :
                \E rows \in Listings(window \cup older) :
                   Goto(p, EnterTarget([run[p] EXCEPT !.items = rows], 1))
       \/ Works(p) /\ Cardinality(window) > HistoryCap /\ Return(p)
       \/ Fails(p) /\ Return(p)
       \/ Fails(p) /\ Goto(p, EnterTarget(run[p], 1))
    /\ UNCHANGED <<clock, source, names, cursor, seen, sent, unreported>>

Target(p) == names[run[p].idx]

(* Mutant of IsFresh: the target is not part of the lookup's key. *)
IsFresh_AnyTarget(t, i) == \A u \in Targets : <<u, i>> \notin seen

(* Mutant of IsFresh: nothing is looked up. *)
IsFresh_Always(t, i) == TRUE

IsFresh(t, i) == <<t, i>> \notin seen

(* The row whose turn it is among those of its item, which are all alike.  *)
NextRow(p, e) ==
    /\ e \in run[p].todo
    /\ \A f \in run[p].todo : f[1] = e[1] => e[2] <= f[2]

(* One Seen lookup of the diff; a failing one abandons the whole sync. *)
LookUp(p, e) ==
    /\ run[p].pc = "diff" /\ NextRow(p, e)
    /\ \/ /\ Works(p)
          /\ Goto(p, [run[p] EXCEPT
                        !.todo = @ \ {e},
                        !.fresh = IF IsFresh(Target(p), e[1]) THEN @ \cup {e} ELSE @])
       \/ Fails(p) /\ Return(p)
    /\ UNCHANGED <<clock, source, names, cursor, seen, sent, unreported>>

(* A target with nothing missing gets no Push. *)
SkipTarget(p) ==
    /\ run[p].pc = "diff" /\ run[p].todo = {} /\ run[p].fresh = {}
    /\ Goto(p, EnterTarget(run[p], run[p].idx + 1))
    /\ UNCHANGED <<clock, source, names, cursor, seen, sent, unreported, faults>>

(* Mutant of TookAll: a subset delivered without an error counts as all. *)
TookAll_IgnoresSkips(fresh, delivered, err) == ~err

(* Mutant of ToMark: what was pushed is marked, delivered or not. *)
ToMark_AllPushed(fresh, delivered) == fresh

(* What the engine holds against a target after its Push. *)
TookAll(fresh, delivered, err) == ~err /\ delivered = fresh

ToMark(fresh, delivered) == delivered

(* Push of the missing rows, the repeats among them in the same call.  A   *)
(* call in good order brings the service what it takes, but its report may *)
(* leave some of that out: what shares an identifier with an item the      *)
(* service does not know (ConnectorPush: Unresolved); and it may hold what *)
(* the service does not know and cannot name.  A failing call brings the   *)
(* service some of it and reports some of that, with or without an error.  *)
Push(p) ==
    /\ run[p].pc = "diff" /\ run[p].todo = {} /\ run[p].fresh # {}
    /\ LET t == Target(p)
           fresh == run[p].fresh
           takes == {e \in fresh : <<t, e[1]>> \notin Unsupported}
           unnamed == {e \in fresh : <<t, e[1]>> \in Unnamed}
           withheld == {e \in takes : \E f \in fresh : <<t, e[1], f[1]>> \in Confused}
           counted == {x \in {t} \X Items : unreported[x] < MaxUnreported}
           Outcome(received, omitted, delivered, err) ==
             /\ sent' = [x \in Targets \X Items |->
                           IF x \in counted /\ x[2] \in Listed(received)
                           THEN sent[x] + 1 ELSE sent[x]]
             /\ unreported' = [x \in Targets \X Items |->
                                 IF x \in counted /\ x[2] \in Listed(omitted)
                                 THEN unreported[x] + 1 ELSE unreported[x]]
             /\ Goto(p, [run[p] EXCEPT
                           !.pc = "mark",
                           !.anyFresh = TRUE,
                           !.allOK = @ /\ TookAll(fresh, delivered, err),
                           !.todo = ToMark(fresh, delivered),
                           !.fresh = {}])
       IN \/ /\ t \notin Broken /\ Works(p)
             /\ Outcome(takes, withheld, (takes \ withheld) \cup unnamed, FALSE)
          \/ t \in Broken /\ UNCHANGED faults /\ Outcome({}, {}, {}, TRUE)
          \/ /\ t \notin Broken /\ Fails(p)
             /\ \E received \in SUBSET takes, err \in BOOLEAN :
                   \E delivered \in SUBSET (received \cup unnamed) :
                      Outcome(received, {}, delivered, err)
    /\ UNCHANGED <<clock, source, names, cursor, seen>>

(* One MarkSeen; a failing write may have reached the database all the     *)
(* same, and only holds the cursor.                                        *)
Mark(p, e) ==
    /\ run[p].pc = "mark" /\ NextRow(p, e)
    /\ \/ /\ Works(p)
          /\ seen' = seen \cup {<<Target(p), e[1]>>}
          /\ Goto(p, [run[p] EXCEPT !.todo = @ \ {e}])
       \/ /\ Fails(p)
          /\ seen' \in {seen, seen \cup {<<Target(p), e[1]>>}}
          /\ Goto(p, [run[p] EXCEPT !.todo = @ \ {e}, !.allOK = FALSE])
    /\ UNCHANGED <<clock, source, names, cursor, sent, unreported>>

NextTarget(p) ==
    /\ run[p].pc = "mark" /\ run[p].todo = {}
    /\ Goto(p, EnterTarget(run[p], run[p].idx + 1))
    /\ UNCHANGED <<clock, source, names, cursor, seen, sent, unreported, faults>>

(* Mutant of SetLastRun: the cursor is the watch time of the last item in  *)
(* the list, where services list the newest first.                         *)
SetLastRun_LastItem(p) ==
    \/ Fails(p) /\ UNCHANGED cursor
    \/ /\ Works(p)
       /\ \E i \in Listed(run[p].items) :
             /\ \A j \in Listed(run[p].items) : watched[i] <= watched[j]
             /\ cursor' = watched[i]

(* Mutant of SetLastRun: the cursor is the time at which the sync ends. *)
SetLastRun_Now(p) ==
    \/ Works(p) /\ cursor' = clock
    \/ Fails(p) /\ UNCHANGED cursor

(* Mutant of MayAdvance: one target's success is enough. *)
MayAdvance_AnyTarget(r) == r.anyFresh

(* The end of the window becomes the cursor; a failing write may have      *)
(* reached the database all the same.                                      *)
SetLastRun(p) ==
    \/ Works(p) /\ cursor' = run[p].windowEnd
    \/ Fails(p) /\ cursor' \in {cursor, run[p].windowEnd}

MayAdvance(r) == r.anyFresh /\ r.allOK

Finish(p) ==
    /\ run[p].pc = "finish"
    /\ IF MayAdvance(run[p]) THEN SetLastRun(p) ELSE UNCHANGED <<cursor, faults>>
    /\ Return(p)
    /\ UNCHANGED <<clock, source, names, seen, sent, unreported>>

Sync(p) ==
    \/ ReadCursor(p)
    \/ OpenWindow(p)
    \/ FetchHistory(p)
    \/ \E e \in Rows : LookUp(p, e)
    \/ SkipTarget(p)
    \/ Push(p)
    \/ \E e \in Rows : Mark(p, e)
    \/ NextTarget(p)
    \/ Finish(p)

Next ==
    \/ Tick
    \/ \E i \in Items, w \in 1 .. MaxTime : Surface(i, w)
    \/ \E p \in Procs : Sync(p) \/ Crash(p) \/ Cancel(p)

Spec == Init /\ [][Next]_vars

(* serve's ticker starts a sync again and again, and a sync that is        *)
(* running gets processor time and answers (or errors) to its calls.       *)
Fairness == \A p \in Procs : WF_vars(Sync(p))

FairSpec == Spec /\ Fairness

-----------------------------------------------------------------------------
(* Properties *)

TypeOK ==
    /\ clock \in 1 .. (MaxTime + 1)
    /\ visible \subseteq Items /\ late \subseteq visible
    /\ watched \in [Items -> Nat]
    /\ names \in Seq(Targets)
    /\ cursor \in Nat
    /\ seen \subseteq Targets \X Items
    /\ sent \in [Targets \X Items -> Nat] /\ unreported \in [Targets \X Items -> Nat]
    /\ faults \in Nat
    /\ run \in [Procs -> RunState]
    /\ \A p \in Procs :
          /\ Listed(run[p].items) \subseteq visible
          /\ run[p].todo \cup run[p].fresh \subseteq run[p].items
          /\ run[p].pc \in {"diff", "mark"} => run[p].idx \in 1 .. Len(names)

SeenByAll(i) == \A t \in Range(names) : <<t, i>> \in seen

(* An item the cursor has passed is never fetched again, so it must be     *)
(* recorded for every target by then: whatever failed, crashed or was      *)
(* cancelled, and whoever else runs the same sync (engine.go:38-53,        *)
(* "an advanced window could exclude them from History forever").  Items   *)
(* that surfaced only after a bound had passed them are outside its reach. *)
CursorCovers ==
    \A i \in visible \ late : watched[i] < cursor => SeenByAll(i)

(* A seen row is the reason an item is never pushed again, so there is one *)
(* only for what the target's service did receive (engine.go:18-25,        *)
(* "reported by omission, never silently marked"), or for what its answer  *)
(* has no identifier to name by.                                           *)
SeenIsDelivered ==
    \A x \in seen \ Unnamed : sent[x] > 0

(* With one process per sync, an item is brought to a service again only   *)
(* for a reason, and each reason serves once: a failure, or a call whose   *)
(* report left the delivered item out (per-target-seen/design.md,          *)
(* at-least-once: "a crash between Push and MarkSeen re-pushes once"; the  *)
(* reports of simkl/client.go:481-492).  One call may hold the item more   *)
(* than once: as often as the window lists it.                             *)
ReplayBudget ==
    \A x \in Targets \X Items : sent[x] <= 1 + faults + unreported[x]

(* With one process per sync, a target is never sent what is already       *)
(* recorded for it (sync-engine/spec.md, "never re-pushing to              *)
(* already-delivered ones").                                               *)
NeverResent ==
    [][\A x \in Targets \X Items : sent'[x] # sent[x] => x \notin seen]_vars

(* The cursor never moves back (sync-engine/spec.md, "the cursor MUST NOT  *)
(* regress").                                                              *)
CursorMonotone ==
    [][cursor' >= cursor]_vars

(* Items whose delivery target t can see: it takes them, and reports them  *)
(* whatever else is in the call.                                           *)
Takes(t) == {i \in Items : /\ <<t, i>> \notin Unsupported
                           /\ \A j \in Items : <<t, i, j>> \notin Confused}

(* Every item a healthy target can take and report is in the end recorded  *)
(* for it, whatever the other targets do and whatever failed on the way    *)
(* (sync-engine/spec.md, "SHALL NOT let one failing target block pushes to *)
(* the others").                                                           *)
EventualDelivery ==
    \A t \in Targets \ Broken, i \in Items :
        (i \in visible \ late /\ t \in Range(names) /\ i \in Takes(t))
            ~> <<t, i>> \in seen

(* What the source still owes target t. *)
Owed(t) ==
    {i \in visible \ late : <<t, i>> \notin seen /\ i \in Takes(t)}

(* A healthy target is not owed forever what would fit a window of its     *)
(* own: the targets beside it do not stand in its way (sync-engine/spec.md,*)
(* "SHALL NOT let one failing target block pushes to the others").         *)
FailureIsolation ==
    \A t \in Targets \ Broken :
        t \in Range(names) =>
            []<>(Owed(t) = {} \/ Cardinality(Owed(t)) > HistoryCap)
=============================================================================
