-------------------------------- MODULE Serve --------------------------------
(***************************************************************************)
(* The life of a watchmesh process: boot migrates the database under       *)
(* golang-migrate's advisory lock and opens the store (cmd/watchmesh,      *)
(* boot; internal/store, MigrateUp), then `serve` runs every sync on each  *)
(* tick until a signal cancels its context, and `sync` runs its syncs      *)
(* once.  What a sync does is Engine's subject; here it begins and ends.   *)
(*                                                                         *)
(* Processes of several releases share the database.  A release is the     *)
(* number of migrations embedded in it; `schema` counts those the database *)
(* really carries, `version` and `dirty` are what schema_migrations says.  *)
(* Before NotifyContext is installed, and in `sync` at all times, a signal *)
(* simply kills the process, as any crash or database error during boot.   *)
(***************************************************************************)
EXTENDS Integers, Sequences, Functions

CONSTANTS
    Procs,      \* processes started on this database
    Release,    \* how many migrations each process embeds
    Syncs,      \* the configured syncs, in order
    Nobody      \* stands for the holder of a free lock

ASSUME ServeAssumption ==
    /\ Release \in [Procs -> Nat]
    /\ Syncs \in Seq(STRING)
    /\ Nobody \notin Procs

VARIABLES
    version, dirty,     \* schema_migrations
    schema,             \* migrations applied to the tables
    holder,             \* who has the advisory lock
    stalled,            \* syncs with a service that accepts and never answers
    pc,
    command,            \* "serve" or "sync"
    todo,               \* the syncs left in the current round
    tick,               \* a tick waits in the ticker's channel, which holds one
    signalled,          \* the signal context is done
    begun               \* history variable: syncs begun since then

database == <<version, dirty, schema>>
loop == <<todo, tick, signalled, begun>>
vars == <<database, holder, stalled, pc, command, loop>>

Booting == {"waiting", "locked", "pending", "apply", "applied", "booted"}
Looping == {"round", "enter", "sync", "select"}
Locked == {"locked", "pending", "apply", "applied"}

Init ==
    /\ version \in {0} \cup Range(Release)
    /\ dirty = FALSE
    /\ schema = version
    /\ holder = Nobody
    /\ stalled = {}
    /\ pc = [p \in Procs |-> "down"]
    /\ command = [p \in Procs |-> "serve"]
    /\ todo = [p \in Procs |-> <<>>]
    /\ tick = [p \in Procs |-> FALSE]
    /\ signalled = [p \in Procs |-> FALSE]
    /\ begun = [p \in Procs |-> 0]

Goto(p, where) == pc' = [pc EXCEPT ![p] = where]

(* The process ends; its database session ends with it, and the lock.      *)
Exit(p) ==
    /\ Goto(p, "down")
    /\ holder' = IF holder = p THEN Nobody ELSE holder
    /\ todo' = [todo EXCEPT ![p] = <<>>]
    /\ tick' = [tick EXCEPT ![p] = FALSE]
    /\ signalled' = [signalled EXCEPT ![p] = FALSE]
    /\ begun' = [begun EXCEPT ![p] = 0]
    /\ UNCHANGED <<database, stalled, command>>

-----------------------------------------------------------------------------
(* The environment. *)

(* The operator or a supervisor runs `serve`, or `sync` with all syncs or  *)
(* one of them.                                                            *)
Start(p) ==
    /\ pc[p] = "down"
    /\ \E c \in {"serve", "sync"}, s \in {Syncs} \cup {<<n>> : n \in Range(Syncs)} :
          /\ c = "serve" => s = Syncs
          /\ command' = [command EXCEPT ![p] = c]
          /\ todo' = [todo EXCEPT ![p] = s]
    /\ Goto(p, "waiting")
    /\ UNCHANGED <<database, holder, stalled, tick, signalled, begun>>

Kill(p) == pc[p] # "down" /\ Exit(p)

(* SIGINT or SIGTERM where NotifyContext waits for it. *)
Signal(p) ==
    /\ pc[p] \in Looping /\ command[p] = "serve" /\ ~signalled[p]
    /\ signalled' = [signalled EXCEPT ![p] = TRUE]
    /\ UNCHANGED <<database, holder, stalled, pc, command, todo, tick, begun>>

(* `migrate force`: the operator looks at the tables and sets the version  *)
(* they really have.                                                       *)
ForceVersion ==
    /\ dirty /\ holder = Nobody
    /\ version' = schema /\ dirty' = FALSE
    /\ UNCHANGED <<schema, holder, stalled, pc, command, loop>>

Stall(s) ==
    /\ stalled' = IF s \in stalled THEN stalled \ {s} ELSE stalled \cup {s}
    /\ UNCHANGED <<database, holder, pc, command, loop>>

Tick(p) ==
    /\ pc[p] \in Looping /\ command[p] = "serve" /\ ~tick[p]
    /\ tick' = [tick EXCEPT ![p] = TRUE]
    /\ UNCHANGED <<database, holder, stalled, pc, command, todo, signalled, begun>>

-----------------------------------------------------------------------------
(* boot: migrate's Up, then the store. *)

(* Mutant of MayLock: there is no lock. *)
MayLock_Always == TRUE

MayLock == holder = Nobody

Lock(p) ==
    /\ pc[p] = "waiting" /\ MayLock
    /\ holder' = p
    /\ Goto(p, "locked")
    /\ UNCHANGED <<database, stalled, command, loop>>


(* The wait for the lock is bounded, and its end fails the boot. *)
LockTimesOut(p) == pc[p] = "waiting" /\ ~MayLock /\ Exit(p)

(* Mutant of Refuses: a boot goes on over a dirty version. *)
Refuses_NeverDirty(p) == version > Release[p]

(* A dirty version, or one that this release does not know. *)
Refuses(p) == dirty \/ version > Release[p]

ReadVersion(p) ==
    /\ pc[p] = "locked"
    /\ IF Refuses(p)
       THEN Exit(p)
       ELSE Goto(p, "pending") /\ UNCHANGED <<database, holder, stalled, command, loop>>

MarkDirty(p) ==
    /\ pc[p] = "pending" /\ version < Release[p]
    /\ version' = version + 1 /\ dirty' = TRUE
    /\ Goto(p, "apply")
    /\ UNCHANGED <<schema, holder, stalled, command, loop>>

(* One migration file, in a transaction of its own: it succeeds on the     *)
(* schema before it, and on any other it fails and leaves the version      *)
(* dirty.                                                                  *)
Apply(p) ==
    /\ pc[p] = "apply"
    /\ IF schema = version - 1
       THEN /\ schema' = version
            /\ Goto(p, "applied")
            /\ UNCHANGED <<version, dirty, holder, stalled, command, loop>>
       ELSE Exit(p)

MarkClean(p) ==
    /\ pc[p] = "applied"
    /\ dirty' = FALSE
    /\ Goto(p, "pending")
    /\ UNCHANGED <<version, schema, holder, stalled, command, loop>>

(* Nothing is left to apply (ErrNoChange if nothing was to begin with). *)
Unlock(p) ==
    /\ pc[p] = "pending" /\ version >= Release[p]
    /\ holder' = Nobody
    /\ Goto(p, "booted")
    /\ UNCHANGED <<database, stalled, command, loop>>

OpenStore(p) ==
    /\ pc[p] = "booted"
    /\ Goto(p, "round")
    /\ UNCHANGED <<database, holder, stalled, command, loop>>

Boot(p) ==
    \/ Lock(p)
    \/ LockTimesOut(p)
    \/ ReadVersion(p)
    \/ MarkDirty(p)
    \/ Apply(p)
    \/ MarkClean(p)
    \/ Unlock(p)
    \/ OpenStore(p)

-----------------------------------------------------------------------------
(* runServe, runAll and runSync. *)

(* Mutant of Stops: runAll does not look at the context. *)
Stops_Never(p) == FALSE

(* runAll looks at the context before each sync; runSync has none. *)
Stops(p) == command[p] = "serve" /\ signalled[p]

(* Mutant of RoundOver: the loop over the syncs has no end. *)
RoundOver_Never(p) == FALSE

RoundOver(p) == todo[p] = <<>>

CheckContext(p) ==
    /\ pc[p] = "round" /\ ~RoundOver(p)
    /\ IF Stops(p)
       THEN Goto(p, "select") /\ todo' = [todo EXCEPT ![p] = <<>>]
       ELSE Goto(p, "enter") /\ UNCHANGED todo
    /\ UNCHANGED <<database, holder, stalled, command, tick, signalled, begun>>

BeginSync(p) ==
    /\ pc[p] = "enter"
    /\ Goto(p, "sync")
    /\ begun' = [begun EXCEPT ![p] = IF signalled[p] THEN @ + 1 ELSE @]
    /\ UNCHANGED <<database, holder, stalled, command, todo, tick, signalled>>

(* Mutant of Answers: the requests do not carry the context. *)
Answers_NoContext(p) == Head(todo[p]) \notin stalled

(* A sync ends when its calls do: with answers, or with the context. *)
Answers(p) == signalled[p] \/ Head(todo[p]) \notin stalled

(* Mutant of Rest: the first failure ends the round. *)
Rest_StopOnFailure(list, ok) == IF ok THEN Tail(list) ELSE <<>>

(* A failed sync is logged and the round goes on. *)
Rest(list, ok) == Tail(list)

EndSync(p) ==
    /\ pc[p] = "sync" /\ Answers(p)
    /\ \E ok \in BOOLEAN : todo' = [todo EXCEPT ![p] = Rest(@, ok)]
    /\ Goto(p, "round")
    /\ UNCHANGED <<database, holder, stalled, command, tick, signalled, begun>>

EndRound(p) ==
    /\ pc[p] = "round" /\ RoundOver(p)
    /\ \/ /\ command[p] = "serve"
          /\ Goto(p, "select")
          /\ UNCHANGED <<database, holder, stalled, command, loop>>
       \/ command[p] = "sync" /\ Exit(p)

(* The two cases of serve's select; where both are ready, either is taken. *)
Done(p) == pc[p] = "select" /\ signalled[p] /\ Exit(p)

Ticked(p) ==
    /\ pc[p] = "select" /\ tick[p]
    /\ tick' = [tick EXCEPT ![p] = FALSE]
    /\ todo' = [todo EXCEPT ![p] = Syncs]
    /\ Goto(p, "round")
    /\ UNCHANGED <<database, holder, stalled, command, signalled, begun>>

Run(p) ==
    \/ CheckContext(p)
    \/ BeginSync(p)
    \/ EndSync(p)
    \/ EndRound(p)
    \/ Done(p)
    \/ Ticked(p)

Next ==
    \/ ForceVersion
    \/ \E s \in Range(Syncs) : Stall(s)
    \/ \E p \in Procs : Start(p) \/ Kill(p) \/ Signal(p) \/ Tick(p)
    \/ \E p \in Procs : Boot(p) \/ Run(p)

Spec == Init /\ [][Next]_vars

(* Every statement of boot returns, every sync that is answered ends, the  *)
(* ticker ticks; Go's select chooses among ready cases at random, so a     *)
(* case that is ready again and again is taken in the end.                 *)
Fairness ==
    \A p \in Procs :
        /\ WF_vars(Boot(p))
        /\ WF_vars(Run(p))
        /\ WF_vars(Tick(p))
        /\ SF_vars(Done(p))

FairSpec == Spec /\ Fairness

-----------------------------------------------------------------------------
(* Properties *)

TypeOK ==
    /\ version \in Nat /\ schema \in Nat /\ dirty \in BOOLEAN
    /\ holder \in Procs \cup {Nobody}
    /\ stalled \subseteq Range(Syncs)
    /\ pc \in [Procs -> Booting \cup Looping \cup {"down"}]
    /\ command \in [Procs -> {"serve", "sync"}]
    /\ todo \in [Procs -> Seq(Range(Syncs))]
    /\ tick \in [Procs -> BOOLEAN]
    /\ signalled \in [Procs -> BOOLEAN]
    /\ begun \in [Procs -> Nat]
    /\ \A p \in Procs : pc[p] \in {"enter", "sync"} => todo[p] # <<>>

(* A migration meets the schema it was written for, and so runs once:      *)
(* whoever boots beside it, wherever boots died before it, and whatever    *)
(* release they were (per-target-seen/design.md section 3, "concurrent     *)
(* boots are safe"; migrate.go:19-20, "Never auto-Forces").                *)
SchemaFits ==
    \A p \in Procs : pc[p] = "apply" => schema = version - 1

(* No sync runs on tables older than its release, or on half a migration   *)
(* of its own (sync-state/spec.md, "Dirty still fails fast").              *)
RunsMigrated ==
    \A p \in Procs :
        pc[p] \in Looping =>
            /\ schema >= Release[p]
            /\ dirty => version > Release[p]

(* A signal stops serve from working down its list: only a sync that had   *)
(* passed the check can still begin (runAll, main.go:240-244).             *)
SignalStopsRound ==
    \A p \in Procs : begun[p] <= 1

(* serve ends after a signal, though ticks go on coming and a service      *)
(* never answers (README.md, "Ticker loop on `interval` until              *)
(* SIGINT/SIGTERM").                                                       *)
SignalEnds ==
    \A p \in Procs : signalled[p] ~> pc[p] = "down"

(* While serve is up, every sync runs again and again, whichever of the    *)
(* others fail; only a service that never answers stops them all.          *)
EverySyncRuns ==
    \A p \in Procs : \A s \in Range(Syncs) :
        pc[p] \in Looping /\ command[p] = "serve" ~>
            \/ pc[p] = "sync" /\ Head(todo[p]) = s
            \/ pc[p] = "sync" /\ Head(todo[p]) \in stalled
            \/ signalled[p]
            \/ pc[p] = "down"

=============================================================================
