---------------------------- MODULE EngineProofs ----------------------------
(***************************************************************************)
(* The safety of Engine for any number of processes, items, targets and    *)
(* faults: type correctness, SeenIsDelivered and CursorCovers.             *)
(***************************************************************************)
EXTENDS Engine, TLAPS

-----------------------------------------------------------------------------
(* The inductive invariant: what each process knows at each point of Sync. *)

InLoop(r) == r.pc \in {"diff", "mark", "finish"}

(* The cursor a process read, like the stored one, covers what is behind   *)
(* it.                                                                     *)
SinceCovers(p) ==
    \A i \in visible \ late : watched[i] < run[p].since => SeenByAll(i)

(* What surfaced before the fetch is in the window, or was covered by the  *)
(* cursor already; a window without items proves nothing, and leads        *)
(* nowhere.                                                                *)
WindowCovers(p) ==
    InLoop(run[p]) /\ run[p].items # {} =>
        \A i \in visible \ late :
            watched[i] < run[p].windowEnd => i \in Listed(run[p].items) \/ SeenByAll(i)

(* As long as nothing went wrong, the targets behind the loop have all of  *)
(* the window recorded.                                                    *)
TargetsDone(p) ==
    InLoop(run[p]) /\ run[p].allOK =>
        \A k \in 1 .. Len(names) :
            k < run[p].idx => \A e \in run[p].items : <<names[k], e[1]>> \in seen

DiffSplits(p) ==
    run[p].pc = "diff" =>
        \A e \in run[p].items :
            e \in run[p].todo \/ e \in run[p].fresh \/ <<Target(p), e[1]>> \in seen

MarksLeft(p) ==
    run[p].pc = "mark" =>
        /\ run[p].items # {}
        /\ \A e \in run[p].todo :
              <<Target(p), e[1]>> \in Unnamed \/ sent[<<Target(p), e[1]>>] > 0
        /\ run[p].allOK =>
              \A e \in run[p].items : e \in run[p].todo \/ <<Target(p), e[1]>> \in seen

LoopEnds(p) ==
    /\ run[p].pc \in {"window", "history"} => ~run[p].anyFresh /\ run[p].items = {}
    /\ run[p].pc = "finish" => run[p].idx > Len(names)
    /\ InLoop(run[p]) /\ run[p].anyFresh => run[p].items # {}

RunInv(p) ==
    /\ SinceCovers(p)
    /\ WindowCovers(p)
    /\ TargetsDone(p)
    /\ DiffSplits(p)
    /\ MarksLeft(p)
    /\ LoopEnds(p)

(* What a report left out did reach the service.                           *)
OmittedWasSent ==
    \A x \in Targets \X Items : unreported[x] > 0 => sent[x] > 0

IInv ==
    /\ TypeOK
    /\ OmittedWasSent
    /\ SeenIsDelivered
    /\ CursorCovers
    /\ \A p \in Procs : RunInv(p)

-----------------------------------------------------------------------------
(* Types. *)

LEMMA IdleType ==
    Idle \in RunState
BY DEF Idle, RunState

LEMMA RowType ==
    \A e \in Rows : e[1] \in Items
BY DEF Rows

(* Entering a target keeps the window and what is known of it, and leaves  *)
(* the loop exactly when no target is left.                                *)
LEMMA EnterTargetFields ==
    ASSUME names \in Seq(Targets), NEW r \in RunState, NEW k \in Nat \ {0}
    PROVE  LET e == EnterTarget(r, k) IN
           /\ e \in RunState
           /\ e.pc \in {"diff", "finish"}
           /\ e.pc = "diff" <=> k <= Len(names)
           /\ e.idx = k
           /\ e.items = r.items
           /\ e.todo = IF k <= Len(names) THEN r.items ELSE {}
           /\ e.fresh = {}
           /\ e.since = r.since /\ e.windowEnd = r.windowEnd
           /\ e.anyFresh = r.anyFresh /\ e.allOK = r.allOK
BY DEF EnterTarget, RunState

(* What a process may become without breaking the type invariant. *)
RunOK(r) ==
    /\ r \in RunState
    /\ Listed(r.items) \subseteq visible
    /\ r.todo \cup r.fresh \subseteq r.items
    /\ r.pc \in {"diff", "mark"} => r.idx \in 1 .. Len(names)

LEMMA IdleOK ==
    RunOK(Idle)
BY DEF RunOK, Idle, RunState, Listed

LEMMA EnterTargetOK ==
    ASSUME names \in Seq(Targets), NEW r \in RunState, NEW k \in Nat \ {0},
           Listed(r.items) \subseteq visible
    PROVE  RunOK(EnterTarget(r, k))
<1>1. Len(names) \in Nat
  OBVIOUS
<1>2. QED
  BY <1>1, EnterTargetFields DEF RunOK

(* A step that changes one process and leaves the source and the target    *)
(* list alone keeps every process well typed.                              *)
LEMMA GotoType ==
    ASSUME run \in [Procs -> RunState], \A q \in Procs : RunOK(run[q]),
           UNCHANGED <<source, names>>,
           NEW p \in Procs, NEW r, RunOK(r), Goto(p, r)
    PROVE  /\ run' \in [Procs -> RunState]
           /\ \A q \in Procs : RunOK(run[q])'
BY DEF Goto, RunOK, source

LEMMA FaultsType ==
    ASSUME faults \in Nat, NEW p, Works(p) \/ Fails(p)
    PROVE  faults' \in Nat
BY DEF Works, Fails

(* The part of TypeOK that the steps of a process leave alone or disturb   *)
(* in one variable only.                                                   *)
SharedOK ==
    /\ clock \in 1 .. (MaxTime + 1)
    /\ visible \subseteq Items /\ late \subseteq visible
    /\ watched \in [Items -> Nat]
    /\ names \in Seq(Targets)
    /\ cursor \in Nat
    /\ seen \subseteq Targets \X Items
    /\ sent \in [Targets \X Items -> Nat] /\ unreported \in [Targets \X Items -> Nat]
    /\ faults \in Nat
    /\ run \in [Procs -> RunState]

LEMMA TypeParts ==
    TypeOK <=> SharedOK /\ \A p \in Procs : RunOK(run[p])
BY DEF TypeOK, SharedOK, RunOK

(* What a Push leaves behind: the process's locals, and one more call in   *)
(* the counts of the items it brought, as far as their pairs are counted.  *)
AfterPush(r, delivered, err) ==
    [r EXCEPT !.pc = "mark", !.anyFresh = TRUE,
              !.allOK = @ /\ TookAll(r.fresh, delivered, err),
              !.todo = ToMark(r.fresh, delivered), !.fresh = {}]

OneMore(count, t, rows) ==
    [x \in Targets \X Items |->
       IF x \in {y \in {t} \X Items : unreported[y] < MaxUnreported} /\ x[2] \in Listed(rows)
       THEN count[x] + 1 ELSE count[x]]

PushReturns(p, received, omitted, delivered, err) ==
    /\ sent' = OneMore(sent, Target(p), received)
    /\ unreported' = OneMore(unreported, Target(p), omitted)
    /\ Goto(p, AfterPush(run[p], delivered, err))
    /\ omitted \subseteq received
    /\ \A e \in delivered : e \in received \/ <<Target(p), e[1]>> \in Unnamed
    /\ \/ Works(p) /\ received \subseteq omitted \cup delivered
       \/ faults' = faults /\ received = {}
       \/ Fails(p)

(* In good order, all that a call brought the service is in its report or  *)
(* counted as left out.                                                    *)
LEMMA PushCases ==
    ASSUME NEW p, Push(p)
    PROVE  \E received, omitted, delivered \in SUBSET run[p].fresh, err \in BOOLEAN :
              PushReturns(p, received, omitted, delivered, err)
<1> DEFINE t == Target(p)
           fresh == run[p].fresh
           takes == {e \in fresh : <<t, e[1]>> \notin Unsupported}
           unnamed == {e \in fresh : <<t, e[1]>> \in Unnamed}
           withheld == {e \in takes : \E f \in fresh : <<t, e[1], f[1]>> \in Confused}
           Outcome(received, omitted, delivered, err) ==
             /\ sent' = OneMore(sent, t, received)
             /\ unreported' = OneMore(unreported, t, omitted)
             /\ Goto(p, AfterPush(run[p], delivered, err))
<1>1. \/ Works(p) /\ Outcome(takes, withheld, (takes \ withheld) \cup unnamed, FALSE)
      \/ faults' = faults /\ Outcome({}, {}, {}, TRUE)
      \/ Fails(p) /\ \E received \in SUBSET takes, err \in BOOLEAN :
                       \E delivered \in SUBSET (received \cup unnamed) :
                          Outcome(received, {}, delivered, err)
  BY DEF Push, OneMore, AfterPush
<1> HIDE DEF Outcome
<1>2. ASSUME NEW received \in SUBSET fresh, NEW omitted \in SUBSET received,
             NEW delivered \in SUBSET fresh, NEW err \in BOOLEAN,
             Outcome(received, omitted, delivered, err),
             \A e \in delivered : e \in received \/ e \in unnamed,
             \/ Works(p) /\ received \subseteq omitted \cup delivered
             \/ faults' = faults /\ received = {}
             \/ Fails(p)
      PROVE  PushReturns(p, received, omitted, delivered, err)
  BY <1>2 DEF Outcome, PushReturns
<1>3. CASE Works(p) /\ Outcome(takes, withheld, (takes \ withheld) \cup unnamed, FALSE)
  <2>1. PushReturns(p, takes, withheld, (takes \ withheld) \cup unnamed, FALSE)
    BY <1>2, <1>3
  <2>2. QED
    BY <2>1
<1>4. CASE faults' = faults /\ Outcome({}, {}, {}, TRUE)
  <2>1. PushReturns(p, {}, {}, {}, TRUE)
    BY <1>2, <1>4
  <2>2. QED
    BY <2>1
<1>5. CASE Fails(p) /\ \E received \in SUBSET takes, err \in BOOLEAN :
                          \E delivered \in SUBSET (received \cup unnamed) :
                             Outcome(received, {}, delivered, err)
  <2>1. PICK received \in SUBSET takes, err \in BOOLEAN :
           \E delivered \in SUBSET (received \cup unnamed) :
              Outcome(received, {}, delivered, err)
    BY <1>5
  <2>2. PICK delivered \in SUBSET (received \cup unnamed) :
           Outcome(received, {}, delivered, err)
    BY <2>1
  <2>3. received \in SUBSET fresh /\ delivered \in SUBSET fresh /\ {} \in SUBSET received
    OBVIOUS
  <2>4. PushReturns(p, received, {}, delivered, err)
    BY <1>2, <1>5, <2>2, <2>3
  <2>5. QED
    BY <2>3, <2>4
<1>6. QED
  BY <1>1, <1>3, <1>4, <1>5

LEMMA TypeInit ==
    Init => TypeOK
BY EngineAssumption, IdleType DEF Init, TypeOK, Idle, Listed

(* Every step keeps the types, one action at a time. *)
LEMMA TypeStep ==
    TypeOK /\ [Next]_vars => TypeOK'
<1> SUFFICES ASSUME TypeOK, [Next]_vars
             PROVE  TypeOK'
  OBVIOUS
<1> USE DEF SharedOK
<1>1. SharedOK /\ \A p \in Procs : RunOK(run[p])
  BY TypeParts
<1>2. names \in Seq(Targets) /\ Len(names) \in Nat /\ clock \in Nat
  BY <1>1, EngineAssumption
<1>3. CASE UNCHANGED vars
  BY <1>3 DEF TypeOK, vars, source
<1>4. CASE Tick
  BY <1>1, <1>4, EngineAssumption DEF Tick, TypeOK, source
<1>5. ASSUME NEW i \in Items, NEW w \in 1 .. MaxTime, Surface(i, w)
      PROVE  TypeOK'
  BY <1>1, <1>5, EngineAssumption DEF Surface, TypeOK, source
<1>6. ASSUME NEW p \in Procs, Sync(p) \/ Crash(p) \/ Cancel(p)
      PROVE  TypeOK'
  <2> DEFINE r == run[p]
  <2>1. r \in RunState /\ RunOK(r) /\ r.idx \in Nat
    BY <1>1 DEF RunState
  <2>2. ASSUME NEW s, RunOK(s), Goto(p, s),
               UNCHANGED <<clock, source, names>>,
               cursor' \in Nat, seen' \subseteq Targets \X Items,
               sent' \in [Targets \X Items -> Nat],
               unreported' \in [Targets \X Items -> Nat], faults' \in Nat
        PROVE  TypeOK'
    <3>1. /\ run' \in [Procs -> RunState]
          /\ \A q \in Procs : RunOK(run[q])'
      BY <1>1, <2>2, GotoType
    <3>2. SharedOK'
      BY <1>1, <2>2, <3>1 DEF source
    <3>3. QED
      BY <3>1, <3>2 DEF TypeOK, RunOK
  <2>3. CASE Crash(p)
    BY <1>1, <2>2, <2>3, IdleOK DEF Crash, Return
  <2>4. CASE Cancel(p)
    <3>1. RunOK([r EXCEPT !.cancelled = TRUE])
      BY <2>1 DEF RunOK, RunState
    <3>2. /\ UNCHANGED <<clock, source, names, cursor, seen, sent, unreported>>
          /\ faults' \in Nat /\ Goto(p, [r EXCEPT !.cancelled = TRUE])
      BY <1>1, <2>4 DEF Cancel
    <3>3. QED
      BY <1>1, <2>2, <3>1, <3>2
  <2>5. CASE ReadCursor(p)
    <3>1. RunOK([Idle EXCEPT !.pc = "window", !.since = cursor])
      BY <1>1 DEF RunOK, Idle, RunState, Listed
    <3>2. QED
      BY <1>1, <2>2, <2>5, <3>1, IdleOK, FaultsType DEF ReadCursor, Return
  <2>6. CASE OpenWindow(p)
    <3>1. RunOK([r EXCEPT !.pc = "history", !.windowEnd = clock])
      BY <1>2, <2>1, <2>6 DEF RunOK, RunState, OpenWindow
    <3>2. QED
      BY <1>1, <2>2, <2>6, <3>1 DEF OpenWindow
  <2>7. CASE FetchHistory(p)
    <3>1. ASSUME NEW older \in SUBSET (visible \ Window(r.since)),
                 NEW rows \in Listings(Window(r.since) \cup older)
          PROVE  RunOK(EnterTarget([r EXCEPT !.items = rows], 1))
      <4> DEFINE u == [r EXCEPT !.items = rows]
      <4>1. rows \subseteq Rows /\ Listed(rows) = Window(r.since) \cup older
        BY DEF Listings
      <4>2. u \in RunState /\ u.items = rows
        BY <2>1, <4>1 DEF RunState
      <4>3. Listed(u.items) \subseteq visible
        BY <4>1, <4>2 DEF Window
      <4> HIDE DEF u
      <4>4. RunOK(EnterTarget(u, 1))
        BY <1>2, <4>2, <4>3, EnterTargetOK
      <4>5. QED
        BY <4>4 DEF u
    <3>2. RunOK(EnterTarget(r, 1))
      BY <1>1, <2>1, EnterTargetOK DEF RunOK
    <3>3. QED
      BY <1>1, <2>2, <2>7, <3>1, <3>2, IdleOK, FaultsType DEF FetchHistory, Return
  <2>8. ASSUME NEW i \in Rows, LookUp(p, i)
        PROVE  TypeOK'
    <3> DEFINE u == [r EXCEPT !.todo = @ \ {i},
                       !.fresh = IF IsFresh(Target(p), i[1]) THEN @ \cup {i} ELSE @]
    <3>1. RunOK(u)
      BY <2>1, <2>8 DEF RunOK, RunState, LookUp, NextRow
    <3>2. QED
      BY <1>1, <2>2, <2>8, <3>1, IdleOK, FaultsType DEF LookUp, Return
  <2>9. CASE SkipTarget(p)
    <3>1. Listed(r.items) \subseteq visible /\ r.idx + 1 \in Nat \ {0}
      BY <2>1 DEF RunOK
    <3>2. RunOK(EnterTarget(r, r.idx + 1))
      BY <1>2, <2>1, <3>1, EnterTargetOK
    <3>3. QED
      BY <1>1, <2>2, <2>9, <3>2 DEF SkipTarget
  <2>10. CASE Push(p)
    <3>1. PICK received, omitted, delivered \in SUBSET r.fresh, err \in BOOLEAN :
             PushReturns(p, received, omitted, delivered, err)
      BY <2>10, PushCases
    <3>2. RunOK(AfterPush(r, delivered, err))
      BY <2>1, <2>10 DEF RunOK, RunState, AfterPush, Push, TookAll, ToMark
    <3>3. /\ sent' \in [Targets \X Items -> Nat]
          /\ unreported' \in [Targets \X Items -> Nat]
      BY <1>1, <3>1 DEF PushReturns, OneMore
    <3>4. faults' \in Nat
      BY <1>1, <2>10, FaultsType DEF Push
    <3>5. UNCHANGED <<clock, source, names, cursor, seen>>
      BY <2>10 DEF Push
    <3>6. Goto(p, AfterPush(r, delivered, err))
      BY <3>1 DEF PushReturns
    <3>7. QED
      BY <1>1, <2>2, <3>2, <3>3, <3>4, <3>5, <3>6
  <2>11. ASSUME NEW i \in Rows, Mark(p, i)
         PROVE  TypeOK'
    <3>1. RunOK([r EXCEPT !.todo = @ \ {i}])
      BY <2>1, <2>11 DEF RunOK, RunState, Mark
    <3>2. RunOK([r EXCEPT !.todo = @ \ {i}, !.allOK = FALSE])
      BY <2>1, <2>11 DEF RunOK, RunState, Mark
    <3>3. Target(p) \in Targets
      BY <1>1, <2>1, <2>11 DEF Target, RunOK, Mark
    <3>4. seen' \subseteq Targets \X Items
      BY <1>1, <2>11, <3>3, RowType DEF Mark
    <3>5. QED
      BY <1>1, <2>2, <2>11, <3>1, <3>2, <3>4, FaultsType DEF Mark
  <2>12. CASE NextTarget(p)
    <3>1. Listed(r.items) \subseteq visible /\ r.idx + 1 \in Nat \ {0}
      BY <2>1 DEF RunOK
    <3>2. RunOK(EnterTarget(r, r.idx + 1))
      BY <1>2, <2>1, <3>1, EnterTargetOK
    <3>3. QED
      BY <1>1, <2>2, <2>12, <3>2 DEF NextTarget
  <2>13. CASE Finish(p)
    <3>1. r.windowEnd \in Nat
      BY <2>1 DEF RunState
    <3>2. cursor' \in Nat /\ faults' \in Nat
      BY <1>1, <2>13, <3>1, FaultsType DEF Finish, SetLastRun
    <3>3. QED
      BY <1>1, <2>2, <2>13, <3>2, IdleOK DEF Finish, Return
  <2>14. QED
    BY <1>6, <2>3, <2>4, <2>5, <2>6, <2>7, <2>8, <2>9, <2>10, <2>11, <2>12, <2>13
       DEF Sync
<1>7. QED
  BY <1>3, <1>4, <1>5, <1>6 DEF Next

(* Type correctness, for every number of processes, items and targets. *)
THEOREM TypeCorrect ==
    Spec => []TypeOK
BY TypeInit, TypeStep, PTL DEF Spec

-----------------------------------------------------------------------------
(* Coverage. *)

(* Deliveries and seen rows are never taken back, so what a process knows  *)
(* stays true while others take their steps.                               *)
Grows ==
    /\ UNCHANGED <<source, names>>
    /\ seen \subseteq seen'
    /\ \A x \in Targets \X Items : sent[x] > 0 => sent'[x] > 0

LEMMA SeenByAllKept ==
    ASSUME names' = names, seen \subseteq seen', NEW i, SeenByAll(i)
    PROVE  SeenByAll(i)'
BY DEF SeenByAll

LEMMA TargetType ==
    ASSUME names \in Seq(Targets), NEW p,
           run[p].idx \in 1 .. Len(names)
    PROVE  Target(p) \in Targets
BY DEF Target

LEMMA KeepRun ==
    ASSUME names \in Seq(Targets), Grows,
           NEW p, run'[p] = run[p], RunOK(run[p]), RunInv(p)
    PROVE  RunInv(p)'
<1>1. visible' = visible /\ watched' = watched /\ late' = late /\ names' = names
  BY DEF Grows, source
<1>2. \A i : SeenByAll(i) => SeenByAll(i)'
  BY <1>1, SeenByAllKept DEF Grows
<1>3. SinceCovers(p)'
  BY <1>1, <1>2 DEF RunInv, SinceCovers
<1>4. WindowCovers(p)'
  BY <1>1, <1>2 DEF RunInv, WindowCovers, InLoop
<1>5. TargetsDone(p)'
  BY <1>1 DEF RunInv, TargetsDone, InLoop, Grows
<1>6. Target(p)' = Target(p)
  BY <1>1 DEF Target
<1>7. DiffSplits(p)'
  BY <1>6 DEF RunInv, DiffSplits, Grows
<1>8. MarksLeft(p)'
  <2> SUFFICES ASSUME run[p].pc = "mark"
               PROVE  MarksLeft(p)'
    BY DEF MarksLeft
  <2>1. Target(p) \in Targets
    BY TargetType DEF RunOK
  <2>2. \A e \in run[p].todo : e[1] \in Items
    BY RowType DEF RunOK, RunState
  <2>3. QED
    BY <1>6, <2>1, <2>2 DEF RunInv, MarksLeft, Grows
<1>9. LoopEnds(p)'
  BY <1>1 DEF RunInv, LoopEnds, InLoop
<1>10. QED
  BY <1>3, <1>4, <1>5, <1>7, <1>8, <1>9 DEF RunInv

LEMMA IdleInv ==
    ASSUME watched' \in [Items -> Nat], visible' \subseteq Items,
           NEW p, run'[p] = Idle
    PROVE  RunInv(p)'
<1>1. \A i \in visible' : ~(watched'[i] < 0)
  OBVIOUS
<1>2. QED
  BY <1>1 DEF RunInv, Idle, SinceCovers, WindowCovers, TargetsDone, DiffSplits,
              MarksLeft, LoopEnds, InLoop

(* What the loop over targets needs to know to enter the k-th target. *)
LEMMA EnterTargetInv ==
    ASSUME names \in Seq(Targets), UNCHANGED <<source, names, seen>>,
           NEW p, NEW u \in RunState, NEW k \in Nat \ {0},
           run'[p] = EnterTarget(u, k),
           \A i \in visible \ late : watched[i] < u.since => SeenByAll(i),
           u.items # {} =>
              \A i \in visible \ late :
                 watched[i] < u.windowEnd => i \in Listed(u.items) \/ SeenByAll(i),
           u.allOK =>
              \A j \in 1 .. Len(names) :
                 j < k => \A e \in u.items : <<names[j], e[1]>> \in seen,
           u.anyFresh => u.items # {}
    PROVE  RunInv(p)'
<1> DEFINE v == run'[p]
<1>1. /\ v.pc \in {"diff", "finish"}
      /\ v.pc = "diff" <=> k <= Len(names)
      /\ v.idx = k
      /\ v.items = u.items
      /\ v.todo = IF k <= Len(names) THEN u.items ELSE {}
      /\ v.since = u.since /\ v.windowEnd = u.windowEnd
      /\ v.anyFresh = u.anyFresh /\ v.allOK = u.allOK
  BY EnterTargetFields
<1>2. visible' = visible /\ watched' = watched /\ late' = late /\ names' = names
      /\ seen' = seen
  BY DEF source
<1>3. \A i : SeenByAll(i)' = SeenByAll(i)
  BY <1>2 DEF SeenByAll
<1>4. SinceCovers(p)'
  BY <1>1, <1>2, <1>3 DEF SinceCovers
<1>5. WindowCovers(p)'
  BY <1>1, <1>2, <1>3 DEF WindowCovers
<1>6. TargetsDone(p)'
  BY <1>1, <1>2 DEF TargetsDone
<1>7. DiffSplits(p)'
  BY <1>1 DEF DiffSplits
<1>8. MarksLeft(p)'
  BY <1>1 DEF MarksLeft
<1>9. LoopEnds(p)'
  <2>1. Len(names) \in Nat
    OBVIOUS
  <2>2. v.pc = "finish" => v.idx > Len(names)
    BY <1>1, <2>1
  <2>3. QED
    BY <1>1, <1>2, <2>2 DEF LoopEnds
<1>10. QED
  BY <1>4, <1>5, <1>6, <1>7, <1>8, <1>9 DEF RunInv

(* A step of process p that grows the ledger keeps the invariant, if it    *)
(* keeps p's own part of it, what is recorded was delivered, and a cursor  *)
(* that moved covers.                                                      *)
LEMMA ProcessStep ==
    ASSUME IInv, TypeOK', Grows, NEW p \in Procs, NEW s, Goto(p, s),
           RunInv(p)',
           OmittedWasSent', \A x \in seen' \ seen : x \in Unnamed \/ sent'[x] > 0,
           cursor' = cursor \/ CursorCovers'
    PROVE  IInv'
<1>1. SharedOK /\ \A q \in Procs : RunOK(run[q])
  BY TypeParts DEF IInv
<1>2. ASSUME NEW q \in Procs
      PROVE  RunInv(q)'
  <2>1. CASE q = p
    BY <2>1
  <2>2. CASE q # p
    <3>1. run'[q] = run[q]
      BY <1>1, <2>2 DEF Goto, SharedOK
    <3>2. QED
      BY <1>1, <3>1, KeepRun DEF IInv, SharedOK
  <2>3. QED
    BY <2>1, <2>2
<1>3. CursorCovers'
  <2>1. CASE cursor' = cursor
    BY <2>1, SeenByAllKept DEF IInv, CursorCovers, Grows, source
  <2>2. QED
    BY <2>1
<1>4. SeenIsDelivered'
  BY <1>1 DEF IInv, SeenIsDelivered, Grows, SharedOK
<1>5. QED
  BY <1>2, <1>3, <1>4 DEF IInv

(* A new item is not behind any bound, or is late: nothing is claimed of   *)
(* it that is not true of it.                                              *)
LEMMA SurfaceStep ==
    ASSUME IInv, TypeOK', NEW i \in Items, NEW w \in 1 .. MaxTime, Surface(i, w)
    PROVE  IInv'
<1>1. SharedOK /\ \A q \in Procs : RunOK(run[q])
  BY TypeParts DEF IInv
<1>2. /\ names' = names /\ seen' = seen /\ sent' = sent /\ cursor' = cursor
      /\ unreported' = unreported
      /\ run' = run
      /\ visible' = visible \cup {i}
      /\ \A j \in visible : watched'[j] = watched[j]
      /\ visible \cap late' = late
  BY <1>1 DEF Surface, SharedOK
<1>3. \A j : SeenByAll(j)' = SeenByAll(j)
  BY <1>2 DEF SeenByAll
<1>4. \A b \in Bounds : i \in late' \/ ~(watched'[i] < b)
  BY <1>1 DEF Surface, SharedOK
<1>5. \A j \in visible' \ late' : j = i \/ j \in visible \ late
  BY <1>2
<1>6. CursorCovers'
  <2>1. cursor \in Bounds
    BY DEF Bounds
  <2>2. QED
    BY <1>2, <1>3, <1>4, <1>5, <2>1 DEF IInv, CursorCovers
<1>7. ASSUME NEW p \in Procs
      PROVE  RunInv(p)'
  <2>1. run[p].since \in Bounds /\ run[p].windowEnd \in Bounds
    BY DEF Bounds
  <2>2. RunInv(p)
    BY DEF IInv
  <2>3. SinceCovers(p)'
    BY <1>2, <1>3, <1>4, <1>5, <2>1, <2>2 DEF RunInv, SinceCovers
  <2>4. WindowCovers(p)'
    BY <1>2, <1>3, <1>4, <1>5, <2>1, <2>2 DEF RunInv, WindowCovers
  <2>5. TargetsDone(p)' /\ DiffSplits(p)' /\ MarksLeft(p)' /\ LoopEnds(p)'
    BY <1>2, <2>2 DEF RunInv, TargetsDone, DiffSplits, MarksLeft, LoopEnds, Target
  <2>6. QED
    BY <2>3, <2>4, <2>5 DEF RunInv
<1>8. SeenIsDelivered' /\ OmittedWasSent'
  BY <1>2 DEF IInv, SeenIsDelivered, OmittedWasSent
<1>9. QED
  BY <1>6, <1>7, <1>8 DEF IInv

LEMMA InvInit ==
    Init => IInv
<1> SUFFICES ASSUME Init
             PROVE  IInv
  OBVIOUS
<1>1. TypeOK
  BY TypeInit
<1>2. OmittedWasSent /\ SeenIsDelivered /\ CursorCovers
  BY DEF Init, OmittedWasSent, SeenIsDelivered, CursorCovers
<1>3. ASSUME NEW p \in Procs
      PROVE  RunInv(p)
  BY DEF Init, Idle, RunInv, SinceCovers, WindowCovers, TargetsDone, DiffSplits,
         MarksLeft, LoopEnds, InLoop
<1>4. QED
  BY <1>1, <1>2, <1>3 DEF IInv

(* The heart of the argument, one step per action of engine.Sync. *)
LEMMA SyncStep ==
    ASSUME IInv, TypeOK', NEW p \in Procs, Sync(p) \/ Crash(p) \/ Cancel(p)
    PROVE  IInv'
<1> DEFINE r == run[p]
<1>1. SharedOK /\ RunOK(r) /\ RunInv(p)
  BY TypeParts DEF IInv
<1>2. /\ names \in Seq(Targets) /\ Len(names) \in Nat
      /\ r \in RunState /\ r.idx \in Nat /\ run \in [Procs -> RunState]
      /\ watched \in [Items -> Nat] /\ visible \subseteq Items
      /\ Listed(r.items) \subseteq visible /\ r.todo \cup r.fresh \subseteq r.items
  BY <1>1 DEF SharedOK, RunOK, RunState
<1>3. ASSUME NEW s, Goto(p, s)
      PROVE  run'[p] = s
  BY <1>2, <1>3 DEF Goto
<1>4. ASSUME UNCHANGED <<source, names, cursor, seen, sent, unreported>>, Return(p)
      PROVE  IInv'
  <2>1. run'[p] = Idle
    BY <1>3, <1>4 DEF Return
  <2>2. RunInv(p)'
    BY <1>2, <1>4, <2>1, IdleInv DEF source
  <2>3. Grows /\ OmittedWasSent'
    BY <1>4 DEF Grows, IInv, OmittedWasSent
  <2>4. QED
    BY <1>4, <2>2, <2>3, ProcessStep DEF Return
<1>5. ASSUME UNCHANGED <<source, names, cursor, seen, sent, unreported>>,
             NEW s, Goto(p, s), RunInv(p)'
      PROVE  IInv'
  <2>1. Grows /\ OmittedWasSent'
    BY <1>5 DEF Grows, IInv, OmittedWasSent
  <2>2. QED
    BY <1>5, <2>1, ProcessStep
<1>6. ASSUME UNCHANGED <<source, names, seen>>
      PROVE  \A i : SeenByAll(i)' = SeenByAll(i)
  BY <1>6 DEF SeenByAll
<1>7. CASE Crash(p)
  BY <1>4, <1>7 DEF Crash
<1>8. CASE Cancel(p)
  <2>1. run'[p] = [r EXCEPT !.cancelled = TRUE]
    BY <1>3, <1>8 DEF Cancel
  <2>2. UNCHANGED <<source, names, cursor, seen, sent, unreported>>
    BY <1>8 DEF Cancel
  <2>3. /\ run'[p].pc = r.pc /\ run'[p].since = r.since
        /\ run'[p].windowEnd = r.windowEnd /\ run'[p].items = r.items
        /\ run'[p].idx = r.idx /\ run'[p].todo = r.todo /\ run'[p].fresh = r.fresh
        /\ run'[p].anyFresh = r.anyFresh /\ run'[p].allOK = r.allOK
    BY <1>2, <2>1 DEF RunState
  <2>4. RunInv(p)'
    BY <1>1, <1>6, <2>2, <2>3
       DEF RunInv, SinceCovers, WindowCovers, TargetsDone, DiffSplits, MarksLeft,
           LoopEnds, InLoop, Target, source
  <2>5. QED
    BY <1>5, <1>8, <2>2, <2>4 DEF Cancel
<1>9. CASE ReadCursor(p)
  <2>1. UNCHANGED <<source, names, cursor, seen, sent, unreported>>
    BY <1>9 DEF ReadCursor
  <2>2. CASE Return(p)
    BY <1>4, <2>1, <2>2
  <2>3. CASE Goto(p, [Idle EXCEPT !.pc = "window", !.since = cursor])
    <3>1. /\ run'[p].pc = "window" /\ run'[p].since = cursor
          /\ run'[p].windowEnd = 0 /\ ~run'[p].anyFresh /\ run'[p].items = {}
      BY <1>3, <2>3 DEF Idle
    <3>2. RunInv(p)'
      BY <1>6, <2>1, <3>1
         DEF IInv, CursorCovers, RunInv, SinceCovers, WindowCovers, TargetsDone,
             DiffSplits, MarksLeft, LoopEnds, InLoop, source
    <3>3. QED
      BY <1>5, <2>1, <2>3, <3>2
  <2>4. QED
    BY <1>9, <2>2, <2>3 DEF ReadCursor
<1>10. CASE OpenWindow(p)
  <2>1. UNCHANGED <<source, names, cursor, seen, sent, unreported>>
    BY <1>10 DEF OpenWindow
  <2>2. /\ run'[p].pc = "history" /\ run'[p].since = r.since
        /\ run'[p].anyFresh = r.anyFresh /\ run'[p].items = r.items
    BY <1>2, <1>3, <1>10 DEF OpenWindow, RunState
  <2>3. RunInv(p)'
    BY <1>1, <1>6, <1>10, <2>1, <2>2
       DEF RunInv, SinceCovers, WindowCovers, TargetsDone, DiffSplits, MarksLeft,
           LoopEnds, InLoop, source, OpenWindow
  <2>4. QED
    BY <1>5, <1>10, <2>1, <2>3 DEF OpenWindow
<1>11. CASE FetchHistory(p)
  <2>1. UNCHANGED <<source, names, cursor, seen, sent, unreported>>
    BY <1>11 DEF FetchHistory
  <2>2. CASE Return(p)
    BY <1>4, <2>1, <2>2
  <2>3. ASSUME NEW got \in SUBSET Rows,
               got = {} \/ Window(r.since) \subseteq Listed(got),
               NEW u, u = [r EXCEPT !.items = got],
               r.anyFresh => got # {},
               Goto(p, EnterTarget(u, 1))
        PROVE  IInv'
    <3>1. /\ u \in RunState /\ u.since = r.since /\ u.items = got
          /\ u.anyFresh = r.anyFresh
      BY <1>2, <2>3 DEF RunState
    <3>2. \A i \in visible \ late : watched[i] < u.since => SeenByAll(i)
      BY <1>1, <3>1 DEF RunInv, SinceCovers
    <3>3. \A i \in visible \ late : i \in Window(r.since) \/ watched[i] < u.since
      BY <1>2, <3>1 DEF Window, RunState
    <3>4. u.items # {} =>
            \A i \in visible \ late :
               watched[i] < u.windowEnd => i \in Listed(u.items) \/ SeenByAll(i)
      BY <2>3, <3>1, <3>2, <3>3
    <3>5. run'[p] = EnterTarget(u, 1)
      BY <1>3, <2>3
    <3>6. /\ u.allOK =>
               \A j \in 1 .. Len(names) :
                  j < 1 => \A e \in u.items : <<names[j], e[1]>> \in seen
          /\ u.anyFresh => u.items # {}
          /\ 1 \in Nat \ {0}
      BY <1>2, <2>3, <3>1
    <3>7. RunInv(p)'
      BY <1>2, <2>1, <3>1, <3>2, <3>4, <3>5, <3>6, EnterTargetInv
    <3>8. QED
      BY <1>5, <2>1, <2>3, <3>7
  <2>4. ~r.anyFresh /\ r.items = {}
    BY <1>1, <1>11 DEF RunInv, LoopEnds, FetchHistory
  <2>5. CASE \E older \in SUBSET (visible \ Window(r.since)) :
                \E rows \in Listings(Window(r.since) \cup older) :
                   Goto(p, EnterTarget([r EXCEPT !.items = rows], 1))
    <3>1. PICK older \in SUBSET (visible \ Window(r.since)) :
             \E rows \in Listings(Window(r.since) \cup older) :
                Goto(p, EnterTarget([r EXCEPT !.items = rows], 1))
      BY <2>5
    <3>2. PICK rows \in Listings(Window(r.since) \cup older) :
             Goto(p, EnterTarget([r EXCEPT !.items = rows], 1))
      BY <3>1
    <3>3. rows \in SUBSET Rows /\ Window(r.since) \subseteq Listed(rows)
      BY DEF Listings
    <3>4. QED
      BY <2>3, <2>4, <3>2, <3>3
  <2>6. CASE Goto(p, EnterTarget(r, 1))
    <3>1. r = [r EXCEPT !.items = {}]
      BY <1>2, <2>4 DEF RunState
    <3>2. QED
      BY <2>3, <2>4, <2>6, <3>1
  <2>7. QED
    BY <1>11, <2>2, <2>5, <2>6 DEF FetchHistory
<1>12. ASSUME NEW i \in Rows, LookUp(p, i)
       PROVE  IInv'
  <2>1. UNCHANGED <<source, names, cursor, seen, sent, unreported>>
    BY <1>12 DEF LookUp
  <2>2. CASE Return(p)
    BY <1>4, <2>1, <2>2
  <2>3. CASE ~Return(p)
    <3> DEFINE u == [r EXCEPT
                       !.todo = @ \ {i},
                       !.fresh = IF IsFresh(Target(p), i[1]) THEN @ \cup {i} ELSE @]
    <3>1. r.pc = "diff" /\ Goto(p, u)
      BY <1>12, <2>3 DEF LookUp
    <3>2. run'[p] = u
      BY <1>3, <3>1
    <3>3. /\ run'[p].pc = "diff" /\ run'[p].since = r.since
          /\ run'[p].windowEnd = r.windowEnd /\ run'[p].items = r.items
          /\ run'[p].idx = r.idx /\ run'[p].anyFresh = r.anyFresh
          /\ run'[p].allOK = r.allOK
          /\ run'[p].todo = r.todo \ {i}
          /\ r.fresh \subseteq run'[p].fresh
          /\ i \in run'[p].fresh \/ <<Target(p), i[1]>> \in seen
      BY <1>2, <3>1, <3>2 DEF RunState, IsFresh
    <3>4. SinceCovers(p)' /\ WindowCovers(p)' /\ TargetsDone(p)' /\ LoopEnds(p)'
      BY <1>1, <1>6, <2>1, <3>1, <3>3
         DEF RunInv, SinceCovers, WindowCovers, TargetsDone, LoopEnds, InLoop, source
    <3>5. DiffSplits(p)' /\ MarksLeft(p)'
      BY <1>1, <2>1, <3>1, <3>3 DEF RunInv, DiffSplits, MarksLeft, Target
    <3> HIDE DEF u
    <3>6. QED
      BY <1>5, <2>1, <3>1, <3>4, <3>5 DEF RunInv
  <2>4. QED
    BY <2>2, <2>3
<1>13. ASSUME r.pc \in {"diff", "mark"}, r.todo = {}, r.pc = "diff" => r.fresh = {},
              UNCHANGED <<source, names, cursor, seen, sent, unreported>>,
              Goto(p, EnterTarget(r, r.idx + 1))
       PROVE  IInv'
  <2>1. r.allOK => \A e \in r.items : <<names[r.idx], e[1]>> \in seen
    BY <1>1, <1>13 DEF RunInv, DiffSplits, MarksLeft, Target
  <2>2. r.allOK => \A j \in 1 .. Len(names) :
                      j < r.idx + 1 => \A e \in r.items : <<names[j], e[1]>> \in seen
    <3>1. \A j \in 1 .. Len(names) : j < r.idx + 1 => j < r.idx \/ j = r.idx
      BY <1>2
    <3>2. QED
      BY <1>1, <1>13, <2>1, <3>1 DEF RunInv, TargetsDone, InLoop
  <2>3. \A i \in visible \ late : watched[i] < r.since => SeenByAll(i)
    BY <1>1 DEF RunInv, SinceCovers
  <2>4. r.items # {} =>
          \A i \in visible \ late :
             watched[i] < r.windowEnd => i \in Listed(r.items) \/ SeenByAll(i)
    BY <1>1, <1>13 DEF RunInv, WindowCovers, InLoop
  <2>5. r.anyFresh => r.items # {}
    BY <1>1, <1>13 DEF RunInv, LoopEnds, InLoop
  <2>6. run'[p] = EnterTarget(r, r.idx + 1) /\ r.idx + 1 \in Nat \ {0}
    BY <1>2, <1>3, <1>13
  <2>7. RunInv(p)'
    BY <1>2, <1>13, <2>2, <2>3, <2>4, <2>5, <2>6, EnterTargetInv
  <2>8. QED
    BY <1>5, <1>13, <2>7
<1>14. CASE SkipTarget(p)
  BY <1>13, <1>14 DEF SkipTarget
<1>15. CASE NextTarget(p)
  BY <1>13, <1>15 DEF NextTarget
<1>16. CASE Push(p)
  <2> DEFINE t == Target(p)
  <2>1. /\ UNCHANGED <<source, names, cursor, seen>>
        /\ r.pc = "diff" /\ r.todo = {} /\ r.fresh # {}
    BY <1>16 DEF Push
  <2>2. PICK received, omitted, delivered \in SUBSET r.fresh, err \in BOOLEAN :
           PushReturns(p, received, omitted, delivered, err)
    BY <1>16, PushCases
  <2>3. /\ sent' = OneMore(sent, t, received)
        /\ unreported' = OneMore(unreported, t, omitted)
        /\ Goto(p, AfterPush(r, delivered, err))
        /\ omitted \subseteq received
        /\ \A e \in delivered : e \in received \/ <<t, e[1]>> \in Unnamed
    BY <2>2 DEF PushReturns
  <2>4. run'[p] = AfterPush(r, delivered, err)
    BY <1>3, <2>3
  <2>5. /\ run'[p].pc = "mark" /\ run'[p].since = r.since
        /\ run'[p].windowEnd = r.windowEnd /\ run'[p].items = r.items
        /\ run'[p].idx = r.idx /\ run'[p].anyFresh
        /\ run'[p].todo = delivered
        /\ run'[p].allOK => r.allOK /\ delivered = r.fresh
    BY <1>2, <2>4 DEF RunState, AfterPush, TookAll, ToMark
  <2>6. t \in Targets
    BY <1>1, <2>1, TargetType DEF RunOK, SharedOK
  <2>7. /\ sent \in [Targets \X Items -> Nat]
        /\ unreported \in [Targets \X Items -> Nat]
        /\ \A e \in r.fresh : e[1] \in Items
    BY <1>1, RowType DEF SharedOK, RunOK, RunState
  <2>8. \A x \in Targets \X Items : sent[x] > 0 => sent'[x] > 0
    BY <2>3, <2>7 DEF OneMore
  <2>9. OmittedWasSent'
    <3>1. ASSUME NEW x \in Targets \X Items, unreported'[x] > 0
          PROVE  sent'[x] > 0
      <4>1. CASE unreported[x] > 0
        BY <2>8, <4>1 DEF IInv, OmittedWasSent
      <4>2. CASE ~(unreported[x] > 0)
        <5>1. /\ x \in {y \in {t} \X Items : unreported[y] < MaxUnreported}
              /\ x[2] \in Listed(omitted)
          BY <2>3, <3>1, <4>2 DEF OneMore
        <5>2. x[2] \in Listed(received)
          BY <2>3, <5>1 DEF Listed
        <5>3. QED
          BY <2>3, <2>7, <5>1, <5>2 DEF OneMore
      <4>3. QED
        BY <4>1, <4>2
    <3>2. QED
      BY <3>1 DEF OmittedWasSent
  <2>10. \A e \in delivered : <<t, e[1]>> \in Unnamed \/ sent'[<<t, e[1]>>] > 0
    <3>1. ASSUME NEW e \in delivered, <<t, e[1]>> \notin Unnamed
          PROVE  sent'[<<t, e[1]>>] > 0
      <4> DEFINE x == <<t, e[1]>>
      <4>1. x \in Targets \X Items /\ x \in {t} \X Items /\ x[2] \in Listed(received)
        BY <2>3, <2>6, <2>7, <3>1 DEF Listed
      <4>2. CASE unreported[x] < MaxUnreported
        BY <2>3, <2>7, <4>1, <4>2 DEF OneMore
      <4>3. CASE ~(unreported[x] < MaxUnreported)
        <5>1. unreported[x] > 0
          BY <2>7, <4>1, <4>3, EngineAssumption
        <5>2. QED
          BY <2>8, <4>1, <5>1 DEF IInv, OmittedWasSent
      <4>4. QED
        BY <4>2, <4>3
    <3>2. QED
      BY <3>1
  <2>11. Target(p)' = t
    BY <2>1, <2>5 DEF Target
  <2>12. r.items # {}
    BY <1>2, <2>1
  <2>13. SinceCovers(p)' /\ WindowCovers(p)' /\ TargetsDone(p)' /\ LoopEnds(p)'
    BY <1>1, <1>6, <2>1, <2>5, <2>12
       DEF RunInv, SinceCovers, WindowCovers, TargetsDone, LoopEnds, InLoop, source
  <2>14. DiffSplits(p)' /\ MarksLeft(p)'
    BY <1>1, <2>1, <2>5, <2>10, <2>11, <2>12 DEF RunInv, DiffSplits, MarksLeft
  <2>15. RunInv(p)' /\ Grows
    BY <2>1, <2>8, <2>13, <2>14 DEF RunInv, Grows
  <2>16. QED
    BY <2>1, <2>3, <2>9, <2>15, ProcessStep
<1>17. ASSUME NEW i \in Rows, Mark(p, i)
       PROVE  IInv'
  <2> DEFINE t == Target(p)
  <2>1. /\ UNCHANGED <<source, names, cursor, sent, unreported>>
        /\ r.pc = "mark" /\ i \in r.todo
        /\ seen' \in {seen, seen \cup {<<t, i[1]>>}}
    BY <1>17 DEF Mark, NextRow
  <2>2. PICK s : /\ Goto(p, s)
                 /\ \/ s = [r EXCEPT !.todo = @ \ {i}] /\ <<t, i[1]>> \in seen'
                    \/ s = [r EXCEPT !.todo = @ \ {i}, !.allOK = FALSE]
    BY <1>17 DEF Mark
  <2>3. /\ run'[p].pc = "mark" /\ run'[p].since = r.since
        /\ run'[p].windowEnd = r.windowEnd /\ run'[p].items = r.items
        /\ run'[p].idx = r.idx /\ run'[p].anyFresh = r.anyFresh
        /\ run'[p].todo = r.todo \ {i}
        /\ run'[p].allOK => r.allOK /\ <<t, i[1]>> \in seen'
    BY <1>2, <1>3, <2>1, <2>2 DEF RunState
  <2>4. seen \subseteq seen'
    BY <2>1
  <2>5. \A j : SeenByAll(j) => SeenByAll(j)'
    BY <2>1, <2>4, SeenByAllKept
  <2>6. Target(p)' = t
    BY <2>1, <2>3 DEF Target
  <2>7. SinceCovers(p)' /\ WindowCovers(p)' /\ TargetsDone(p)' /\ LoopEnds(p)'
    BY <1>1, <2>1, <2>3, <2>4, <2>5
       DEF RunInv, SinceCovers, WindowCovers, TargetsDone, LoopEnds, InLoop, source
  <2>8. DiffSplits(p)' /\ MarksLeft(p)'
    BY <1>1, <2>1, <2>3, <2>4, <2>6 DEF RunInv, DiffSplits, MarksLeft
  <2>9. \A x \in seen' \ seen : x \in Unnamed \/ sent'[x] > 0
    BY <1>1, <2>1 DEF RunInv, MarksLeft
  <2>10. RunInv(p)' /\ Grows /\ OmittedWasSent'
    BY <2>1, <2>4, <2>7, <2>8 DEF RunInv, Grows, IInv, OmittedWasSent
  <2>11. QED
    BY <2>1, <2>2, <2>9, <2>10, ProcessStep
<1>18. CASE Finish(p)
  <2>1. UNCHANGED <<source, names, seen, sent, unreported>> /\ Return(p) /\ r.pc = "finish"
    BY <1>18 DEF Finish
  <2>2. CASE cursor' = cursor
    BY <1>4, <2>1, <2>2
  <2>3. CASE cursor' # cursor
    <3>1. cursor' = r.windowEnd /\ r.anyFresh /\ r.allOK
      BY <1>18, <2>3 DEF Finish, SetLastRun, MayAdvance
    <3>2. r.items # {} /\ r.idx > Len(names)
      BY <1>1, <2>1, <3>1 DEF RunInv, LoopEnds, InLoop
    <3>3. \A k \in 1 .. Len(names) : \A e \in r.items : <<names[k], e[1]>> \in seen
      BY <1>1, <1>2, <2>1, <3>1, <3>2 DEF RunInv, TargetsDone, InLoop
    <3>4. \A i \in Listed(r.items) : SeenByAll(i)
      BY <1>2, <3>3 DEF SeenByAll, Range, Listed
    <3>5. \A i \in visible \ late : watched[i] < r.windowEnd => SeenByAll(i)
      BY <1>1, <2>1, <3>2, <3>4 DEF RunInv, WindowCovers, InLoop
    <3>6. CursorCovers'
      BY <1>6, <2>1, <3>1, <3>5 DEF CursorCovers, source
    <3>7. run'[p] = Idle /\ Goto(p, Idle)
      BY <1>3, <2>1 DEF Return
    <3>8. RunInv(p)'
      BY <1>2, <2>1, <3>7, IdleInv DEF source
    <3>9. Grows /\ OmittedWasSent'
      BY <2>1 DEF Grows, IInv, OmittedWasSent
    <3>10. QED
      BY <2>1, <3>6, <3>7, <3>8, <3>9, ProcessStep
  <2>4. QED
    BY <2>2, <2>3
<1>19. QED
  BY <1>7, <1>8, <1>9, <1>10, <1>11, <1>12, <1>14, <1>15, <1>16, <1>17, <1>18 DEF Sync

LEMMA InvStep ==
    IInv /\ [Next]_vars => IInv'
<1> SUFFICES ASSUME IInv, [Next]_vars
             PROVE  IInv'
  OBVIOUS
<1>1. TypeOK'
  BY TypeStep DEF IInv
<1>2. CASE UNCHANGED vars
  BY <1>2 DEF vars, source, IInv, TypeOK, OmittedWasSent, SeenIsDelivered, CursorCovers, SeenByAll,
              RunInv, SinceCovers, WindowCovers, TargetsDone, DiffSplits, MarksLeft,
              LoopEnds, InLoop, Target
<1>3. CASE Tick
  BY <1>1, <1>3
     DEF Tick, source, IInv, OmittedWasSent, SeenIsDelivered, CursorCovers, SeenByAll,
         RunInv, SinceCovers, WindowCovers, TargetsDone, DiffSplits, MarksLeft,
         LoopEnds, InLoop, Target
<1>4. ASSUME NEW i \in Items, NEW w \in 1 .. MaxTime, Surface(i, w)
      PROVE  IInv'
  BY <1>1, <1>4, SurfaceStep
<1>5. ASSUME NEW p \in Procs, Sync(p) \/ Crash(p) \/ Cancel(p)
      PROVE  IInv'
  BY <1>1, <1>5, SyncStep
<1>6. QED
  BY <1>2, <1>3, <1>4, <1>5 DEF Next

(* Everything a process relies on stays true whatever the others do; the   *)
(* run engine_pair checks the same invariant (engine.go:55-110).           *)
THEOREM Inductive ==
    Spec => []IInv
BY InvInit, InvStep, PTL DEF Spec

(* Whatever the processes running a sync do, however they fail, and        *)
(* however many they are: what is recorded for a target reached it.        *)
THEOREM RecordsAreDeliveries ==
    Spec => []SeenIsDelivered
<1>1. IInv => SeenIsDelivered
  BY DEF IInv
<1>2. QED
  BY <1>1, Inductive, PTL

(* ... and the cursor never passes an item that is not recorded for every  *)
(* target, unless it surfaced behind a bound.                              *)
THEOREM NothingFallsBehind ==
    Spec => []CursorCovers
<1>1. IInv => CursorCovers
  BY DEF IInv
<1>2. QED
  BY <1>1, Inductive, PTL
=============================================================================
