-------------------------- MODULE EngineRefinement --------------------------
(***************************************************************************)
(* Engine implements Ledger, for any number of processes, items and        *)
(* targets: the initial states map to initial states, and every step to a  *)
(* step of the ledger or to a stutter.                                     *)
(***************************************************************************)
EXTENDS EngineProofs

(* What the services have received is what was sent to them, whatever the  *)
(* number of times; the other variables of the ledger are Engine's own.    *)
received == {x \in Targets \X Items : sent[x] > 0}

Promise == INSTANCE Ledger

(* A sync, call by call, with its failures and the processes beside it,    *)
(* does nothing to the services, the records and the cursor that the       *)
(* ledger does not allow (engine.go:27-53).                                *)
LedgerSpec == Promise!Spec

-----------------------------------------------------------------------------
LEMMA InitMaps ==
    Init => Promise!Init
BY DEF Init, Promise!Init, received

(* The ledger's variables that are Engine's own. *)
Records == <<visible, watched, late, names, seen, cursor>>

(* A step that touches neither the records nor the services is a stutter.  *)
LEMMA Stutters ==
    UNCHANGED <<Records, sent>> => UNCHANGED Promise!vars
BY DEF Records, Promise!vars, received

(* Both modules take the same targets out of the list. *)
LEMMA SameRange ==
    Promise!Range(names) = Range(names)
BY DEF Promise!Range, Range

LEMMA SurfaceMaps ==
    ASSUME TypeOK, NEW i \in Items, NEW w \in 1 .. MaxTime, Surface(i, w)
    PROVE  Promise!Surface
<1>1. /\ i \in Items \ visible
      /\ visible' = visible \cup {i}
      /\ UNCHANGED <<names, cursor, seen, sent>>
  BY DEF Surface
<1>2. watched' = [watched EXCEPT ![i] = watched'[i]]
  BY DEF Surface, TypeOK
<1>3. late' \in {late, late \cup {i}}
  BY DEF Surface
<1>4. watched'[i] < cursor => i \in late'
  BY DEF Surface, TypeOK, Bounds
<1>5. received' = received
  BY <1>1 DEF received
<1>6. QED
  BY <1>1, <1>2, <1>3, <1>4, <1>5 DEF Promise!Surface

(* What a Push adds to the services are items of its window, for a target  *)
(* of the list.                                                            *)
LEMMA PushMaps ==
    ASSUME TypeOK, NEW p \in Procs, Push(p)
    PROVE  Promise!Deliver
<1> DEFINE t == Target(p)
<1>1. /\ UNCHANGED Records
      /\ run[p].pc = "diff"
  BY DEF Push, Records, source
<1>2. PICK taken \in SUBSET run[p].fresh : sent' = OneMore(sent, t, taken)
  BY PushCases DEF PushReturns
<1>3. t \in Range(names)
  BY <1>1 DEF TypeOK, Target, Range
<1>4. sent \in [Targets \X Items -> Nat]
  BY DEF TypeOK
<1>5. \A x \in Targets \X Items : sent[x] > 0 => sent'[x] > 0
  BY <1>2, <1>4 DEF OneMore
<1>6. \A x \in Targets \X Items :
         sent'[x] # sent[x] => x[1] = t /\ x[2] \in Listed(run[p].fresh)
  BY <1>2, <1>4 DEF OneMore, Listed
<1>7. Listed(run[p].fresh) \subseteq visible
  BY DEF TypeOK, Listed
<1>8. received \subseteq received'
  BY <1>5 DEF received
<1>9. \A x \in received' \ received : x[1] \in Range(names) /\ x[2] \in visible
  BY <1>3, <1>6, <1>7 DEF received
<1>10. QED
  BY <1>1, <1>8, <1>9, SameRange DEF Promise!Deliver, Records

(* A mark records what was delivered, or what is recorded already. *)
LEMMA MarkMaps ==
    ASSUME IInv, NEW p \in Procs, NEW e \in Rows, Mark(p, e)
    PROVE  Promise!Record \/ UNCHANGED Promise!vars
<1> DEFINE x == <<Target(p), e[1]>>
<1>1. /\ run[p].pc = "mark" /\ e \in run[p].todo
      /\ UNCHANGED <<clock, source, names, cursor, sent>>
      /\ seen' \in {seen, seen \cup {x}}
  BY DEF Mark, NextRow
<1>2. x \in Unnamed \/ sent[x] > 0
  BY <1>1 DEF IInv, RunInv, MarksLeft
<1>3. x \in Targets \X Items
  BY <1>1, TargetType, RowType DEF IInv, TypeOK
<1>4. x \in received \cup Unnamed /\ received' = received
  BY <1>1, <1>2, <1>3 DEF received
<1>5. CASE seen' = seen
  BY <1>1, <1>5, Stutters DEF Records, source
<1>6. CASE seen' # seen
  BY <1>1, <1>4, <1>6 DEF Promise!Record, source
<1>7. QED
  BY <1>5, <1>6

(* The cursor moves to what it covers: that is the invariant. *)
LEMMA FinishMaps ==
    ASSUME IInv, IInv', NEW p \in Procs, Finish(p)
    PROVE  Promise!Advance
<1>1. UNCHANGED <<source, names, seen, sent>>
  BY DEF Finish
<1>2. CursorCovers'
  BY DEF IInv
<1>3. \A i \in visible \ late, t \in Range(names) :
         watched[i] < cursor' => <<t, i>> \in seen
  BY <1>1, <1>2 DEF CursorCovers, SeenByAll, source
<1>4. received' = received
  BY <1>1 DEF received
<1>5. QED
  BY <1>1, <1>3, <1>4, SameRange DEF Promise!Advance, source

LEMMA StepMaps ==
    IInv /\ IInv' /\ [Next]_vars => [Promise!Next]_(Promise!vars)
<1> SUFFICES ASSUME IInv, IInv', [Next]_vars
             PROVE  [Promise!Next]_(Promise!vars)
  OBVIOUS
<1> USE DEF Promise!Next
<1>1. TypeOK
  BY DEF IInv
<1>2. CASE UNCHANGED vars
  BY <1>2, Stutters DEF vars, source, Records
<1>3. CASE Tick
  BY <1>3, Stutters DEF Tick, source, Records
<1>4. ASSUME NEW i \in Items, NEW w \in 1 .. MaxTime, Surface(i, w)
      PROVE  Promise!Next
  BY <1>1, <1>4, SurfaceMaps
<1>5. ASSUME NEW p \in Procs, Sync(p) \/ Crash(p) \/ Cancel(p)
      PROVE  [Promise!Next]_(Promise!vars)
  <2>1. CASE Crash(p) \/ Cancel(p)
    BY <2>1, Stutters DEF Crash, Cancel, source, Records
  <2>2. CASE ReadCursor(p) \/ OpenWindow(p) \/ FetchHistory(p)
    BY <2>2, Stutters DEF ReadCursor, OpenWindow, FetchHistory, source, Records
  <2>3. ASSUME NEW e \in Rows, LookUp(p, e)
        PROVE  UNCHANGED Promise!vars
    BY <2>3, Stutters DEF LookUp, source, Records
  <2>4. CASE SkipTarget(p) \/ NextTarget(p)
    BY <2>4, Stutters DEF SkipTarget, NextTarget, source, Records
  <2>5. CASE Push(p)
    BY <1>1, <2>5, PushMaps
  <2>6. ASSUME NEW e \in Rows, Mark(p, e)
        PROVE  [Promise!Next]_(Promise!vars)
    BY <2>6, MarkMaps
  <2>7. CASE Finish(p)
    BY <2>7, FinishMaps
  <2>8. QED
    BY <1>5, <2>1, <2>2, <2>3, <2>4, <2>5, <2>6, <2>7 DEF Sync
<1>6. QED
  BY <1>2, <1>3, <1>4, <1>5 DEF Next

(* The code keeps the ledger's promise, whatever the number of processes   *)
(* and the failures.                                                       *)
THEOREM ImplementsLedger ==
    Spec => LedgerSpec
<1>1. IInv /\ IInv' /\ [Next]_vars => [Promise!Next]_(Promise!vars)
  BY StepMaps
<1>2. QED
  BY <1>1, InitMaps, Inductive, PTL DEF Spec, LedgerSpec, Promise!Spec
=============================================================================
