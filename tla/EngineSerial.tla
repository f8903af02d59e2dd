---------------------------- MODULE EngineSerial ----------------------------
(***************************************************************************)
(* What Engine promises of a sync that one process runs at a time: nothing *)
(* recorded is sent again, the cursor does not move back, and every call   *)
(* that repeats an item is paid for, by a fault or by a report that left   *)
(* the item out.                                                           *)
(***************************************************************************)
EXTENDS EngineProofs

-----------------------------------------------------------------------------
(* The inductive invariant. *)

(* With nobody else writing records, what the lookups found fresh is still *)
(* not recorded when it is pushed.                                         *)
FreshIsUnseen(p) ==
    run[p].pc = "diff" => \A e \in run[p].fresh : <<Target(p), e[1]>> \notin seen

(* The cursor is behind the window, and the window behind the clock. *)
ClocksAgree(p) ==
    /\ cursor <= clock
    /\ run[p].pc \notin {"idle", "window"} =>
          cursor <= run[p].windowEnd /\ run[p].windowEnd <= clock

(* x was reported as delivered and is about to be recorded. *)
InFlight(p, x) ==
    run[p].pc = "mark" /\ x[1] = Target(p) /\ x[2] \in Listed(run[p].todo)

(* x is about to be sent. *)
AtPush(p, x) ==
    /\ run[p].pc = "diff" /\ run[p].todo = {}
    /\ x[1] = Target(p) /\ x[2] \in Listed(run[p].fresh)

(* One call needs no reason: the one whose item is recorded, or about to. *)
Credit(p, x) == IF x \in seen \/ InFlight(p, x) THEN 1 ELSE 0

(* A cancellation is a fault that may still cost a delivery.               *)
Reserve(p, x) == IF run[p].cancelled /\ (InFlight(p, x) \/ AtPush(p, x)) THEN 1 ELSE 0

Paid(p) ==
    \A x \in Targets \X Items :
        sent[x] + Reserve(p, x) <= faults + unreported[x] + Credit(p, x)

SerialInv(p) ==
    /\ FreshIsUnseen(p)
    /\ ClocksAgree(p)
    /\ Paid(p)

-----------------------------------------------------------------------------
LEMMA SerialInit ==
    ASSUME NEW me, Procs = {me}, Init
    PROVE  SerialInv(me)
<1>1. /\ run[me].pc = "idle" /\ run[me].cancelled = FALSE
      /\ clock = 1 /\ cursor = 0 /\ faults = 0 /\ seen = {}
      /\ \A x \in Targets \X Items : sent[x] = 0 /\ unreported[x] = 0
  BY DEF Init, Idle
<1>2. FreshIsUnseen(me) /\ ClocksAgree(me)
  BY <1>1 DEF FreshIsUnseen, ClocksAgree
<1>3. Paid(me)
  BY <1>1 DEF Paid, Credit, Reserve, InFlight
<1>4. QED
  BY <1>2, <1>3 DEF SerialInv

(* What a process gives up by returning early it has paid for, unless      *)
(* nothing was in flight.                                                  *)
LEMMA ReturnSerial ==
    ASSUME TypeOK, NEW me \in Procs, SerialInv(me), Return(me),
           UNCHANGED <<clock, names, seen, sent, unreported>>,
           cursor' <= clock,
           \/ faults' = faults + 1
           \/ faults' = faults /\ run[me].pc # "mark"
    PROVE  SerialInv(me)'
<1>1. run'[me].pc = "idle" /\ run'[me].cancelled = FALSE
  BY DEF Return, Goto, Idle, TypeOK
<1>2. FreshIsUnseen(me)' /\ ClocksAgree(me)'
  BY <1>1 DEF FreshIsUnseen, ClocksAgree
<1>3. ASSUME NEW x \in Targets \X Items
      PROVE  sent'[x] + Reserve(me, x)' <= faults' + unreported'[x] + Credit(me, x)'
  <2>1. sent[x] \in Nat /\ unreported[x] \in Nat /\ faults \in Nat
    BY DEF TypeOK
  <2>2. Reserve(me, x)' = 0
    BY <1>1 DEF Reserve
  <2>3. Credit(me, x)' = IF x \in seen THEN 1 ELSE 0
    BY <1>1 DEF Credit, InFlight
  <2>4. sent[x] + Reserve(me, x) <= faults + unreported[x] + Credit(me, x)
    BY DEF SerialInv, Paid
  <2>5. Reserve(me, x) \in {0, 1} /\ Credit(me, x) \in {0, 1}
    BY DEF Reserve, Credit
  <2>6. CASE faults' = faults + 1
    BY <2>1, <2>2, <2>3, <2>4, <2>5, <2>6
  <2>7. CASE faults' = faults /\ run[me].pc # "mark"
    <3>1. Credit(me, x) = IF x \in seen THEN 1 ELSE 0
      BY <2>7 DEF Credit, InFlight
    <3>2. QED
      BY <2>1, <2>2, <2>3, <2>4, <2>5, <2>7, <3>1
  <2>8. QED
    BY <2>6, <2>7
<1>4. Paid(me)'
  BY <1>3 DEF Paid
<1>5. QED
  BY <1>2, <1>4 DEF SerialInv

(* A step within the run that leaves the services and the records alone,   *)
(* and nothing in flight or about to be pushed by a cancelled process.     *)
LEMMA GoOnSerial ==
    ASSUME TypeOK, NEW me \in Procs, SerialInv(me),
           UNCHANGED <<clock, cursor, seen, sent, unreported>>,
           faults' \in Nat, faults <= faults',
           FreshIsUnseen(me)', ClocksAgree(me)',
           \A x : ~InFlight(me, x),
           \A x : ~InFlight(me, x)',
           \A x : ~(run[me].cancelled /\ AtPush(me, x))'
    PROVE  SerialInv(me)'
<1>1. ASSUME NEW x \in Targets \X Items
      PROVE  sent'[x] + Reserve(me, x)' <= faults' + unreported'[x] + Credit(me, x)'
  <2>1. sent[x] \in Nat /\ unreported[x] \in Nat /\ faults \in Nat
    BY DEF TypeOK
  <2>2. Reserve(me, x)' = 0
    BY DEF Reserve
  <2>3. Credit(me, x)' = Credit(me, x) /\ Credit(me, x) \in {0, 1}
    BY DEF Credit
  <2>4. sent[x] + Reserve(me, x) <= faults + unreported[x] + Credit(me, x) /\ Reserve(me, x) \in {0, 1}
    BY DEF SerialInv, Paid, Reserve
  <2>5. QED
    BY <2>1, <2>2, <2>3, <2>4
<1>2. QED
  BY <1>1 DEF SerialInv, Paid

-----------------------------------------------------------------------------
(* The calls of the one process. *)

LEMMA SerialSyncStep ==
    ASSUME TypeOK, TypeOK', NEW me \in Procs, SerialInv(me), Sync(me)
    PROVE  SerialInv(me)'
<1> DEFINE r == run[me]
<1>1. /\ r \in RunState /\ run' \in [Procs -> RunState]
      /\ r.fresh \subseteq Rows /\ r.todo \subseteq Rows
      /\ clock \in Nat /\ faults \in Nat /\ cursor \in Nat /\ faults' \in Nat
      /\ names \in Seq(Targets) /\ sent \in [Targets \X Items -> Nat]
      /\ unreported \in [Targets \X Items -> Nat]
  <2>1. clock \in Nat
    BY EngineAssumption DEF TypeOK
  <2>2. r \in RunState /\ run' \in [Procs -> RunState]
    BY DEF TypeOK
  <2>3. r.fresh \subseteq Rows /\ r.todo \subseteq Rows
    BY <2>2 DEF RunState
  <2>4. QED
    BY <2>1, <2>2, <2>3 DEF TypeOK
<1>2. \A s : Goto(me, s) => run'[me] = s
  BY DEF Goto, TypeOK
<1>3. FreshIsUnseen(me) /\ ClocksAgree(me) /\ Paid(me)
  BY DEF SerialInv
<1>4. /\ Works(me) => faults' = faults
      /\ Fails(me) => faults' = faults \/ faults' = faults + 1
      /\ Works(me) => ~r.cancelled
      /\ Fails(me) /\ ~r.cancelled => faults' = faults + 1
  BY DEF Works, Fails
(* Entering a target, or leaving the loop. *)
<1>5. ASSUME NEW s \in RunState, NEW k \in Nat \ {0}, Goto(me, EnterTarget(s, k)),
             s.windowEnd = r.windowEnd,
             r.pc \in {"history", "diff", "mark"}, \A x : ~InFlight(me, x),
             UNCHANGED <<clock, source, names, cursor, seen, sent, unreported>>,
             faults <= faults'
      PROVE  SerialInv(me)'
  <2>1. /\ run'[me].pc \in {"diff", "finish"} /\ run'[me].fresh = {}
        /\ run'[me].windowEnd = r.windowEnd
    BY <1>1, <1>2, <1>5, EnterTargetFields
  <2>2. FreshIsUnseen(me)'
    BY <2>1 DEF FreshIsUnseen
  <2>3. ClocksAgree(me)'
    BY <1>3, <1>5, <2>1 DEF ClocksAgree
  <2>4. \A x : ~InFlight(me, x)' /\ ~AtPush(me, x)'
    BY <2>1 DEF InFlight, AtPush, Listed
  <2>5. QED
    BY <1>1, <1>5, <2>2, <2>3, <2>4, GoOnSerial
<1>6. CASE ReadCursor(me)
  <2>1. UNCHANGED <<clock, source, names, cursor, seen, sent, unreported>> /\ r.pc = "idle"
    BY <1>6 DEF ReadCursor
  <2>2. CASE Fails(me) /\ Return(me)
    BY <1>3, <1>4, <2>1, <2>2, ReturnSerial DEF ClocksAgree
  <2>3. CASE Works(me) /\ Goto(me, [Idle EXCEPT !.pc = "window", !.since = cursor])
    <3>1. run'[me].pc = "window"
      BY <1>2, <2>3 DEF Idle
    <3>2. FreshIsUnseen(me)' /\ ClocksAgree(me)'
      BY <1>3, <2>1, <3>1 DEF FreshIsUnseen, ClocksAgree
    <3>3. \A x : ~InFlight(me, x) /\ ~InFlight(me, x)' /\ ~AtPush(me, x)'
      BY <2>1, <3>1 DEF InFlight, AtPush
    <3>4. faults' \in Nat /\ faults <= faults'
      BY <1>1, <1>4, <2>3
    <3>5. QED
      BY <2>1, <3>2, <3>3, <3>4, GoOnSerial
  <2>4. QED
    BY <1>6, <2>2, <2>3 DEF ReadCursor
<1>7. CASE OpenWindow(me)
  <2>1. /\ UNCHANGED <<clock, source, names, cursor, seen, sent, unreported, faults>> /\ r.pc = "window"
        /\ Goto(me, [r EXCEPT !.pc = "history", !.windowEnd = clock])
    BY <1>7 DEF OpenWindow
  <2>2. run'[me].pc = "history" /\ run'[me].windowEnd = clock
    BY <1>1, <1>2, <2>1 DEF RunState
  <2>3. FreshIsUnseen(me)' /\ ClocksAgree(me)'
    BY <1>1, <1>3, <2>1, <2>2 DEF FreshIsUnseen, ClocksAgree
  <2>4. \A x : ~InFlight(me, x) /\ ~InFlight(me, x)' /\ ~AtPush(me, x)'
    BY <2>1, <2>2 DEF InFlight, AtPush
  <2>5. faults' \in Nat /\ faults <= faults'
    BY <1>1, <2>1
  <2>6. QED
    BY <2>1, <2>3, <2>4, <2>5, GoOnSerial
<1>8. CASE FetchHistory(me)
  <2>1. UNCHANGED <<clock, source, names, cursor, seen, sent, unreported>> /\ r.pc = "history"
    BY <1>8 DEF FetchHistory
  <2>2. CASE (Works(me) \/ Fails(me)) /\ Return(me)
    BY <1>3, <1>4, <2>1, <2>2, ReturnSerial DEF ClocksAgree
  <2>3. ASSUME NEW w \in SUBSET Rows, Works(me) \/ Fails(me),
               Goto(me, EnterTarget([r EXCEPT !.items = w], 1))
        PROVE  SerialInv(me)'
    <3> DEFINE s == [r EXCEPT !.items = w]
    <3>1. s \in RunState /\ s.windowEnd = r.windowEnd
      BY <1>1, <2>3 DEF RunState
    <3>2. \A x : ~InFlight(me, x)
      BY <2>1 DEF InFlight
    <3>3. faults <= faults'
      BY <1>1, <1>4, <2>3
    <3> HIDE DEF s
    <3>4. Goto(me, EnterTarget(s, 1))
      BY <2>3 DEF s
    <3>5. QED
      BY <1>5, <2>1, <3>1, <3>2, <3>3, <3>4
  <2>4. CASE Fails(me) /\ Goto(me, EnterTarget(r, 1))
    <3>1. \A x : ~InFlight(me, x)
      BY <2>1 DEF InFlight
    <3>2. faults <= faults'
      BY <1>1, <1>4, <2>4
    <3>3. QED
      BY <1>1, <1>5, <2>1, <2>4, <3>1, <3>2
  <2>5. \A some : Listings(some) \subseteq SUBSET Rows
    BY DEF Listings
  <2>6. QED
    BY <1>8, <2>2, <2>3, <2>4, <2>5 DEF FetchHistory
<1>9. ASSUME NEW i \in Rows, LookUp(me, i)
      PROVE  SerialInv(me)'
  <2>1. /\ UNCHANGED <<clock, source, names, cursor, seen, sent, unreported>>
        /\ r.pc = "diff" /\ i \in r.todo
    BY <1>9 DEF LookUp, NextRow
  <2>2. CASE Fails(me) /\ Return(me)
    BY <1>3, <1>4, <2>1, <2>2, ReturnSerial DEF ClocksAgree
  <2>3. CASE /\ Works(me)
             /\ Goto(me, [r EXCEPT
                           !.todo = @ \ {i},
                           !.fresh = IF IsFresh(Target(me), i[1]) THEN @ \cup {i} ELSE @])
    <3>1. /\ run'[me].pc = "diff" /\ run'[me].windowEnd = r.windowEnd
          /\ run'[me].idx = r.idx /\ run'[me].cancelled = r.cancelled
          /\ run'[me].fresh = IF IsFresh(Target(me), i[1]) THEN r.fresh \cup {i} ELSE r.fresh
      BY <1>1, <1>2, <2>1, <2>3 DEF RunState
    <3>2. Target(me)' = Target(me)
      BY <2>1, <3>1 DEF Target
    <3>3. FreshIsUnseen(me)'
      BY <1>3, <2>1, <3>1, <3>2 DEF FreshIsUnseen, IsFresh
    <3>4. ClocksAgree(me)'
      BY <1>3, <2>1, <3>1 DEF ClocksAgree
    <3>5. \A x : ~InFlight(me, x) /\ ~InFlight(me, x)'
      BY <2>1, <3>1 DEF InFlight
    <3>6. ~run'[me].cancelled
      BY <1>4, <2>3, <3>1
    <3>7. QED
      BY <1>1, <1>4, <2>1, <2>3, <3>3, <3>4, <3>5, <3>6, GoOnSerial
  <2>4. QED
    BY <1>9, <2>2, <2>3 DEF LookUp
<1>10. CASE SkipTarget(me) \/ NextTarget(me)
  <2>1. /\ UNCHANGED <<clock, source, names, cursor, seen, sent, unreported, faults>>
        /\ r.pc \in {"diff", "mark"} /\ r.todo = {}
        /\ Goto(me, EnterTarget(r, r.idx + 1))
    BY <1>10 DEF SkipTarget, NextTarget
  <2>2. \A x : ~InFlight(me, x)
    BY <2>1 DEF InFlight, Listed
  <2>3. r.idx + 1 \in Nat \ {0}
    BY <1>1 DEF RunState
  <2>4. faults <= faults' /\ r \in RunState
    BY <1>1, <2>1
  <2>5. UNCHANGED <<clock, source, names, cursor, seen, sent, unreported>>
    BY <2>1
  <2>6. QED
    BY <1>5, <2>1, <2>2, <2>3, <2>4, <2>5
<1>11. CASE Push(me)
  <2> DEFINE t == Target(me)
  <2>1. /\ UNCHANGED <<clock, source, names, cursor, seen>>
        /\ r.pc = "diff" /\ r.todo = {}
    BY <1>11 DEF Push
  <2>2. PICK received, omitted, delivered \in SUBSET r.fresh, err \in BOOLEAN :
           PushReturns(me, received, omitted, delivered, err)
    BY <1>11, PushCases
  <2>3. /\ sent' = OneMore(sent, t, received)
        /\ unreported' = OneMore(unreported, t, omitted)
        /\ Goto(me, AfterPush(r, delivered, err))
        /\ omitted \subseteq received
        /\ \/ Works(me) /\ received \subseteq omitted \cup delivered
           \/ faults' = faults /\ received = {}
           \/ Fails(me)
    BY <2>2 DEF PushReturns
  <2>4. run'[me] = AfterPush(r, delivered, err)
    BY <1>2, <2>3
  <2>5. /\ run'[me].pc = "mark" /\ run'[me].idx = r.idx /\ run'[me].todo = delivered
        /\ run'[me].cancelled = r.cancelled /\ run'[me].windowEnd = r.windowEnd
    BY <1>1, <2>4 DEF RunState, AfterPush, ToMark
  <2>6. Target(me)' = t
    BY <2>1, <2>5 DEF Target
  <2>7. FreshIsUnseen(me)' /\ ClocksAgree(me)'
    BY <1>3, <2>1, <2>5 DEF FreshIsUnseen, ClocksAgree
  <2>8. ASSUME NEW x \in Targets \X Items
        PROVE  sent'[x] + Reserve(me, x)' <= faults' + unreported'[x] + Credit(me, x)'
    <3> DEFINE counted == x[1] = t /\ unreported[x] < MaxUnreported
               taken == counted /\ x[2] \in Listed(received)
               left == counted /\ x[2] \in Listed(omitted)
               marked == x[1] = t /\ x[2] \in Listed(delivered)
    <3>1. /\ sent[x] \in Nat /\ unreported[x] \in Nat
          /\ sent'[x] = IF taken THEN sent[x] + 1 ELSE sent[x]
          /\ unreported'[x] = IF left THEN unreported[x] + 1 ELSE unreported[x]
      BY <1>1, <2>3 DEF OneMore
    <3>2. Credit(me, x) = IF x \in seen THEN 1 ELSE 0
      BY <2>1 DEF Credit, InFlight
    <3>3. Credit(me, x)' = IF x \in seen \/ marked THEN 1 ELSE 0
      BY <2>1, <2>5, <2>6 DEF Credit, InFlight
    <3>4. Reserve(me, x)' = IF r.cancelled /\ marked THEN 1 ELSE 0
      BY <2>5, <2>6 DEF Reserve, InFlight, AtPush
    <3>5. taken => x \notin seen
      BY <1>3, <2>1, <2>2 DEF FreshIsUnseen, Listed
    <3>6. taken \/ marked => (r.cancelled => Reserve(me, x) = 1)
      BY <2>1, <2>2 DEF Reserve, AtPush, Listed
    <3>7. /\ sent[x] + Reserve(me, x) <= faults + unreported[x] + Credit(me, x)
          /\ Reserve(me, x) \in {0, 1}
      BY <1>3 DEF Paid, Reserve
    <3>8. left => taken
      BY <2>3 DEF Listed
    <3>9. ASSUME Works(me), received \subseteq omitted \cup delivered
          PROVE  taken => left \/ marked
      BY <3>9 DEF Listed
    <3> HIDE DEF counted, taken, left, marked
    <3>10. CASE Works(me) /\ received \subseteq omitted \cup delivered
      <4>1. ~r.cancelled /\ faults' = faults
        BY <1>4, <3>10
      <4>2. taken => left \/ marked
        BY <3>9, <3>10
      <4>3. QED
        BY <1>1, <3>1, <3>2, <3>3, <3>4, <3>5, <3>7, <3>8, <4>1, <4>2
    <3>11. CASE faults' = faults /\ received = {}
      <4>1. ~taken
        BY <3>11 DEF taken, Listed
      <4>2. QED
        BY <1>1, <3>1, <3>2, <3>3, <3>4, <3>6, <3>7, <3>8, <3>11, <4>1
    <3>12. CASE Fails(me) /\ ~r.cancelled
      BY <1>1, <1>4, <3>1, <3>2, <3>3, <3>4, <3>5, <3>7, <3>12
    <3>13. CASE Fails(me) /\ r.cancelled
      <4>1. faults' >= faults
        BY <1>1, <1>4, <3>13
      <4>2. CASE taken
        BY <1>1, <3>1, <3>2, <3>3, <3>4, <3>5, <3>6, <3>7, <3>13, <4>1, <4>2
      <4>3. CASE ~taken
        BY <1>1, <3>1, <3>2, <3>3, <3>4, <3>6, <3>7, <3>8, <4>1, <4>3
      <4>4. QED
        BY <4>2, <4>3
    <3>14. QED
      BY <2>3, <3>10, <3>11, <3>12, <3>13
  <2>9. QED
    BY <2>7, <2>8 DEF SerialInv, Paid
<1>12. ASSUME NEW e \in Rows, Mark(me, e)
       PROVE  SerialInv(me)'
  <2> DEFINE y == <<Target(me), e[1]>>
  <2>1. /\ UNCHANGED <<clock, source, names, cursor, sent, unreported>>
        /\ r.pc = "mark" /\ e \in r.todo
        /\ seen \subseteq seen' /\ seen' \subseteq seen \cup {y}
    BY <1>12 DEF Mark, NextRow
  <2>2. /\ run'[me].pc = "mark" /\ run'[me].idx = r.idx
        /\ run'[me].todo = r.todo \ {e} /\ run'[me].windowEnd = r.windowEnd
        /\ run'[me].cancelled = r.cancelled
    BY <1>1, <1>2, <1>12, <2>1 DEF Mark, RunState
  <2>3. \/ Works(me) /\ y \in seen'
        \/ Fails(me)
    BY <1>12 DEF Mark
  <2>4. Target(me)' = Target(me)
    BY <2>1, <2>2 DEF Target
  <2>5. FreshIsUnseen(me)' /\ ClocksAgree(me)'
    BY <1>3, <2>1, <2>2 DEF FreshIsUnseen, ClocksAgree
  <2>6. ASSUME NEW x \in Targets \X Items
        PROVE  sent'[x] + Reserve(me, x)' <= faults' + unreported'[x] + Credit(me, x)'
    <3>1. /\ sent[x] \in Nat /\ unreported[x] \in Nat
          /\ sent'[x] = sent[x] /\ unreported'[x] = unreported[x]
      BY <1>1, <2>1
    <3>2. /\ sent[x] + Reserve(me, x) <= faults + unreported[x] + Credit(me, x)
          /\ Reserve(me, x) \in {0, 1} /\ Credit(me, x) \in {0, 1}
          /\ Reserve(me, x)' \in {0, 1} /\ Credit(me, x)' \in {0, 1}
      BY <1>3 DEF Paid, Reserve, Credit
    <3>3. InFlight(me, x)' => InFlight(me, x)
      BY <2>1, <2>2, <2>4 DEF InFlight, Listed
    <3>4. Reserve(me, x)' <= Reserve(me, x)
      BY <2>1, <2>2, <3>3 DEF Reserve, AtPush
    <3>5. CASE InFlight(me, x)' <=> InFlight(me, x)
      <4>1. Credit(me, x)' >= Credit(me, x)
        BY <2>1, <3>5 DEF Credit
      <4>2. QED
        BY <1>1, <1>4, <2>3, <3>1, <3>2, <3>4, <4>1
    <3>6. CASE InFlight(me, x) /\ ~InFlight(me, x)'
      <4>1. x = y
        BY <2>1, <2>2, <2>4, <3>6 DEF InFlight, Listed
      <4>2. Reserve(me, x)' = 0
        BY <2>2, <3>6 DEF Reserve, AtPush
      <4>3. r.cancelled => Reserve(me, x) = 1
        BY <3>6 DEF Reserve
      <4>4. x \in seen' => Credit(me, x)' = 1
        BY DEF Credit
      <4>5. QED
        BY <1>1, <1>4, <2>3, <3>1, <3>2, <4>1, <4>2, <4>3, <4>4
    <3>7. QED
      BY <3>3, <3>5, <3>6
  <2>7. QED
    BY <2>5, <2>6 DEF SerialInv, Paid
<1>13. CASE Finish(me)
  <2>1. UNCHANGED <<clock, names, seen, sent, unreported>> /\ Return(me) /\ r.pc = "finish"
    BY <1>13 DEF Finish
  <2>2. cursor' \in {cursor, r.windowEnd} /\ (faults' = faults \/ faults' = faults + 1)
    BY <1>4, <1>13 DEF Finish, SetLastRun
  <2>3. cursor' <= clock
    BY <1>3, <2>1, <2>2 DEF ClocksAgree
  <2>4. QED
    BY <2>1, <2>2, <2>3, ReturnSerial
<1>14. QED
  BY <1>6, <1>7, <1>8, <1>9, <1>10, <1>11, <1>12, <1>13 DEF Sync

LEMMA SerialStep ==
    ASSUME NEW me, Procs = {me}, TypeOK, TypeOK', SerialInv(me), [Next]_vars
    PROVE  SerialInv(me)'
<1>1. CASE UNCHANGED vars
  BY <1>1 DEF vars, source, SerialInv, FreshIsUnseen, ClocksAgree, Paid, Credit, Reserve,
              InFlight, AtPush, Target
<1>2. CASE Tick
  <2>1. /\ UNCHANGED <<names, cursor, seen, sent, unreported, faults, run>>
        /\ clock' = clock + 1 /\ clock \in Nat
    BY <1>2, EngineAssumption DEF Tick, TypeOK
  <2>2. ClocksAgree(me)'
    <3>1. run[me].windowEnd \in Nat /\ cursor \in Nat
      BY DEF TypeOK, RunState
    <3>2. QED
      BY <2>1, <3>1 DEF SerialInv, ClocksAgree
  <2>3. QED
    BY <2>1, <2>2 DEF SerialInv, FreshIsUnseen, Paid, Credit, Reserve, InFlight, AtPush, Target
<1>3. ASSUME NEW i \in Items, NEW w \in 1 .. MaxTime, Surface(i, w)
      PROVE  SerialInv(me)'
  BY <1>3 DEF Surface, SerialInv, FreshIsUnseen, ClocksAgree, Paid, Credit, Reserve,
              InFlight, AtPush, Target
<1>4. CASE Sync(me)
  BY <1>4, SerialSyncStep
<1>5. CASE Crash(me)
  <2>1. cursor' <= clock
    BY <1>5 DEF Crash, SerialInv, ClocksAgree
  <2>2. QED
    BY <1>5, <2>1, ReturnSerial DEF Crash
<1>6. CASE Cancel(me)
  <2>1. /\ UNCHANGED <<clock, names, cursor, seen, sent, unreported>> /\ faults' = faults + 1
        /\ run'[me] = [run[me] EXCEPT !.cancelled = TRUE]
    BY <1>6 DEF Cancel, Goto, TypeOK
  <2>2. /\ run'[me].pc = run[me].pc /\ run'[me].idx = run[me].idx
        /\ run'[me].todo = run[me].todo /\ run'[me].fresh = run[me].fresh
        /\ run'[me].windowEnd = run[me].windowEnd
    BY <2>1 DEF TypeOK, RunState
  <2>3. FreshIsUnseen(me)' /\ ClocksAgree(me)'
    BY <2>1, <2>2 DEF SerialInv, FreshIsUnseen, ClocksAgree, Target
  <2>4. ASSUME NEW x \in Targets \X Items
        PROVE  sent'[x] + Reserve(me, x)' <= faults' + unreported'[x] + Credit(me, x)'
    <3>1. Credit(me, x)' = Credit(me, x)
      BY <2>1, <2>2 DEF Credit, InFlight, Target
    <3>2. /\ sent[x] + Reserve(me, x) <= faults + unreported[x] + Credit(me, x)
          /\ Reserve(me, x) \in {0, 1} /\ Reserve(me, x)' \in {0, 1} /\ Credit(me, x) \in {0, 1}
      BY DEF SerialInv, Paid, Reserve, Credit
    <3>3. sent[x] \in Nat /\ unreported[x] \in Nat /\ faults \in Nat
      BY DEF TypeOK
    <3>4. QED
      BY <2>1, <3>1, <3>2, <3>3
  <2>5. QED
    BY <2>3, <2>4 DEF SerialInv, Paid
<1>7. QED
  BY <1>1, <1>2, <1>3, <1>4, <1>5, <1>6 DEF Next

LEMMA SerialInductive ==
    ASSUME NEW me, Procs = {me}
    PROVE  Spec => [](TypeOK /\ SerialInv(me))
<1>1. Init => TypeOK /\ SerialInv(me)
  BY TypeInit, SerialInit
<1>2. TypeOK /\ SerialInv(me) /\ [Next]_vars => (TypeOK /\ SerialInv(me))'
  BY TypeStep, SerialStep
<1>3. QED
  BY <1>1, <1>2, PTL DEF Spec

(* A sync that one process runs at a time never sends a target what is     *)
(* recorded for it, whatever fails.                                        *)
THEOREM NothingIsResent ==
    ASSUME NEW me, Procs = {me}
    PROVE  Spec => NeverResent
<1>1. ASSUME TypeOK, SerialInv(me), [Next]_vars, NEW x \in Targets \X Items, sent'[x] # sent[x]
      PROVE  x \notin seen
  <2>1. CASE Push(me)
    <3>1. PICK received \in SUBSET run[me].fresh : sent' = OneMore(sent, Target(me), received)
      BY <2>1, PushCases DEF PushReturns
    <3>2. x[1] = Target(me) /\ x[2] \in Listed(run[me].fresh)
      BY <1>1, <3>1 DEF OneMore, Listed, TypeOK
    <3>3. run[me].pc = "diff"
      BY <2>1 DEF Push
    <3>4. QED
      BY <1>1, <3>2, <3>3 DEF SerialInv, FreshIsUnseen, Listed
  <2>2. CASE ~Push(me)
    BY <1>1, <2>2 DEF Next, vars, Tick, Surface, Crash, Cancel, Sync, ReadCursor, OpenWindow,
       FetchHistory, LookUp, SkipTarget, Mark, NextTarget, Finish
  <2>3. QED
    BY <2>1, <2>2
<1>2. TypeOK /\ SerialInv(me) /\ [Next]_vars =>
         [\A x \in Targets \X Items : sent'[x] # sent[x] => x \notin seen]_vars
  BY <1>1
<1>3. QED
  BY <1>2, SerialInductive, PTL DEF Spec, NeverResent

(* ... its cursor never moves back ... *)
THEOREM CursorNeverRegresses ==
    ASSUME NEW me, Procs = {me}
    PROVE  Spec => CursorMonotone
<1>1. ASSUME TypeOK, SerialInv(me), [Next]_vars
      PROVE  cursor' >= cursor
  <2>1. cursor \in Nat
    BY <1>1 DEF TypeOK
  <2>2. CASE Finish(me)
    <3>1. cursor' \in {cursor, run[me].windowEnd} /\ run[me].pc = "finish"
      BY <2>2 DEF Finish, SetLastRun
    <3>2. QED
      BY <1>1, <2>1, <3>1 DEF SerialInv, ClocksAgree
  <2>3. CASE ~Finish(me)
    <3>1. cursor' = cursor
      BY <1>1, <2>3 DEF Next, vars, Tick, Surface, Crash, Cancel, Sync, ReadCursor, OpenWindow,
         FetchHistory, LookUp, SkipTarget, Push, Mark, NextTarget
    <3>2. QED
      BY <2>1, <3>1
  <2>4. QED
    BY <2>2, <2>3
<1>2. TypeOK /\ SerialInv(me) /\ [Next]_vars => [cursor' >= cursor]_vars
  BY <1>1
<1>3. QED
  BY <1>2, SerialInductive, PTL DEF Spec, CursorMonotone

(* ... and an item is brought to a service by one call, by one more for    *)
(* each fault, and by one more for each report that left it out.           *)
THEOREM DuplicatesArePaid ==
    ASSUME NEW me, Procs = {me}
    PROVE  Spec => []ReplayBudget
<1>1. ASSUME TypeOK, SerialInv(me), NEW x \in Targets \X Items
      PROVE  sent[x] <= 1 + faults + unreported[x]
  <2>1. sent[x] \in Nat /\ unreported[x] \in Nat /\ faults \in Nat
    BY <1>1 DEF TypeOK
  <2>2. /\ sent[x] + Reserve(me, x) <= faults + unreported[x] + Credit(me, x)
        /\ Reserve(me, x) \in {0, 1} /\ Credit(me, x) \in {0, 1}
    BY <1>1 DEF SerialInv, Paid, Reserve, Credit
  <2>3. QED
    BY <2>1, <2>2
<1>2. TypeOK /\ SerialInv(me) => ReplayBudget
  BY <1>1 DEF ReplayBudget
<1>3. QED
  BY <1>2, SerialInductive, PTL
=============================================================================
