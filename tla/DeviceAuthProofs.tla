-------------------------- MODULE DeviceAuthProofs --------------------------
(***************************************************************************)
(* The safety of DeviceAuth for every lifetime, interval and Retry-After:  *)
(* types, PollsAreSpaced and DeadCodeIsLeftAlone.                          *)
(***************************************************************************)
EXTENDS DeviceAuth, TLAPS

-----------------------------------------------------------------------------
(* The inductive invariant. *)

(* The client's interval keeps up with what the service expects, once it   *)
(* has handled the slow_down at hand.                                      *)
KeepsPace ==
    announced <= IF pc = "reply" /\ answer.kind = "slow" THEN NextInterval(interval)
                 ELSE interval

(* While the client may poll, and while it waits, no more is missing than  *)
(* the cap took off; and an answer at hand asks for no more than its pace. *)
WaitsEnough ==
    /\ pc \in {"request", "poll", "dial", "sent"} => due <= CutOff
    /\ pc = "wait" => due <= hold + CutOff
    /\ pc = "reply" => due <= Demand(announced, answer)
    /\ answer.kind # "slow" => answer.retry = -1
    /\ pc = "request" => answer.kind = "none"

(* A terminal answer is the last one. *)
DeadEnds ==
    /\ dead => pc \in {"reply", "done"}
    /\ dead /\ pc = "reply" => answer.kind = "terminal"
    /\ pc = "reply" => answer.kind # "none"

IInv ==
    /\ TypeOK
    /\ KeepsPace
    /\ WaitsEnough
    /\ DeadEnds

-----------------------------------------------------------------------------
(* The smaller of two. *)
LEMMA MinOfTwo ==
    ASSUME NEW m \in Nat, NEW n \in Nat
    PROVE  Min({m, n}) = IF m <= n THEN m ELSE n
<1> DEFINE least == IF m <= n THEN m ELSE n
<1>1. \A x : (x \in {m, n} /\ \A y \in {m, n} : x <= y) <=> x = least
  OBVIOUS
<1>2. QED
  BY <1>1 DEF Min

(* What the cap takes off is what the wait lacks: the wait after a         *)
(* slow_down and the part cut off make up the pause it asked for.          *)
LEMMA SlowWaitSuffices ==
    ASSUME TypeOK, answer.kind = "slow", NEW next \in Nat, announced <= next
    PROVE  /\ SlowWait(next, answer.retry) \in Nat
           /\ Demand(announced, answer) <= SlowWait(next, answer.retry) + CutOff
<1>1. /\ MaxWait \in Nat /\ announced \in Nat
      /\ answer.retry \in Nat \/ answer.retry = -1
  BY DeviceAuthAssumption DEF TypeOK, Answers
<1>2. CASE answer.retry \in Nat
  BY <1>1, <1>2, MinOfTwo DEF SlowWait, CutOff, Demand
<1>3. CASE answer.retry = -1
  BY <1>1, <1>3, MinOfTwo DEF SlowWait, CutOff, Demand
<1>4. QED
  BY <1>1, <1>2, <1>3

(* An answer asks for a pause, and the cap takes off a length of time.     *)
LEMMA DemandType ==
    ASSUME TypeOK
    PROVE  /\ Demand(announced, answer) \in Nat
           /\ CutOff \in Nat
           /\ answer.kind # "slow" => CutOff = 0
<1>1. /\ MaxWait \in Nat /\ announced \in Nat
      /\ answer.retry \in Nat \/ answer.retry = -1
  BY DeviceAuthAssumption DEF TypeOK, Answers
<1>2. QED
  BY <1>1 DEF CutOff, Demand

LEMMA InvInit ==
    Init => IInv
<1> SUFFICES ASSUME Init
             PROVE  IInv
  OBVIOUS
<1>1. TypeOK
  <2>1. None \in Answers
    BY DEF None, Answers
  <2>2. {announced, due, slowDowns, faults, life, left, interval, hold, dialled} \subseteq Nat
    BY DEF Init
  <2>3. /\ dead \in BOOLEAN /\ bounded \in BOOLEAN /\ signalled \in BOOLEAN
        /\ (result # "none") = (pc = "done")
    BY DEF Init
  <2>4. QED
    BY <2>1, <2>2, <2>3 DEF Init, TypeOK
<1>2. KeepsPace /\ WaitsEnough /\ DeadEnds
  BY DEF Init, None, CutOff, KeepsPace, WaitsEnough, DeadEnds
<1>3. QED
  BY <1>1, <1>2 DEF IInv

LEMMA TickStep ==
    ASSUME IInv, Tick
    PROVE  IInv'
<1>1. \A t \in Nat : Down(t) \in Nat /\ Down(t) <= t
  BY DEF Down
<1>2. TypeOK'
  BY <1>1, DeviceAuthAssumption DEF IInv, Tick, TypeOK
<1>3. KeepsPace'
  BY DEF IInv, Tick, KeepsPace
<1>4. WaitsEnough'
  <2>1. /\ due \in Nat /\ hold \in Nat /\ due' = Down(due) /\ hold' = Down(hold)
        /\ UNCHANGED <<pc, answer, announced>>
    BY DEF IInv, TypeOK, Tick
  <2>2. /\ CutOff' = CutOff /\ Demand(announced, answer)' = Demand(announced, answer)
        /\ CutOff \in Nat /\ Demand(announced, answer) \in Nat
    BY <2>1, DemandType DEF IInv, CutOff, Demand
  <2>3. pc = "wait" => due' <= hold' + CutOff
    BY <2>1, <2>2 DEF IInv, WaitsEnough, Down
  <2>4. due' <= due /\ due' \in Nat
    BY <1>1, <2>1
  <2>5. QED
    BY <2>1, <2>2, <2>3, <2>4 DEF IInv, WaitsEnough
<1>5. DeadEnds'
  BY DEF IInv, Tick, DeadEnds
<1>6. QED
  BY <1>2, <1>3, <1>4, <1>5 DEF IInv

LEMMA ReplyStep ==
    ASSUME IInv, Reply
    PROVE  IInv'
<1>1. PICK r \in Replies :
          /\ answer' = r
          /\ dead' = (r.kind = "terminal")
          /\ announced' = IF r.kind = "slow" THEN announced + Bump ELSE announced
          /\ due' = Demand(announced', r)
          /\ slowDowns' = IF r.kind = "slow" THEN slowDowns + 1 ELSE slowDowns
  BY DEF Reply
<1>2. /\ pc = "sent" /\ pc' = "reply"
      /\ UNCHANGED <<service, user, faults, context, interval, hold, dialled, result>>
  BY DEF Reply
<1>3. r \in Answers /\ r.kind # "none" /\ (r.kind # "slow" => r.retry = -1)
  BY <1>1 DEF Replies, Answers
<1>4. /\ announced \in Nat /\ interval \in Nat /\ announced <= interval
      /\ Bump \in Nat /\ slowDowns \in Nat
      /\ r.retry \in Nat \/ r.retry = -1
  BY <1>2, <1>3, DeviceAuthAssumption DEF IInv, TypeOK, KeepsPace, Answers
<1>5. announced' \in Nat /\ slowDowns' \in Nat
  BY <1>1, <1>4
<1>6. due' \in Nat
  BY <1>1, <1>4, <1>5 DEF Demand
<1>7. TypeOK'
  BY <1>1, <1>2, <1>3, <1>5, <1>6 DEF IInv, TypeOK, context
<1>8. KeepsPace'
  BY <1>1, <1>2, <1>4 DEF KeepsPace, NextInterval
<1>9. WaitsEnough'
  BY <1>1, <1>2, <1>3, <1>6 DEF WaitsEnough
<1>10. DeadEnds'
  BY <1>1, <1>2, <1>3 DEF DeadEnds
<1>11. QED
  BY <1>7, <1>8, <1>9, <1>10 DEF IInv

(* A return leaves everything else as it is. *)
LEMMA ReturnStep ==
    ASSUME IInv, NEW r \in {"token", "expired", "canceled", "failed"}, Return(r),
           ~(pc = "reply" /\ answer.kind = "slow")
    PROVE  IInv'
BY DEF IInv, Return, TypeOK, KeepsPace, WaitsEnough, DeadEnds, CutOff, Demand, theirs, context, NextInterval

LEMMA ClientStep ==
    ASSUME IInv, Client
    PROVE  IInv'
<1>1. /\ {announced, due, slowDowns, faults, life, left, interval, hold, dialled} \subseteq Nat
      /\ answer \in Answers /\ Bump \in Nat
  BY DeviceAuthAssumption DEF IInv, TypeOK
<1>2. CASE RequestCode
  <2>1. CASE \E r \in {"failed", "canceled"} : Return(r)
    BY <1>2, <2>1, ReturnStep DEF RequestCode
  <2>2. CASE ~\E r \in {"failed", "canceled"} : Return(r)
    <3>1. PICK expiresIn \in Lifetimes, told \in Intervals :
             /\ life' = expiresIn /\ left' = expiresIn
             /\ bounded' = HasDeadline(expiresIn)
             /\ interval' = IF told > 0 THEN told ELSE DefaultWait
             /\ announced' = told
      BY <1>2, <2>2 DEF RequestCode
    <3>2. /\ pc = "request" /\ pc' = "poll"
          /\ UNCHANGED <<service, user, due, dead, slowDowns, faults, signalled,
                         ctxErr, hold, dialled, answer, result>>
      BY <1>2, <2>2 DEF RequestCode
    <3>3. expiresIn \in Nat /\ told \in Nat /\ DefaultWait \in Nat
      BY DeviceAuthAssumption
    <3>4. TypeOK'
      BY <3>1, <3>2, <3>3 DEF IInv, TypeOK, HasDeadline
    <3>5. KeepsPace' /\ DeadEnds'
      BY <3>1, <3>2, <3>3 DEF IInv, KeepsPace, DeadEnds
    <3>6. WaitsEnough'
      BY <3>2 DEF IInv, WaitsEnough, CutOff
    <3>7. QED
      BY <3>4, <3>5, <3>6 DEF IInv
  <2>3. QED
    BY <2>1, <2>2
<1>3. ASSUME ContextEnds, ~(pc = "reply" /\ answer.kind = "slow")
      PROVE  IInv'
  <2>1. PICK r \in {"expired", "canceled", "failed"} : Return(r)
    BY <1>3 DEF ContextEnds, IInv, TypeOK
  <2>2. QED
    BY <1>3, <2>1, ReturnStep
<1>4. CASE Poll
  <2>1. pc = "poll"
    BY <1>4 DEF Poll
  <2>2. CASE ContextEnds
    BY <1>3, <2>1, <2>2
  <2>3. CASE pc' = "dial" /\ dialled' = 0 /\ UNCHANGED <<theirs, context, interval, hold, answer, result>>
    <3>1. TypeOK' /\ KeepsPace' /\ DeadEnds'
      BY <2>1, <2>3 DEF IInv, TypeOK, KeepsPace, DeadEnds, theirs, context, NextInterval
    <3>2. WaitsEnough'
      BY <2>1, <2>3 DEF IInv, WaitsEnough, CutOff, Demand, theirs
    <3>3. QED
      BY <3>1, <3>2 DEF IInv
  <2>4. QED
    BY <1>4, <2>2, <2>3 DEF Poll
<1>5. CASE Connect
  BY <1>5 DEF Connect, IInv, TypeOK, KeepsPace, WaitsEnough, DeadEnds, CutOff, Demand, theirs, context, NextInterval
<1>6. CASE DialTimesOut
  BY <1>6, ReturnStep DEF DialTimesOut
<1>7. CASE Abort
  BY <1>3, <1>7, ReturnStep DEF Abort
<1>8. CASE Wait
  <2>1. pc = "wait"
    BY <1>8 DEF Wait
  <2>2. CASE ContextEnds
    BY <1>3, <2>1, <2>2
  <2>3. CASE hold = 0 /\ pc' = "poll" /\ UNCHANGED <<theirs, context, interval, hold, dialled, answer, result>>
    <3>1. TypeOK' /\ KeepsPace' /\ DeadEnds'
      BY <2>1, <2>3 DEF IInv, TypeOK, KeepsPace, DeadEnds, theirs, context, NextInterval
    <3>2. due <= CutOff
      BY <1>1, <2>1, <2>3, DemandType DEF IInv, WaitsEnough
    <3>3. WaitsEnough'
      BY <2>3, <3>2 DEF IInv, WaitsEnough, CutOff, Demand, theirs
    <3>4. QED
      BY <3>1, <3>3 DEF IInv
  <2>4. QED
    BY <1>8, <2>2, <2>3 DEF Wait
<1>9. CASE Handle
  <2>1. pc = "reply" /\ answer.kind \in {"token", "pending", "slow", "terminal"}
    BY <1>1, <1>9 DEF Handle, IInv, DeadEnds, Answers
  <2>2. CASE answer.kind = "slow"
    <3> DEFINE next == NextInterval(interval)
    <3>1. StartWait(next, SlowWait(next, answer.retry))
      BY <1>9, <2>2 DEF Handle, Terminal
    <3>2. next \in Nat /\ announced <= next
      BY <1>1, <2>1, <2>2 DEF NextInterval, IInv, KeepsPace
    <3>3. /\ SlowWait(next, answer.retry) \in Nat
          /\ Demand(announced, answer) <= SlowWait(next, answer.retry) + CutOff
          /\ Demand(announced, answer) \in Nat /\ CutOff \in Nat
      BY <2>2, <3>2, SlowWaitSuffices, DemandType DEF IInv
    <3> HIDE DEF next
    <3>4. TypeOK'
      BY <2>1, <3>1, <3>2, <3>3 DEF StartWait, IInv, TypeOK, theirs, context
    <3>5. KeepsPace'
      BY <2>1, <2>2, <3>1 DEF StartWait, IInv, KeepsPace, theirs, next
    <3>6. WaitsEnough'
      <4>1. /\ pc' = "wait" /\ hold' = SlowWait(next, answer.retry)
            /\ UNCHANGED <<announced, due, answer>>
        BY <3>1 DEF StartWait, theirs
      <4>2. due <= Demand(announced, answer) /\ CutOff' = CutOff
        BY <2>1, <4>1 DEF IInv, WaitsEnough, CutOff, Demand
      <4>3. due <= hold' + CutOff'
        BY <1>1, <3>3, <4>1, <4>2
      <4>4. QED
        BY <2>2, <4>1, <4>3 DEF WaitsEnough
    <3>7. DeadEnds'
      BY <2>1, <2>2, <3>1 DEF StartWait, IInv, DeadEnds, theirs
    <3>8. QED
      BY <3>4, <3>5, <3>6, <3>7 DEF IInv
  <2>3. CASE answer.kind = "terminal"
    BY <1>9, <2>1, <2>3, ReturnStep DEF Handle, Terminal
  <2>4. CASE answer.kind = "pending"
    <3>1. StartWait(interval, interval)
      BY <1>9, <2>4 DEF Handle, Terminal
    <3>2. TypeOK' /\ KeepsPace' /\ DeadEnds'
      BY <1>1, <2>1, <2>4, <3>1
         DEF StartWait, IInv, TypeOK, KeepsPace, DeadEnds, theirs, context
    <3>3. due <= interval
      BY <1>1, <2>1, <2>4 DEF IInv, KeepsPace, WaitsEnough, Demand
    <3>4. /\ pc' = "wait" /\ hold' = interval /\ CutOff' = 0
          /\ UNCHANGED <<due, answer>>
      BY <2>4, <3>1 DEF StartWait, CutOff, theirs
    <3>5. WaitsEnough'
      BY <1>1, <2>4, <3>3, <3>4 DEF IInv, WaitsEnough
    <3>6. QED
      BY <3>2, <3>5 DEF IInv
  <2>5. CASE answer.kind = "token" /\ ~Return("token")
    <3>1. /\ faults' = IF ctxErr = "none" THEN faults + 1 ELSE faults
          /\ UNCHANGED <<service, user, announced, due, dead, slowDowns, context,
                         interval, dialled, answer>>
          /\ \/ pc' = "done" /\ result' = "failed" /\ UNCHANGED hold
             \/ pc' = "wait" /\ hold' = interval /\ UNCHANGED result
      BY <1>9, <2>5 DEF Handle, Terminal
    <3>2. due <= interval
      BY <1>1, <2>1, <2>5 DEF IInv, KeepsPace, WaitsEnough, Demand
    <3>3. TypeOK'
      BY <1>1, <2>1, <3>1 DEF IInv, TypeOK, context
    <3>4. KeepsPace' /\ DeadEnds'
      BY <2>1, <2>5, <3>1 DEF IInv, KeepsPace, DeadEnds
    <3>5. WaitsEnough'
      BY <1>1, <2>5, <3>1, <3>2 DEF IInv, WaitsEnough, CutOff
    <3>6. QED
      BY <3>3, <3>4, <3>5 DEF IInv
  <2>6. CASE answer.kind = "token" /\ Return("token")
    BY <2>6, ReturnStep
  <2>7. QED
    BY <2>1, <2>2, <2>3, <2>4, <2>5, <2>6
<1>10. QED
  BY <1>2, <1>4, <1>5, <1>6, <1>7, <1>8, <1>9 DEF Client

LEMMA InvStep ==
    IInv /\ [Next]_vars => IInv'
<1> SUFFICES ASSUME IInv, [Next]_vars
             PROVE  IInv'
  OBVIOUS
<1>1. CASE UNCHANGED vars
  BY <1>1 DEF vars, theirs, context, IInv, TypeOK, KeepsPace, WaitsEnough, DeadEnds,
              NextInterval, CutOff, Demand
<1>2. CASE Decide
  BY <1>2 DEF Decide, context, IInv, TypeOK, KeepsPace, WaitsEnough, DeadEnds,
              NextInterval, CutOff, Demand
<1>3. CASE Signal
  BY <1>3 DEF Signal, theirs, IInv, TypeOK, KeepsPace, WaitsEnough, DeadEnds,
              NextInterval, CutOff, Demand
<1>4. QED
  BY <1>1, <1>2, <1>3, TickStep, ReplyStep, ClientStep DEF Next

LEMMA Inductive ==
    Spec => []IInv
BY InvInit, InvStep, PTL DEF Spec

(* Type correctness, for all lifetimes, intervals and caps. *)
THEOREM TypeCorrect ==
    Spec => []TypeOK
<1>1. IInv => TypeOK
  BY DEF IInv
<1>2. QED
  BY <1>1, Inductive, PTL

(* The service's pace is kept, but for what the cap takes off the pause of *)
(* a slow_down: whatever interval and Retry-After the answers carry.       *)
THEOREM PaceIsKept ==
    Spec => PollsAreSpaced
<1>1. IInv /\ [Next]_vars => [pc = "poll" /\ pc' = "dial" => due <= CutOff]_vars
  BY DEF IInv, WaitsEnough
<1>2. QED
  BY <1>1, Inductive, PTL DEF Spec, PollsAreSpaced

(* A code that the service has called dead is not polled again. *)
THEOREM NoPollAfterTheLastAnswer ==
    Spec => DeadCodeIsLeftAlone
<1>1. ASSUME IInv, [Next]_vars, pc' = "dial"
      PROVE  ~dead
  <2>1. pc \in {"poll", "dial"}
    BY <1>1 DEF Next, vars, Tick, Decide, Signal, Reply, Client, RequestCode, Poll, Connect,
       DialTimesOut, Abort, Handle, Wait, StartWait, Return, ContextEnds
  <2>2. QED
    BY <1>1, <2>1 DEF IInv, DeadEnds
<1>2. IInv /\ [Next]_vars => [pc' = "dial" => ~dead]_vars
  BY <1>1
<1>3. QED
  BY <1>2, Inductive, PTL DEF Spec, DeadCodeIsLeftAlone
=============================================================================
