----------------------------- MODULE DeviceAuth -----------------------------
(***************************************************************************)
(* `watchmesh auth` for Trakt (device code, internal/trakt/auth.go) and    *)
(* Simkl (PIN, internal/simkl/auth.go): the client gets a code, shows it   *)
(* to the user and polls for the token, under a context that ends with the *)
(* code's lifetime or a signal.  Between two steps of the client the user  *)
(* decides, time passes, and requests hang, break or lose their body.      *)
(*                                                                         *)
(* Time is relative: every timer counts down (or up, for a dial), so that  *)
(* endless polling is a cycle of states and not a clock at its bound.      *)
(***************************************************************************)
EXTENDS Integers, FiniteSetsExt

CONSTANTS
    Services,       \* "trakt", "simkl"
    Lifetimes,      \* values of expires_in, 0 where the answer has none
    Intervals,      \* values of interval, 0 where the answer has none
    RetryAfters,    \* values of Retry-After on a slow_down
    DefaultWait,    \* the interval of a client that was told none (5 s)
    Bump,           \* slowDownBump
    MaxWait,        \* maxPollWait
    DialTimeout,    \* http.DefaultTransport gives a dial up by then (30 s)
    MaxSlowDowns,   \* bound: slow_down answers in one behaviour
    MaxFaults       \* bound: token answers that lose their body

ASSUME DeviceAuthAssumption ==
    /\ Services \subseteq {"trakt", "simkl"}
    /\ Lifetimes \cup Intervals \cup RetryAfters \subseteq Nat
    /\ {DefaultWait, DialTimeout} \subseteq Nat \ {0}
    /\ {Bump, MaxWait, MaxSlowDowns, MaxFaults} \subseteq Nat

VARIABLES
    service,
    user,           \* what the user has decided at the verification URL
    announced,      \* the interval the service expects of its client
    due,            \* how long the service still wants no poll, by its last answer
    dead,           \* the service has answered that the code is no use
    slowDowns, faults,
    pc,
    life, left,     \* expires_in, and what is left of it
    bounded,        \* the polling context has a deadline
    signalled,      \* SIGINT or SIGTERM arrived
    ctxErr,         \* the polling context's error: what ended it first
    interval,
    hold,           \* what is left of the wait between two polls
    dialled,        \* how long the dial has taken
    answer,         \* the answer that arrived: its kind and Retry-After
    result

theirs == <<service, user, announced, due, dead, slowDowns, faults>>
context == <<life, left, bounded, signalled, ctxErr>>
vars == <<theirs, pc, context, interval, hold, dialled, answer, result>>

None == [kind |-> "none", retry |-> -1]
Answers == [kind : {"none", "token", "pending", "slow", "terminal"},
            retry : RetryAfters \cup {-1}]

Init ==
    /\ service \in Services
    /\ user = "undecided" /\ announced = 0 /\ due = 0 /\ dead = FALSE
    /\ slowDowns = 0 /\ faults = 0
    /\ pc = "request"
    /\ life = 0 /\ left = 0 /\ bounded = FALSE /\ signalled = FALSE /\ ctxErr = "none"
    /\ interval = 0 /\ hold = 0 /\ dialled = 0
    /\ answer = None /\ result = "none"

-----------------------------------------------------------------------------
(* Time, the user and signals. *)

Down(t) == IF t > 0 THEN t - 1 ELSE 0

Tick ==
    /\ left' = Down(left) /\ hold' = Down(hold) /\ due' = Down(due)
    /\ dialled' = IF pc = "dial" /\ dialled < DialTimeout THEN dialled + 1 ELSE dialled
    /\ ctxErr' = IF ctxErr = "none" /\ bounded /\ left' = 0 THEN "deadline" ELSE ctxErr
    /\ UNCHANGED <<service, user, announced, dead, slowDowns, faults,
                   pc, life, bounded, signalled, interval, answer, result>>

(* The code is good for its lifetime, and for good if it has none. *)
Alive == life = 0 \/ left > 0

Decide ==
    /\ pc # "request" /\ user = "undecided" /\ Alive
    /\ user' \in {"approved", "denied"}
    /\ UNCHANGED <<service, announced, due, dead, slowDowns, faults, pc, context,
                   interval, hold, dialled, answer, result>>

Signal ==
    /\ pc # "done" /\ ~signalled
    /\ signalled' = TRUE
    /\ ctxErr' = IF ctxErr = "none" THEN "canceled" ELSE ctxErr
    /\ UNCHANGED <<theirs, pc, life, left, bounded, interval, hold, dialled, answer, result>>

-----------------------------------------------------------------------------
(* The service, at the far end of a poll. *)

(* What a poll can be answered with: the state of the code, a slow_down    *)
(* (Trakt), or an error.  Simkl has no answer for a dead code: it goes on  *)
(* as if the user had not decided.                                         *)
Replies ==
    {[kind |-> "terminal", retry |-> -1]} \cup
    IF user = "approved" /\ Alive THEN {[kind |-> "token", retry |-> -1]}
    ELSE IF service = "simkl" THEN {[kind |-> "pending", retry |-> -1]}
    ELSE (IF user = "undecided" /\ Alive THEN {[kind |-> "pending", retry |-> -1]} ELSE {})
         \cup (IF slowDowns < MaxSlowDowns
               THEN [kind : {"slow"}, retry : RetryAfters \cup {-1}] ELSE {})

(* The pause the service asks for with an answer: a slow_down's            *)
(* Retry-After, however long, or else the pace it has announced so far.    *)
Demand(pace, r) == IF r.retry >= 0 THEN r.retry ELSE pace

Reply ==
    /\ pc = "sent"
    /\ \E r \in Replies :
          /\ answer' = r
          /\ dead' = (r.kind = "terminal")
          /\ announced' = IF r.kind = "slow" THEN announced + Bump ELSE announced
          /\ due' = Demand(announced', r)
          /\ slowDowns' = IF r.kind = "slow" THEN slowDowns + 1 ELSE slowDowns
    /\ pc' = "reply"
    /\ UNCHANGED <<service, user, faults, context, interval, hold, dialled, result>>

-----------------------------------------------------------------------------
(* The client. *)

Return(r) ==
    /\ pc' = "done" /\ result' = r
    /\ UNCHANGED <<theirs, context, interval, hold, dialled, answer>>

(* Mutant of HasDeadline: the polling context is never given a deadline. *)
HasDeadline_Never(expiresIn) == FALSE

(* A code without a lifetime is polled without a deadline. *)
HasDeadline(expiresIn) == expiresIn > 0

(* RequestDeviceCode or RequestPIN, and the set-up of the polling. *)
RequestCode ==
    /\ pc = "request"
    /\ \/ ctxErr = "none"
          /\ \E expiresIn \in Lifetimes, told \in Intervals :
                /\ life' = expiresIn /\ left' = expiresIn
                /\ bounded' = HasDeadline(expiresIn)
                /\ interval' = IF told > 0 THEN told ELSE DefaultWait
                /\ announced' = told
          /\ pc' = "poll"
          /\ UNCHANGED <<service, user, due, dead, slowDowns, faults, signalled,
                         ctxErr, hold, dialled, answer, result>>
       \/ ctxErr = "none" /\ Return("failed")
       \/ ctxErr # "none" /\ Return("canceled")

(* What the flow reports when its context has ended: expiry, unless the    *)
(* user interrupted it as well.                                            *)
ContextEnds ==
    /\ ctxErr # "none"
    /\ Return(CASE ctxErr = "canceled" -> "canceled"
                [] ctxErr = "deadline" /\ ~signalled -> "expired"
                [] OTHER -> "failed")

Poll ==
    /\ pc = "poll"
    /\ \/ ContextEnds
       \/ /\ ctxErr = "none"
          /\ pc' = "dial" /\ dialled' = 0
          /\ UNCHANGED <<theirs, context, interval, hold, answer, result>>

Connect ==
    /\ pc = "dial" /\ ctxErr = "none"
    /\ pc' = "sent"
    /\ UNCHANGED <<theirs, context, interval, hold, dialled, answer, result>>

(* The dialler's own timeout: its error is one that errors.Is may take for *)
(* an exceeded context deadline.                                           *)
DialTimesOut ==
    /\ pc = "dial" /\ dialled = DialTimeout
    /\ \/ Return("failed")
       \/ bounded /\ ~signalled /\ Return("expired")

(* A request under way ends with the context, or breaks.                   *)
Abort ==
    /\ pc \in {"dial", "sent"}
    /\ ContextEnds \/ Return("failed")

(* Mutant of NextInterval: slow_down does not slow the later polls down. *)
NextInterval_Kept(i) == i

NextInterval(i) == i + Bump

(* Mutant of SlowWait: any numeric Retry-After counts, negative ones too. *)
SlowWait_AnyRetry(next, retry) == Min({retry, MaxWait})

(* The wait after a slow_down, given the interval after its bump. *)
SlowWait(next, retry) == Min({IF retry >= 0 THEN retry ELSE next, MaxWait})

StartWait(next, wait) ==
    /\ interval' = next /\ hold' = wait
    /\ pc' = "wait"
    /\ UNCHANGED <<theirs, context, dialled, answer, result>>

(* Mutant of Terminal: only slow_down and token are told from pending. *)
Terminal_Ignored(kind) == FALSE

Terminal(kind) == kind = "terminal"

(* The poll's answer.  A token answer whose body cannot be read is an      *)
(* unexpected status to the Trakt client, a pending one to the Simkl one.  *)
Handle ==
    /\ pc = "reply"
    /\ LET kind == answer.kind IN
       \/ kind = "token" /\ Return("token")
       \/ /\ kind = "token" /\ (ctxErr # "none" \/ faults < MaxFaults)
          /\ faults' = IF ctxErr = "none" THEN faults + 1 ELSE faults
          /\ IF service = "trakt"
             THEN pc' = "done" /\ result' = "failed" /\ UNCHANGED hold
             ELSE pc' = "wait" /\ hold' = interval /\ UNCHANGED result
          /\ UNCHANGED <<service, user, announced, due, dead, slowDowns, context,
                         interval, dialled, answer>>
       \/ kind = "slow" /\ LET next == NextInterval(interval) IN
                             StartWait(next, SlowWait(next, answer.retry))
       \/ Terminal(kind) /\ Return("failed")
       \/ kind \notin {"token", "slow"} /\ ~Terminal(kind) /\ StartWait(interval, interval)

(* Both sides of the select may be ready; Poll checks the context again. *)
Wait ==
    /\ pc = "wait"
    /\ \/ ContextEnds
       \/ hold = 0 /\ pc' = "poll"
          /\ UNCHANGED <<theirs, context, interval, hold, dialled, answer, result>>

Client == RequestCode \/ Poll \/ Connect \/ DialTimesOut \/ Abort \/ Handle \/ Wait

Next == Tick \/ Decide \/ Signal \/ Reply \/ Client

Spec == Init /\ [][Next]_vars

(* Time passes, the client's goroutine runs, and an open request is        *)
(* answered or ended by its context: without a lifetime nothing else       *)
(* bounds it, because http.DefaultClient has no timeout.                   *)
FairSpec ==
    /\ Spec
    /\ WF_vars(Tick) /\ WF_vars(Reply)
    /\ WF_vars(RequestCode) /\ WF_vars(Poll) /\ WF_vars(Handle) /\ WF_vars(Wait)
    /\ WF_vars(Connect) /\ WF_vars(Abort /\ ctxErr # "none")

-----------------------------------------------------------------------------
(* Properties *)

TypeOK ==
    /\ service \in Services
    /\ user \in {"undecided", "approved", "denied"}
    /\ {announced, due, slowDowns, faults, life, left, interval, hold, dialled} \subseteq Nat
    /\ dead \in BOOLEAN /\ bounded \in BOOLEAN /\ signalled \in BOOLEAN
    /\ pc \in {"request", "poll", "dial", "sent", "reply", "wait", "done"}
    /\ ctxErr \in {"none", "deadline", "canceled"}
    /\ answer \in Answers
    /\ result \in {"none", "token", "expired", "canceled", "failed"}
    /\ (result # "none") = (pc = "done")

(* What maxPollWait takes off the pause the last answer asked for: nothing *)
(* but the part of a slow_down's pause that is beyond one minute.          *)
CutOff ==
    LET asked == Demand(announced, answer)
    IN IF answer.kind = "slow" /\ asked > MaxWait THEN asked - MaxWait ELSE 0

(* A poll comes early only by what the cap on a single wait takes off the  *)
(* pause of the slow_down just before it: every other poll waits for as    *)
(* long as the service asks, and each slow_down slows down the ones after  *)
(* it too (trakt/auth.go:60-85, "bump the interval by 5s, honor            *)
(* Retry-After when present, cap the wait").                               *)
PollsAreSpaced ==
    [][pc = "poll" /\ pc' = "dial" => due <= CutOff]_vars

(* Once the service has given a terminal answer it is not asked again      *)
(* (trakt/auth.go:80-85, "hammering a dead code would just read out its    *)
(* expiry again").                                                         *)
DeadCodeIsLeftAlone ==
    [][pc' = "dial" => ~dead]_vars

(* The user is told that the code expired only when it has                 *)
(* (trakt/auth.go:152-155, "bounded by the code's expires_in seconds ...   *)
(* exhaustion yields an expiry error"), whatever else failed or timed out. *)
ExpiryIsHonest ==
    result = "expired" => life > 0 /\ left = 0

(* The command comes to an end: with the lifetime of the code, a signal,   *)
(* an approval, or a refusal that the service reports.                     *)
AuthEnds ==
    (\/ signalled
     \/ pc # "request" /\ life > 0
     \/ user = "approved"
     \/ user = "denied" /\ service = "trakt") ~> (pc = "done")
=============================================================================
