------------------------ MODULE ConnectorPushProofs ------------------------
(***************************************************************************)
(* The promises of ConnectorPush for any connectors, windows, chunk sizes  *)
(* and faults: its types, CancelIsAnError, NoneTwice, NothingLeft,         *)
(* LastRequestInDoubt, ReportedWasTaken and the contract that the engine   *)
(* relies on.                                                              *)
(***************************************************************************)
EXTENDS ConnectorPush, FiniteSetTheorems, WellFoundedInduction, TLAPS

Active == pc \in {"resolve", "send", "backoff"}

-----------------------------------------------------------------------------
(* The types. *)

(* There is nothing to send until the lookups are over. *)
Typed ==
    /\ TypeOK
    /\ pc = "resolve" => inputs = {} /\ delivered = {} /\ start = 0

(* The inputs are finitely many, and each has its number among them. *)
LEMMA InputsAreNumbered ==
    ASSUME TypeOK
    PROVE  /\ Cardinality(inputs) \in Nat
           /\ \A k \in inputs : Rank(k) \in 1 .. Cardinality(inputs)
<1>1. window \in Seq(Items)
  BY ConnectorPushAssumption DEF TypeOK
<1>2. IsFiniteSet(DOMAIN window)
  BY <1>1, FS_Interval
<1>3. IsFiniteSet(inputs)
  BY <1>2, FS_Subset DEF TypeOK
<1>4. Cardinality(inputs) \in Nat
  BY <1>3, FS_CardinalityType
<1>5. ASSUME NEW k \in inputs
      PROVE  Rank(k) \in 1 .. Cardinality(inputs)
  <2> DEFINE upTo == {j \in inputs : j <= k}
  <2>1. upTo \subseteq inputs
    OBVIOUS
  <2>2. IsFiniteSet(upTo) /\ Cardinality(upTo) <= Cardinality(inputs)
    BY <1>3, <2>1, FS_Subset
  <2>3. k \in Nat
    BY <1>1 DEF TypeOK
  <2>4. upTo # {}
    BY <2>3
  <2>5. Cardinality(upTo) \in Nat /\ Cardinality(upTo) # 0
    BY <2>2, <2>4, FS_CardinalityType, FS_EmptySet
  <2>6. Rank(k) = Cardinality(upTo)
    BY DEF Rank
  <2> HIDE DEF upTo
  <2>7. QED
    BY <1>4, <2>2, <2>5, <2>6
<1>6. QED
  BY <1>4, <1>5

LEMMA SizeIsNat ==
    ASSUME TypeOK
    PROVE  Size \in Nat /\ (~OneRequest => Size > 0)
<1>1. Cardinality(inputs) \in Nat
  BY InputsAreNumbered
<1>2. connector \in {"ryot", "yamtrack", "trakt", "simkl"}
  BY ConnectorPushAssumption DEF TypeOK
<1>3. QED
  BY <1>1, <1>2, ConnectorPushAssumption DEF Size, OneRequest

LEMMA FirstsInWindow == \A w : Firsts(w) \subseteq DOMAIN w
BY DEF Firsts

LEMMA TypedInit == Init => Typed
<1> SUFFICES ASSUME Init
             PROVE  Typed
  OBVIOUS
<1>1. lookups \subseteq DOMAIN window
  BY FirstsInWindow DEF Init
<1>2. accepted \in [inputs -> Nat] /\ faults \in 0 .. MaxFaults
  BY ConnectorPushAssumption DEF Init
<1>3. QED
  BY <1>1, <1>2 DEF Init, Typed, TypeOK

LEMMA TypedStep == Typed /\ [Next]_vars => Typed'
<1> SUFFICES ASSUME Typed, [Next]_vars
             PROVE  Typed'
  OBVIOUS
<1>1. TypeOK
  BY DEF Typed
<1>2. CASE Cancel
  BY <1>2 DEF Cancel, Typed, TypeOK, call, progress
<1>3. CASE Lookup
  <2>1. CASE Return(TRUE)
    <3>1. pc' = "done" /\ err' = TRUE /\ delivered' = delivered /\ faults' \in 0 .. MaxFaults
      BY <1>3, <2>1, <1>1, ConnectorPushAssumption DEF Lookup, Return, Reported, GoesWrong, Fault, TypeOK
    <3>2. UNCHANGED <<connector, window, lookups, resolved, inputs, start, retried, accepted, cancelled, cutShort>>
      BY <1>3, <2>1 DEF Lookup, Return, call, progress
    <3>3. QED
      BY <1>1, <3>1, <3>2 DEF Typed, TypeOK
  <2>2. CASE ~Return(TRUE)
    <3>1. PICK n \in lookups :
            /\ lookups' = lookups \ {n}
            /\ \/ /\ ~cancelled /\ UNCHANGED faults
                  /\ resolved' = resolved \cup Matches(Bucket[window[n]])
               \/ GoesWrong /\ UNCHANGED resolved
            /\ UNCHANGED <<call, pc, inputs, start, retried, delivered, err,
                           cancelled, cutShort>>
      BY <1>3, <2>2 DEF Lookup
    <3>2. window[n] \in Items
      BY <1>1, ConnectorPushAssumption DEF TypeOK
    <3>3. resolved' \subseteq {Bucket[i] : i \in Items} \cap Listed
      BY <1>1, <3>1, <3>2 DEF TypeOK, Matches
    <3>4. faults' \in 0 .. MaxFaults
      BY <1>1, <3>1, ConnectorPushAssumption DEF TypeOK, GoesWrong, Fault
    <3>5. lookups' \subseteq DOMAIN window /\ accepted' = accepted
      BY <1>1, <1>3, <3>1 DEF TypeOK, Lookup
    <3>6. QED
      BY <1>1, <3>1, <3>3, <3>4, <3>5 DEF Typed, TypeOK, call
  <2>3. QED
    BY <2>1, <2>2
<1>4. CASE Collect
  <2>1. /\ inputs' \subseteq DOMAIN window /\ accepted' = [k \in inputs' |-> 0]
        /\ pc = "resolve" /\ pc' = "send"
    BY <1>4 DEF Collect
  <2>2. delivered' \subseteq inputs'
    BY <1>4 DEF Collect, Typed
  <2>3. accepted' \in [inputs' -> Nat]
    BY <2>1
  <2>4. QED
    BY <1>1, <1>4, <2>1, <2>2, <2>3 DEF Collect, Typed, TypeOK, call
<1>5. ASSUME Takes, UNCHANGED inputs
      PROVE  accepted' \in [inputs' -> Nat]
  BY <1>1, <1>5 DEF Takes, TypeOK
<1>6. CASE Send
  <2>1. start' \in Nat
    BY <1>1, <1>6, SizeIsNat DEF Send, NextStart, TypeOK
  <2>2. delivered' \subseteq inputs
    BY <1>1, <1>6 DEF Send, Kept, Chunk, TypeOK
  <2>3. accepted' \in [inputs' -> Nat] /\ pc = "send" /\ pc' \in {"send", "done"}
    BY <1>5, <1>6 DEF Send, HasRequest
  <2>4. QED
    BY <1>1, <1>6, <2>1, <2>2, <2>3 DEF Send, Typed, TypeOK, call
<1>7. CASE SendFails
  <2>1. UNCHANGED <<connector, window, lookups, resolved, inputs, start, retried, delivered, cancelled, cutShort>>
    BY <1>7 DEF SendFails, Return, Reported, call, progress
  <2>2. accepted' \in [inputs' -> Nat]
    BY <1>1, <1>5, <1>7, <2>1 DEF SendFails, TypeOK
  <2>3. faults' \in 0 .. MaxFaults
    BY <1>1, <1>7, ConnectorPushAssumption DEF SendFails, GoesWrong, Fault, TypeOK
  <2>4. pc' = "done" /\ err' = TRUE
    BY <1>7 DEF SendFails, Return
  <2>5. QED
    BY <1>1, <2>1, <2>2, <2>3, <2>4 DEF Typed, TypeOK
<1>8. CASE TooMany
  BY <1>1, <1>8, ConnectorPushAssumption DEF TooMany, HasRequest, Fault, Typed, TypeOK, call, progress
<1>9. CASE Backoff
  <2>1. /\ UNCHANGED <<connector, window, lookups, resolved, inputs, start, delivered, cancelled, cutShort, accepted, faults>>
        /\ pc' \in {"send", "done"} /\ {retried', err'} \subseteq BOOLEAN
    BY <1>1, <1>9 DEF Backoff, Return, Reported, call, progress, TypeOK
  <2>2. QED
    BY <1>1, <2>1 DEF Typed, TypeOK
<1>10. CASE Finish
  <2>1. /\ UNCHANGED <<connector, window, lookups, resolved, inputs, start, retried, delivered, cancelled, cutShort, accepted, faults>>
        /\ pc' = "done" /\ err' = FALSE
    BY <1>10 DEF Finish, Return, Reported, call, progress
  <2>2. QED
    BY <1>1, <2>1 DEF Typed, TypeOK
<1>11. CASE UNCHANGED vars
  BY <1>11 DEF vars, Typed, TypeOK, call, progress
<1>12. QED
  BY <1>2, <1>3, <1>4, <1>6, <1>7, <1>8, <1>9, <1>10, <1>11 DEF Next

(* Every variable keeps its type: what Push reports is among what it had   *)
(* to send, and a bucket is resolved only where the search holds the very  *)
(* identifier (ryot.go:316-334).                                           *)
THEOREM PushTypes == Spec => []TypeOK
<1>1. Typed => TypeOK
  BY DEF Typed
<1>2. QED
  BY <1>1, TypedInit, TypedStep, PTL DEF Spec

-----------------------------------------------------------------------------
(* A cancelled Push never reads as an empty one. *)

(* A context that ended before a lookup keeps the Push among its lookups   *)
(* until it returns the error: past them, none is left.                    *)
CutShortStays ==
    cutShort => cancelled /\ \/ pc = "resolve" /\ lookups # {}
                             \/ pc = "done" /\ err

LookupsFirst ==
    /\ {cutShort, cancelled, err} \subseteq BOOLEAN
    /\ pc \in {"resolve", "send", "backoff", "done"}
    /\ pc \in {"send", "backoff"} => lookups = {}

CancelInv == LookupsFirst /\ CutShortStays

(* A Push whose context ended while buckets were still to be looked up     *)
(* returns an error (ryot.go:325-331), whatever its lookups met before.    *)
THEOREM CancelledIsNotEmpty == Spec => []CancelIsAnError
<1>1. Init => CancelInv
  BY DEF Init, CancelInv, LookupsFirst, CutShortStays
<1>2. CancelInv /\ [Next]_vars => CancelInv'
  <2> SUFFICES ASSUME CancelInv, [Next]_vars
               PROVE  CancelInv'
    OBVIOUS
  <2> USE DEF CancelInv, LookupsFirst, CutShortStays
  <2>1. CASE Cancel
    BY <2>1 DEF Cancel, progress
  <2>2. CASE Lookup
    <3>1. CASE Aborts /\ Return(TRUE)
      <4>1. pc' = "done" /\ err' = TRUE /\ cancelled /\ UNCHANGED <<lookups, cancelled, cutShort>>
        BY <3>1 DEF Aborts, Return, progress
      <4>2. QED
        BY <4>1
    <3>2. CASE ~Aborts
      <4>1. ~cancelled /\ pc = "resolve" /\ UNCHANGED <<pc, err, cancelled, cutShort>>
        BY <2>2, <3>2 DEF Lookup, Aborts
      <4>2. QED
        BY <4>1
    <3>3. QED
      BY <2>2, <3>1, <3>2 DEF Lookup
  <2>3. CASE Collect
    BY <2>3 DEF Collect
  <2>4. CASE Send
    BY <2>4 DEF Send, HasRequest
  <2>5. CASE SendFails
    BY <2>5 DEF SendFails, HasRequest, Return, progress
  <2>6. CASE TooMany
    BY <2>6 DEF TooMany, HasRequest, progress
  <2>7. CASE Backoff
    <3>1. ~cutShort /\ lookups = {}
      BY <2>7 DEF Backoff
    <3>2. UNCHANGED <<lookups, cancelled, cutShort>> /\ pc' \in {"send", "done"} /\ err' \in BOOLEAN
      BY <2>7 DEF Backoff, Return, progress
    <3>3. QED
      BY <3>1, <3>2
  <2>8. CASE Finish
    BY <2>8 DEF Finish, Return, progress
  <2>9. CASE UNCHANGED vars
    BY <2>9 DEF vars, progress
  <2>10. QED
    BY <2>1, <2>2, <2>3, <2>4, <2>5, <2>6, <2>7, <2>8, <2>9 DEF Next
<1>3. CancelInv => CancelIsAnError
  BY DEF CancelInv, CutShortStays, CancelIsAnError
<1>4. QED
  BY <1>1, <1>2, <1>3, PTL DEF Spec

-----------------------------------------------------------------------------
(* What a Push sends. *)

(* Up to the loop everything has been sent, and once; behind it nothing.   *)
(* The one request of Trakt and Simkl is the first.                        *)
Sent ==
    /\ \A k \in inputs : accepted[k] \in {0, 1}
    /\ Active =>
          /\ ~err
          /\ OneRequest => start = 0
          /\ \A k \in inputs : accepted[k] > 0 <=> Rank(k) <= start
    /\ NothingLeft

(* The next request carries what comes right behind the loop. *)
LEMMA ChunkIsNext ==
    ASSUME Typed, Sent, Active
    PROVE  /\ \A k \in inputs : k \in Chunk <=> start < Rank(k) /\ Rank(k) <= NextStart
           /\ \A k \in Chunk : accepted[k] = 0
<1>1. \A k \in inputs : Rank(k) \in Nat
  BY InputsAreNumbered DEF Typed
<1>2. start \in Nat /\ Size \in Nat
  BY SizeIsNat DEF Typed, TypeOK
<1>3. \A k \in inputs : k \in Chunk <=> start < Rank(k) /\ Rank(k) <= NextStart
  BY DEF Chunk, NextStart
<1>4. ASSUME NEW k \in Chunk
      PROVE  accepted[k] = 0
  <2>1. k \in inputs /\ start < Rank(k)
    BY DEF Chunk
  <2>2. ~(accepted[k] > 0)
    BY <1>1, <1>2, <2>1 DEF Sent
  <2>3. QED
    BY <2>1, <2>2 DEF Sent
<1>5. QED
  BY <1>3, <1>4

LEMMA OneRequestTakesAll ==
    ASSUME Typed, Sent, Active, OneRequest
    PROVE  Chunk = inputs
<1>1. start = 0
  BY DEF Sent
<1>2. connector \notin {"ryot", "yamtrack"}
  BY DEF OneRequest
<1>3. Size = Cardinality(inputs)
  BY <1>2 DEF Size
<1>4. \A k \in inputs : Rank(k) \in 1 .. Cardinality(inputs) /\ Cardinality(inputs) \in Nat
  BY InputsAreNumbered DEF Typed
<1>5. QED
  BY <1>1, <1>3, <1>4 DEF Chunk

LEMMA TakesOnce ==
    ASSUME Typed, Sent, Active, Takes, UNCHANGED inputs
    PROVE  /\ \A k \in inputs : accepted'[k] \in {0, 1}
           /\ \A k \in inputs :
                 accepted'[k] > 0 <=> accepted[k] > 0 \/ k \in Chunk \ Missing
BY ChunkIsNext DEF Sent, Takes, Typed, TypeOK

LEMMA SentInit == Init => Sent
BY DEF Init, Sent, Active, NothingLeft

(* A step that neither sends nor moves the loop. *)
LEMMA SentStays ==
    ASSUME Sent, UNCHANGED <<connector, window, inputs, start, accepted, err>>,
           pc' \in {"resolve", "send", "backoff"}, Active
    PROVE  Sent'
BY DEF Sent, Active, OneRequest, Rank, NothingLeft

(* A Push that fails owes nothing. *)
LEMMA SentFails ==
    ASSUME pc' = "done", err' = TRUE, \A k \in inputs' : accepted'[k] \in {0, 1}
    PROVE  Sent'
BY DEF Sent, Active, NothingLeft

LEMMA SentStep == Typed /\ Sent /\ [Next]_vars => Sent'
<1> SUFFICES ASSUME Typed, Sent, [Next]_vars
             PROVE  Sent'
  OBVIOUS
<1>1. CASE Cancel
  <2>1. UNCHANGED <<connector, window, inputs, start, accepted, err, pc>> /\ Active
    BY <1>1 DEF Cancel, Active, Typed, TypeOK, call, progress
  <2>2. QED
    BY <2>1, SentStays DEF Active
<1>2. CASE Lookup
  <2>1. CASE Return(TRUE)
    <3>1. pc' = "done" /\ err' = TRUE /\ inputs' = inputs /\ accepted' = accepted
      BY <1>2, <2>1 DEF Lookup, Return, progress
    <3>2. QED
      BY <3>1, SentFails DEF Sent
  <2>2. CASE ~Return(TRUE)
    <3>1. UNCHANGED <<connector, window, inputs, start, accepted, err, pc>> /\ Active
      BY <1>2, <2>2 DEF Lookup, Active, call
    <3>2. QED
      BY <3>1, SentStays DEF Active
  <2>3. QED
    BY <2>1, <2>2
<1>3. CASE Collect
  <2>1. /\ \A k \in inputs' : accepted'[k] = 0
        /\ UNCHANGED <<connector, start, err>> /\ pc' = "send" /\ Active /\ start = 0
    BY <1>3 DEF Collect, Active, Typed, call
  <2>2. \A k \in inputs' : Rank(k)' \in Nat \ {0}
    <3>1. TypeOK'
      BY TypedStep DEF Typed
    <3>2. (\A k \in inputs : Rank(k) \in 1 .. Cardinality(inputs))'
      BY <3>1, InputsAreNumbered, PTL
    <3>3. QED
      BY <3>2
  <2>3. QED
    BY <2>1, <2>2 DEF Sent, OneRequest, Active, NothingLeft
<1>4. CASE Send
  <2>1. /\ Active /\ Takes /\ start' = NextStart /\ UNCHANGED <<connector, window, inputs, err>>
        /\ pc' = IF OneRequest THEN "done" ELSE "send"
    BY <1>4 DEF Send, HasRequest, Active, call
  <2>2. /\ \A k \in inputs : accepted'[k] \in {0, 1}
        /\ \A k \in inputs :
              accepted'[k] > 0 <=> accepted[k] > 0 \/ k \in Chunk \ Missing
    BY <2>1, TakesOnce
  <2>3. CASE OneRequest
    <3>1. Chunk = inputs
      BY <2>1, <2>3, OneRequestTakesAll
    <3>2. \A k \in inputs : accepted'[k] > 0 \/ window[k] \in Unknown[connector]
      BY <2>2, <3>1 DEF Missing
    <3>3. QED
      BY <2>1, <2>2, <2>3, <3>2 DEF Sent, Active, NothingLeft, OneRequest
  <2>4. CASE ~OneRequest
    <3>1. Missing = {}
      BY <2>4 DEF Missing
    <3>2. \A k \in inputs : Rank(k) \in Nat
      BY InputsAreNumbered DEF Typed
    <3>3. start \in Nat /\ Size \in Nat /\ NextStart = start + Size
      BY SizeIsNat DEF Typed, TypeOK, NextStart
    <3>4. \A k \in inputs : accepted[k] > 0 <=> Rank(k) <= start
      BY <2>1 DEF Sent
    <3>5. \A k \in inputs : k \in Chunk <=> start < Rank(k) /\ Rank(k) <= NextStart
      BY <2>1, ChunkIsNext
    <3>6. \A k \in inputs : accepted'[k] > 0 <=> Rank(k) <= NextStart
      BY <2>2, <3>1, <3>2, <3>3, <3>4, <3>5
    <3>7. \A k \in inputs : Rank(k)' = Rank(k)
      BY <2>1 DEF Rank
    <3>8. QED
      BY <2>1, <2>2, <2>4, <3>6, <3>7 DEF Sent, Active, NothingLeft, OneRequest
  <2>5. QED
    BY <2>3, <2>4
<1>5. CASE SendFails
  <2>1. Active /\ inputs' = inputs /\ pc' = "done" /\ err' = TRUE
    BY <1>5 DEF SendFails, HasRequest, Return, Active, progress
  <2>2. \A k \in inputs : accepted'[k] \in {0, 1}
    BY <1>5, <2>1, TakesOnce DEF SendFails, Sent
  <2>3. QED
    BY <2>1, <2>2, SentFails
<1>6. CASE TooMany
  <2>1. UNCHANGED <<connector, window, inputs, start, accepted, err>> /\ pc' = "backoff" /\ Active
    BY <1>6 DEF TooMany, HasRequest, Active, call, progress
  <2>2. QED
    BY <2>1, SentStays
<1>7. CASE Backoff
  <2>1. CASE Return(TRUE)
    <3>1. pc' = "done" /\ err' = TRUE /\ inputs' = inputs /\ accepted' = accepted
      BY <1>7, <2>1 DEF Backoff, Return, progress
    <3>2. QED
      BY <3>1, SentFails DEF Sent
  <2>2. CASE ~Return(TRUE)
    <3>1. UNCHANGED <<connector, window, inputs, start, accepted, err>> /\ pc' = "send" /\ Active
      BY <1>7, <2>2 DEF Backoff, Active, call
    <3>2. QED
      BY <3>1, SentStays
  <2>3. QED
    BY <2>1, <2>2
<1>8. CASE Finish
  <2>1. /\ UNCHANGED <<connector, window, inputs, start, accepted>> /\ pc' = "done"
        /\ pc = "send" /\ ~OneRequest /\ ~(start < Cardinality(inputs))
    BY <1>8 DEF Finish, HasRequest, Return, call, progress
  <2>2. ASSUME NEW k \in inputs
        PROVE  accepted[k] > 0
    <3>1. Rank(k) \in 1 .. Cardinality(inputs) /\ Cardinality(inputs) \in Nat /\ start \in Nat
      BY InputsAreNumbered DEF Typed, TypeOK
    <3>2. Rank(k) <= start
      BY <2>1, <3>1
    <3>3. QED
      BY <2>1, <3>2 DEF Sent, Active
  <2>3. QED
    BY <2>1, <2>2 DEF Sent, Active, NothingLeft
<1>9. CASE UNCHANGED vars
  BY <1>9 DEF vars, Sent, Active, NothingLeft, OneRequest, Rank, call, progress
<1>10. QED
  BY <1>1, <1>2, <1>3, <1>4, <1>5, <1>6, <1>7, <1>8, <1>9 DEF Next

(* Neither the edge between two chunks nor the repeat after a 429 sends an *)
(* item twice (ryot.go:68-108 and 353, yamtrack.go:69-109).                *)
THEOREM EachSentOnce == Spec => []NoneTwice
<1>1. Sent => NoneTwice
  BY DEF Sent, NoneTwice
<1>2. QED
  BY <1>1, TypedInit, TypedStep, SentInit, SentStep, PTL DEF Spec

(* A Push without an error has sent all it could, whatever the chunks and  *)
(* wherever 429s and failed lookups met it: no chunk is cut short, skipped *)
(* or left over (ryot.go:353-373, yamtrack.go:171-182).                    *)
THEOREM AllIsSent == Spec => []NothingLeft
<1>1. Sent => NothingLeft
  BY DEF Sent
<1>2. QED
  BY <1>1, TypedInit, TypedStep, SentInit, SentStep, PTL DEF Spec

-----------------------------------------------------------------------------
(* What a Push reports. *)

(* What has been taken after a request. *)
LEMMA TakenAfter ==
    ASSUME Typed, Sent, Active, Takes, UNCHANGED inputs
    PROVE  Taken' = Taken \cup (Chunk \ Missing)
<1>1. Chunk \ Missing \subseteq inputs
  BY DEF Chunk
<1>2. QED
  BY <1>1, TakesOnce DEF Taken

(* The positions whose items the service does not know.                    *)
Strange == {k \in inputs : OneRequest /\ window[k] \in Unknown[connector]}

(* Up to its end a Push reports what was taken; a failure adds a doubt to  *)
(* that; a success takes back what is confused with the unknown.           *)
Accounted ==
    /\ Taken \cap Strange = {}
    /\ Active => delivered = Taken
    /\ pc = "done" /\ err => delivered \subseteq Taken /\ Taken \ delivered \subseteq Chunk
    /\ pc = "done" /\ ~err =>
          delivered = {k \in inputs : ~\E m \in Strange : SharesId(window[k], window[m])}

LEMMA AccountedInit == Init => Accounted
<1>1. Init => Taken = {} /\ delivered = {} /\ pc = "resolve"
  BY DEF Init, Taken
<1>2. QED
  BY <1>1 DEF Accounted

(* A step that sends nothing, and does not end the Push in good order. *)
LEMMA AccountStays ==
    ASSUME Accounted, Active,
           UNCHANGED <<connector, window, inputs, accepted, delivered>>,
           pc' \in {"resolve", "send", "backoff"} \/ (pc' = "done" /\ err' = TRUE)
    PROVE  Accounted'
<1>1. Taken' = Taken /\ Strange' = Strange
  BY DEF Taken, Strange, OneRequest
<1>2. QED
  BY <1>1 DEF Accounted, Active

(* Each step keeps the account. *)
LEMMA AccountedStep ==
    ASSUME Typed, Sent, Accounted, [Next]_vars
    PROVE  Accounted'
<1>1. CASE Cancel
  <2>1. UNCHANGED <<connector, window, inputs, accepted, delivered, pc>> /\ Active
    BY <1>1 DEF Cancel, Active, Typed, TypeOK, call, progress
  <2>2. QED
    BY <2>1, AccountStays DEF Active
<1>2. CASE Lookup
  <2>1. /\ UNCHANGED <<connector, window, inputs, accepted, delivered>> /\ Active
        /\ pc' = "resolve" \/ (pc' = "done" /\ err' = TRUE)
    BY <1>2 DEF Lookup, Return, Reported, Active, call, progress
  <2>2. QED
    BY <2>1, AccountStays
<1>3. CASE Collect
  <2>1. Taken' = {} /\ delivered' = {} /\ pc' = "send"
    BY <1>3 DEF Collect, Typed, Taken
  <2>2. QED
    BY <2>1 DEF Accounted
<1>4. CASE Send
  <2>1. /\ Active /\ Takes /\ UNCHANGED <<connector, window, inputs, err>> /\ ~err
        /\ delivered' = delivered \cup Kept
        /\ pc' = IF OneRequest THEN "done" ELSE "send"
    BY <1>4 DEF Send, HasRequest, Active, Sent, call
  <2>2. /\ Taken' = Taken \cup (Chunk \ Missing) /\ Strange' = Strange /\ delivered = Taken
        /\ Missing = Chunk \cap Strange
    BY <2>1, TakenAfter DEF Accounted, Strange, OneRequest, Missing, Chunk
  <2>3. Taken' \cap Strange' = {}
    BY <2>2 DEF Accounted
  <2>4. CASE OneRequest
    <3>1. Chunk = inputs
      BY <2>1, <2>4, OneRequestTakesAll
    <3>2. Taken = {}
      BY <2>1, <3>1, ChunkIsNext DEF Taken
    <3>3. delivered' = {k \in inputs : ~\E m \in Strange : SharesId(window[k], window[m])}
      BY <2>1, <2>2, <2>4, <3>1, <3>2 DEF Kept, Unresolved, Strange
    <3>4. \A i, m : SharesId(i, m)' = SharesId(i, m)
      BY <2>1 DEF SharesId
    <3>5. QED
      BY <2>1, <2>2, <2>3, <2>4, <3>3, <3>4 DEF Accounted, Active
  <2>5. CASE ~OneRequest
    <3>1. Kept = Chunk /\ Missing = {}
      BY <2>5 DEF Kept, Missing
    <3>2. QED
      BY <2>1, <2>2, <2>3, <2>5, <3>1 DEF Accounted, Active
  <2>6. QED
    BY <2>4, <2>5
<1>5. CASE SendFails
  <2>1. /\ Active /\ UNCHANGED <<connector, window, inputs, start, delivered>>
        /\ pc' = "done" /\ err' = TRUE
    BY <1>5 DEF SendFails, HasRequest, Return, Reported, Active, call, progress
  <2>2. Taken \subseteq Taken' /\ Taken' \subseteq Taken \cup (Chunk \ Missing)
    BY <1>5, <2>1, TakenAfter DEF SendFails, Taken
  <2>3. Chunk' = Chunk /\ Strange' = Strange
    BY <2>1 DEF Chunk, Size, Rank, Strange, OneRequest
  <2>4. Missing = Chunk \cap Strange
    BY DEF Missing, Chunk, Strange
  <2>5. QED
    BY <2>1, <2>2, <2>3, <2>4 DEF Accounted, Active
<1>6. CASE TooMany
  <2>1. UNCHANGED <<connector, window, inputs, accepted, delivered>> /\ pc' = "backoff" /\ Active
    BY <1>6 DEF TooMany, HasRequest, Active, call, progress
  <2>2. QED
    BY <2>1, AccountStays
<1>7. CASE Backoff
  <2>1. /\ UNCHANGED <<connector, window, inputs, accepted, delivered>> /\ Active
        /\ pc' = "send" \/ (pc' = "done" /\ err' = TRUE)
    BY <1>7 DEF Backoff, Return, Reported, Active, call, progress
  <2>2. QED
    BY <2>1, AccountStays
<1>8. CASE Finish
  <2>1. /\ UNCHANGED <<connector, window, inputs, accepted, delivered>> /\ Active
        /\ pc' = "done" /\ err' = FALSE /\ ~OneRequest
    BY <1>8 DEF Finish, HasRequest, Return, Reported, Active, call, progress
  <2>2. NothingLeft'
    BY SentStep DEF Sent
  <2>3. Taken' = Taken /\ Strange' = {} /\ Taken = inputs
    BY <2>1, <2>2 DEF Taken, Strange, OneRequest, NothingLeft
  <2>4. QED
    BY <2>1, <2>3 DEF Accounted, Active
<1>9. CASE UNCHANGED vars
  BY <1>9 DEF vars, Accounted, Active, Taken, Strange, OneRequest, SharesId, Chunk, Size, Rank,
              call, progress
<1>10. QED
  BY <1>1, <1>2, <1>3, <1>4, <1>5, <1>6, <1>7, <1>8, <1>9 DEF Next

(* Without an error, all that is known to the service was taken.           *)
LEMMA TakenOrStrange ==
    ASSUME Sent, Accounted, pc = "done", ~err
    PROVE  inputs \ Taken = Strange
BY DEF Sent, NothingLeft, Accounted, Taken, Strange

(* An error leaves only the last request in doubt: Push reports every item *)
(* of the chunks before it (ryot.go:300 and 356-361).  A Push without      *)
(* error reports all that was taken, but for what shares an identifier of  *)
(* its category with what was not (simkl/client.go:474-494).               *)
THEOREM EarlierChunksAreReported == Spec => []LastRequestInDoubt
<1>1. Typed /\ Sent /\ Accounted /\ [Next]_vars => Accounted'
  BY AccountedStep
<1>2. Sent /\ Accounted => LastRequestInDoubt
  <2>1. Taken \subseteq inputs
    BY DEF Taken
  <2>2. QED
    BY <2>1, TakenOrStrange DEF Accounted, LastRequestInDoubt
<1>3. QED
  BY <1>1, <1>2, AccountedInit, TypedInit, TypedStep, SentInit, SentStep, PTL DEF Spec

(* What a Push reports, failed or not, has reached the service, so that    *)
(* nothing else is marked as seen: with the one exception of what the      *)
(* service does not know and was sent without an identifier                *)
(* (trakt/client.go:311-356).                                              *)
THEOREM OnlyTheTakenIsReported == Spec => []ReportedWasTaken
<1>1. Typed /\ Sent /\ Accounted /\ [Next]_vars => Accounted'
  BY AccountedStep
<1>2. ASSUME Typed, Sent, Accounted, pc = "done", NEW k \in delivered \ Taken
      PROVE  OneRequest /\ Ids[connector][window[k]] = {}
  <2>1. ~err
    BY <1>2 DEF Accounted
  <2>2. k \in inputs /\ k \in Strange
    BY <1>2, <2>1, TakenOrStrange DEF Typed, TypeOK
  <2>3. ~SharesId(window[k], window[k])
    BY <1>2, <2>1, <2>2 DEF Accounted
  <2>4. QED
    BY <2>2, <2>3 DEF SharesId, Strange
<1>3. Typed /\ Sent /\ Accounted => ReportedWasTaken
  BY <1>2 DEF ReportedWasTaken
<1>4. QED
  BY <1>1, <1>3, AccountedInit, TypedInit, TypedStep, SentInit, SentStep, PTL DEF Spec

(* No item that a service can resolve shares an identifier with one of its *)
(* category that it cannot: what Push takes the answer's lists to mean.    *)
NotConfused ==
    \A c \in Connectors \cap {"trakt", "simkl"} :
       \A i \in Items \ Unknown[c] : \A m \in Unknown[c] :
          Category[i] = Category[m] => Ids[c][i] \cap Ids[c][m] = {}

(* What a service cannot resolve was sent with an identifier for the       *)
(* answer to echo.                                                         *)
Identified ==
    \A c \in Connectors \cap {"trakt", "simkl"} : \A m \in Unknown[c] : Ids[c][m] # {}

(* Under these two assumptions a Push without an error returns the items   *)
(* the service took, "the items actually delivered" (trakt/client.go:268-  *)
(* 273, simkl/client.go:412-416).  Without either it does not.             *)
THEOREM ReturnsWhatWasTaken ==
    ASSUME NotConfused, Identified
    PROVE  Spec => []ReturnsDelivered
<1>1. Typed /\ Sent /\ Accounted /\ [Next]_vars => Accounted'
  BY AccountedStep
<1>2. ASSUME Typed, Sent, Accounted, pc = "done", ~err
      PROVE  delivered = Taken
  <2>1. inputs \ Taken = Strange /\ Taken \subseteq inputs
    BY <1>2, TakenOrStrange DEF Taken
  <2>2. window \in Seq(Items) /\ inputs \subseteq DOMAIN window /\ connector \in Connectors
    BY <1>2, ConnectorPushAssumption DEF Typed, TypeOK
  <2>3. \A k \in inputs : window[k] \in Items
    BY <2>2
  <2>4. ASSUME NEW k \in Taken, NEW m \in Strange
        PROVE  ~SharesId(window[k], window[m])
    <3>1. k \in inputs /\ k \notin Strange /\ m \in inputs
      BY <2>1, <2>4 DEF Strange
    <3>2. /\ OneRequest /\ window[m] \in Unknown[connector]
          /\ window[k] \in Items \ Unknown[connector]
      BY <2>3, <3>1 DEF Strange
    <3>3. connector \in Connectors \cap {"trakt", "simkl"}
      BY <2>2, <3>2 DEF OneRequest
    <3>4. QED
      BY <3>2, <3>3 DEF NotConfused, SharesId
  <2>5. ASSUME NEW k \in Strange
        PROVE  SharesId(window[k], window[k])
    <3>1. OneRequest /\ window[k] \in Unknown[connector]
      BY DEF Strange
    <3>2. connector \in Connectors \cap {"trakt", "simkl"}
      BY <2>2, <3>1 DEF OneRequest
    <3>3. Ids[connector][window[k]] # {}
      BY <3>1, <3>2 DEF Identified
    <3>4. QED
      BY <3>3 DEF SharesId
  <2>6. QED
    BY <1>2, <2>1, <2>4, <2>5 DEF Accounted
<1>3. Typed /\ Sent /\ Accounted => ReturnsDelivered
  BY <1>2 DEF ReturnsDelivered
<1>4. QED
  BY <1>1, <1>3, AccountedInit, TypedInit, TypedStep, SentInit, SentStep, PTL DEF Spec

-----------------------------------------------------------------------------
(* A Push keeps the contract that the engine relies on. *)

LEMMA Least ==
    ASSUME NEW n \in Nat, NEW T \in SUBSET (1 .. n), T # {}
    PROVE  \E x \in T : \A y \in T : x <= y
<1> DEFINE S == 1 .. n
           R == StrictSubsetOrdering(S)
           U == {1 .. x : x \in T}
<1>1. U \subseteq SUBSET S /\ U # {}
  <2>1. \A x \in T : 1 .. x \subseteq 1 .. n
    BY Z3
  <2>2. \A u \in U : u \subseteq S
    BY <2>1
  <2>3. QED
    BY <2>2
<1>2. IsFiniteSet(S)
  BY FS_Interval
<1>3. \A x \in T : x \in 1 .. n
  OBVIOUS
<1>4. \A x \in 1 .. n : 1 .. x \subseteq S
  BY Z3
<1> HIDE DEF S
<1>5. IsWellFoundedOn(R, SUBSET S)
  BY <1>2, FS_StrictSubsetOrderingWellFounded, FS_FiniteSubsetsOfFinite
<1> HIDE DEF R, U
<1>6. PICK u \in U : \A v \in U : <<v, u>> \notin R
  BY <1>1, <1>5, WFMin
<1>7. PICK x \in T : u = 1 .. x
  BY <1>6 DEF U
<1>8. ASSUME NEW y \in T, y < x
      PROVE  FALSE
  <2>1. x \in 1 .. n /\ y \in 1 .. n /\ x \in Nat /\ y \in Nat
    BY <1>3
  <2>2. x \in 1 .. x /\ x \notin 1 .. y /\ 1 .. y \subseteq 1 .. x
    BY <1>8, <2>1
  <2>3. <<1 .. y, 1 .. x>> \in R
    BY <1>4, <2>1, <2>2 DEF R, StrictSubsetOrdering
  <2>4. 1 .. y \in U
    BY DEF U
  <2>5. QED
    BY <1>6, <1>7, <2>3, <2>4
<1>9. ASSUME NEW y \in T
      PROVE  x <= y
  <2>1. x \in Int /\ y \in Int
    BY <1>3
  <2>2. QED
    BY <1>8, <2>1
<1>10. QED
  BY <1>9

(* Each bucket is looked up where the window first meets it. *)
LEMMA FirstsMeetAll ==
    ASSUME NEW w \in Seq(Items), NEW k \in DOMAIN w, w[k] \in HasPayload["ryot"]
    PROVE  \E n \in Firsts(w) : Bucket[w[n]] = Bucket[w[k]]
<1> DEFINE T == {n \in DOMAIN w : w[n] \in HasPayload["ryot"] /\ Bucket[w[n]] = Bucket[w[k]]}
<1>1. T \in SUBSET (1 .. Len(w)) /\ Len(w) \in Nat /\ k \in T
  OBVIOUS
<1>2. PICK n \in T : \A m \in T : n <= m
  BY <1>1, Least
<1>3. n \in DOMAIN w /\ w[n] \in HasPayload["ryot"] /\ Bucket[w[n]] = Bucket[w[k]]
  OBVIOUS
<1>4. ASSUME NEW m \in 1 .. n - 1, w[m] \in HasPayload["ryot"]
      PROVE  Bucket[w[m]] # Bucket[w[n]]
  <2>1. m \in DOMAIN w /\ ~(n <= m)
    BY <1>1, <1>3
  <2>2. QED
    BY <1>2, <1>3, <1>4, <2>1
<1> HIDE DEF T
<1>5. n \in Firsts(w)
  BY <1>3, <1>4 DEF Firsts
<1>6. QED
  BY <1>3, <1>5

(* What is sent has a payload and, with Ryot, a bucket that was found. *)
Sendable == \A k \in inputs : window[k] \in Welcome \cup Foreign

Failing == faults > 0 \/ cancelled

(* As long as nothing fails, every bucket that can be found is found or    *)
(* still looked for, all the service knows is sent, and no error returned. *)
Unhindered ==
    Failing
    \/ /\ pc = "resolve" /\ connector = "ryot" =>
             \A k \in DOMAIN window :
                window[k] \in HasPayload["ryot"] /\ Bucket[window[k]] \in Listed =>
                   \/ Bucket[window[k]] \in resolved
                   \/ \E n \in lookups : Bucket[window[n]] = Bucket[window[k]]
       /\ pc # "resolve" =>
             \A k \in DOMAIN window : window[k] \in Welcome \cup Foreign => k \in inputs
       /\ pc = "done" => ~err

LEMMA CallStays ==
    ASSUME [Next]_vars
    PROVE  /\ connector' = connector /\ window' = window
           /\ Collect \/ inputs' = inputs
<1>1. CASE Cancel
  BY <1>1 DEF Cancel, call, progress
<1>2. CASE Lookup
  BY <1>2 DEF Lookup, Return, call, progress
<1>3. CASE Collect
  BY <1>3 DEF Collect, call
<1>4. CASE Send \/ SendFails
  BY <1>4 DEF Send, SendFails, Return, call, progress
<1>5. CASE TooMany \/ Backoff \/ Finish
  BY <1>5 DEF TooMany, Backoff, Finish, Return, call, progress
<1>6. CASE UNCHANGED vars
  BY <1>6 DEF vars, call, progress
<1>7. QED
  BY <1>1, <1>2, <1>3, <1>4, <1>5, <1>6 DEF Next

LEMMA WelcomeStays ==
    ASSUME UNCHANGED <<connector, window>>
    PROVE  UNCHANGED <<Offered, Foreign, Welcome>> /\ \A i, m : SharesId(i, m)' = SharesId(i, m)
BY DEF Offered, Foreign, Welcome, OneRequest, SharesId

LEMMA FailureStays ==
    ASSUME Typed, Failing, [Next]_vars
    PROVE  Failing'
<1>1. faults \in Nat
  BY ConnectorPushAssumption DEF Typed, TypeOK
<1>2. faults' = faults \/ faults' = faults + 1
  BY DEF Next, Cancel, Lookup, Collect, Send, SendFails, TooMany, Backoff, Finish, GoesWrong,
         Fault, vars
<1>3. cancelled => cancelled'
  BY DEF Next, Cancel, Lookup, Collect, Send, SendFails, TooMany, Backoff, Finish, Return, vars
<1>4. QED
  BY <1>1, <1>2, <1>3 DEF Failing

LEMMA SendableInit == Init => Sendable
BY DEF Init, Sendable

LEMMA SendableStep == Typed /\ Sendable /\ [Next]_vars => Sendable'
<1> SUFFICES ASSUME Typed, Sendable, [Next]_vars
             PROVE  Sendable'
  OBVIOUS
<1>1. connector' = connector /\ window' = window /\ UNCHANGED <<Offered, Foreign, Welcome>>
  BY CallStays, WelcomeStays
<1>2. CASE Collect
  <2>1. ASSUME NEW k \in inputs'
        PROVE  window[k] \in Welcome \cup Foreign
    <3>1. /\ k \in DOMAIN window /\ window[k] \in HasPayload[connector]
          /\ connector = "ryot" => Bucket[window[k]] \in Listed
      BY <1>2, <2>1 DEF Collect, Pushable, Typed, TypeOK
    <3>2. window[k] \in Offered
      BY <3>1 DEF Offered
    <3>3. QED
      BY <3>1, <3>2 DEF Welcome
  <2>2. QED
    BY <1>1, <2>1 DEF Sendable
<1>3. CASE ~Collect
  BY <1>1, <1>3, CallStays DEF Sendable
<1>4. QED
  BY <1>2, <1>3

LEMMA UnhinderedInit == Init => Unhindered
<1> SUFFICES ASSUME Init
             PROVE  Unhindered
  OBVIOUS
<1>1. pc = "resolve" /\ window \in Seq(Items)
  BY ConnectorPushAssumption DEF Init
<1>2. connector = "ryot" => lookups = Firsts(window)
  BY DEF Init
<1>3. QED
  BY <1>1, <1>2, FirstsMeetAll DEF Unhindered

LEMMA UnhinderedStep ==
    Typed /\ Sent /\ Unhindered /\ [Next]_vars => Unhindered'
<1> SUFFICES ASSUME Typed, Sent, Unhindered, [Next]_vars, ~Failing'
             PROVE  Unhindered'
  BY DEF Unhindered
<1>1. ~Failing /\ ~cancelled /\ ~cancelled' /\ faults' = faults
  <2>1. faults \in 0 .. MaxFaults /\ faults' \in 0 .. MaxFaults
    BY TypedStep DEF Typed, TypeOK
  <2>2. ~Failing
    BY FailureStays
  <2>3. QED
    BY <2>1, <2>2, ConnectorPushAssumption DEF Failing
<1>2. ~GoesWrong
  BY <1>1, ConnectorPushAssumption DEF GoesWrong, Fault, Typed, TypeOK
<1>3. connector' = connector /\ window' = window /\ UNCHANGED <<Offered, Foreign, Welcome>>
  BY CallStays, WelcomeStays
<1>4. CASE Cancel
  BY <1>1, <1>4 DEF Cancel
<1>5. CASE Lookup
  <2>1. PICK n \in lookups :
           /\ lookups' = lookups \ {n}
           /\ resolved' = resolved \cup Matches(Bucket[window[n]])
           /\ UNCHANGED <<pc, inputs, err>>
    BY <1>1, <1>2, <1>5 DEF Lookup, Aborts
  <2>2. \A k : Bucket[window[k]] = Bucket[window[n]] /\ Bucket[window[k]] \in Listed =>
                  Bucket[window[k]] \in resolved'
    BY <2>1 DEF Matches
  <2>3. pc = "resolve" /\ pc' = "resolve"
    BY <1>5, <2>1 DEF Lookup
  <2>4. QED
    BY <1>1, <1>3, <2>1, <2>2, <2>3 DEF Unhindered
<1>6. CASE Collect
  <2>1. /\ pc = "resolve" /\ pc' = "send" /\ lookups = {}
        /\ inputs' = {k \in DOMAIN window : Pushable(window[k])}
    BY <1>6 DEF Collect
  <2>2. ASSUME NEW k \in DOMAIN window, window[k] \in Welcome \cup Foreign
        PROVE  k \in inputs'
    <3>1. /\ window[k] \in HasPayload[connector]
          /\ connector = "ryot" => Bucket[window[k]] \in Listed
      BY <2>2 DEF Welcome, Foreign, Offered, OneRequest
    <3>2. connector = "ryot" => Bucket[window[k]] \in resolved
      BY <1>1, <2>1, <3>1 DEF Unhindered
    <3>3. QED
      BY <2>1, <3>1, <3>2 DEF Pushable
  <2>3. QED
    BY <1>3, <2>1, <2>2 DEF Unhindered
<1>7. CASE Send
  <2>1. inputs' = inputs /\ err' = err /\ pc = "send" /\ pc' \in {"send", "done"} /\ ~err
    BY <1>7 DEF Send, HasRequest, Sent, Active
  <2>2. QED
    BY <1>1, <1>3, <2>1 DEF Unhindered
<1>8. CASE SendFails \/ TooMany
  BY <1>1, <1>2, <1>8 DEF SendFails, TooMany, GoesWrong
<1>9. CASE Backoff
  <2>1. inputs' = inputs /\ pc = "backoff" /\ pc' = "send"
    BY <1>1, <1>9 DEF Backoff
  <2>2. QED
    BY <1>1, <1>3, <2>1 DEF Unhindered
<1>10. CASE Finish
  <2>1. inputs' = inputs /\ pc = "send" /\ pc' = "done" /\ err' = FALSE
    BY <1>10 DEF Finish, Return, progress
  <2>2. QED
    BY <1>1, <1>3, <2>1 DEF Unhindered
<1>11. CASE UNCHANGED vars
  BY <1>1, <1>3, <1>11 DEF vars, Unhindered, progress
<1>12. QED
  BY <1>4, <1>5, <1>6, <1>7, <1>8, <1>9, <1>10, <1>11 DEF Next

(* Nothing is taken back. *)
LEMMA TakenGrows ==
    ASSUME Typed, Sent, [Next]_vars
    PROVE  Taken \subseteq Taken'
<1>1. CASE Collect
  BY <1>1 DEF Collect, Typed, Taken
<1>2. CASE Send
  <2>1. Active /\ Takes /\ inputs' = inputs
    BY <1>2 DEF Send, HasRequest, Active
  <2>2. QED
    BY <2>1, TakenAfter
<1>3. CASE SendFails
  <2>1. Active /\ inputs' = inputs
    BY <1>3 DEF SendFails, HasRequest, Return, Active, progress
  <2>2. QED
    BY <1>3, <2>1, TakenAfter DEF SendFails, Taken
<1>4. CASE Cancel \/ Lookup \/ TooMany \/ Backoff \/ Finish \/ UNCHANGED vars
  <2>1. UNCHANGED <<inputs, accepted>>
    BY <1>4 DEF Cancel, Lookup, TooMany, Backoff, Finish, vars, Return, progress
  <2>2. QED
    BY <2>1 DEF Taken
<1>5. QED
  BY <1>1, <1>2, <1>3, <1>4 DEF Next

(* A Push that has returned does nothing more. *)
LEMMA DoneIsDone ==
    ASSUME pc = "done", [Next]_vars
    PROVE  UNCHANGED vars
BY DEF Next, Cancel, Lookup, Collect, Send, SendFails, TooMany, Backoff, Finish, HasRequest

LEMMA ContractInit == Init => Contract!Init
<1> SUFFICES ASSUME Init
             PROVE  Contract!Init
  OBVIOUS
<1>1. Taken = {} /\ pc # "done" /\ faults = 0 /\ cancelled = FALSE
  BY DEF Init, Taken
<1>2. QED
  BY <1>1 DEF Contract!Init

Withheld == {i \in Welcome : \E m \in Foreign : SharesId(i, m)}

Unnamed == {m \in Foreign : Ids[connector][m] = {}}

Results == {window[k] : k \in delivered}

Arrivals == {window[k] : k \in Taken}

(* What is known of a Push between any two of its steps.                   *)
PushInv == Typed /\ Sent /\ Accounted /\ Sendable /\ Unhindered

(* What arrives was welcome, and what is reported arrived or is unnamed.   *)
LEMMA ResultsAreSound ==
    ASSUME PushInv
    PROVE  /\ Arrivals \subseteq Welcome
           /\ pc = "done" => Results \subseteq Arrivals \cup Unnamed
<1> USE DEF PushInv
<1>1. Taken \subseteq inputs
  BY DEF Taken
<1>2. ASSUME NEW k \in inputs
      PROVE  window[k] \in Foreign <=> k \in Strange
  BY DEF Sendable, Foreign, Welcome, Strange
<1>3. Arrivals \subseteq Welcome
  BY <1>1, <1>2 DEF Sendable, Accounted, Arrivals
<1>4. ASSUME pc = "done", NEW k \in delivered \ Taken
      PROVE  window[k] \in Unnamed
  <2>1. ~err
    BY <1>4 DEF Accounted
  <2>2. k \in inputs /\ k \in Strange
    BY <1>4, <2>1, TakenOrStrange DEF Typed, TypeOK
  <2>3. ~SharesId(window[k], window[k])
    BY <1>4, <2>1, <2>2 DEF Accounted
  <2>4. QED
    BY <1>2, <2>2, <2>3 DEF Unnamed, SharesId
<1>5. QED
  BY <1>3, <1>4 DEF Results, Arrivals

(* In good order, all that is welcome arrives, and is reported but for     *)
(* what is confused with the unknown.                                      *)
LEMMA ResultsAreComplete ==
    ASSUME PushInv
    PROVE  ~Failing /\ pc = "done" =>
              Arrivals = Welcome /\ Results = (Welcome \ Withheld) \cup Unnamed
<1> SUFFICES ASSUME ~Failing, pc = "done"
             PROVE  Arrivals = Welcome /\ Results = (Welcome \ Withheld) \cup Unnamed
  OBVIOUS
<1> USE DEF PushInv
<1>1. ~err /\ \A k \in DOMAIN window : window[k] \in Welcome \cup Foreign => k \in inputs
  BY DEF Unhindered
<1>2. inputs \ Taken = Strange /\ Taken \subseteq inputs /\ inputs \subseteq DOMAIN window
  BY <1>1, TakenOrStrange DEF Taken, Typed, TypeOK
<1>3. \A i \in Welcome \cup Foreign : \E k \in inputs : i = window[k]
  BY <1>1 DEF Welcome, Foreign, Offered
<1>4. \A k \in inputs : window[k] \in Foreign <=> k \in Strange
  BY DEF Sendable, Foreign, Welcome, Strange
<1>5. Welcome \cap Foreign = {}
  BY DEF Welcome
<1>6. Arrivals = Welcome
  <2>1. Arrivals \subseteq Welcome
    BY ResultsAreSound
  <2>2. ASSUME NEW i \in Welcome
        PROVE  i \in Arrivals
    <3>1. PICK k \in inputs : i = window[k]
      BY <1>3
    <3>2. k \in Taken
      BY <1>2, <1>4, <1>5, <3>1
    <3>3. QED
      BY <3>1, <3>2 DEF Arrivals
  <2>3. QED
    BY <2>1, <2>2
<1>7. \A k \in inputs : k \in delivered <=> ~\E m \in Foreign : SharesId(window[k], m)
  <2>1. delivered = {k \in inputs : ~\E m \in Strange : SharesId(window[k], window[m])}
    BY <1>1 DEF Accounted
  <2>2. \A m \in Foreign : \E n \in Strange : m = window[n]
    BY <1>3, <1>4
  <2>3. \A n \in Strange : n \in inputs /\ window[n] \in Foreign
    BY <1>4 DEF Strange
  <2>4. QED
    BY <2>1, <2>2, <2>3
<1>8. \A m \in Foreign : (\E n \in Foreign : SharesId(m, n)) <=> m \notin Unnamed
  BY DEF SharesId, Unnamed
<1>9. Results = (Welcome \ Withheld) \cup Unnamed
  <2>1. ASSUME NEW k \in delivered
        PROVE  window[k] \in (Welcome \ Withheld) \cup Unnamed
    <3>1. k \in inputs /\ ~\E m \in Foreign : SharesId(window[k], m)
      BY <1>7 DEF Typed, TypeOK
    <3>2. QED
      BY <1>8, <3>1 DEF Sendable, Withheld
  <2>2. ASSUME NEW i \in (Welcome \ Withheld) \cup Unnamed
        PROVE  i \in Results
    <3>1. i \in Welcome \cup Foreign /\ ~\E m \in Foreign : SharesId(i, m)
      BY <1>8 DEF Withheld, Unnamed
    <3>2. PICK k \in inputs : i = window[k]
      BY <1>3, <3>1
    <3>3. QED
      BY <1>7, <3>1, <3>2 DEF Results
  <2>3. QED
    BY <2>1, <2>2 DEF Results
<1>10. QED
  BY <1>6, <1>9

LEMMA PushInvInit == Init => PushInv
BY TypedInit, SentInit, AccountedInit, SendableInit, UnhinderedInit DEF PushInv

LEMMA PushInvStep == PushInv /\ [Next]_vars => PushInv'
BY TypedStep, SentStep, AccountedStep, SendableStep, UnhinderedStep DEF PushInv

ContractVars ==
    <<Welcome, Withheld, Unnamed, Failing, Arrivals, IF pc = "done" THEN Results ELSE Pending>>

LEMMA ContractStep ==
    ASSUME PushInv, PushInv', [Next]_vars
    PROVE  Contract!Next \/ UNCHANGED ContractVars
<1>1. connector' = connector /\ window' = window
  BY CallStays
<1>2. /\ UNCHANGED <<Foreign, Welcome, Withheld, Unnamed>>
  BY <1>1, WelcomeStays DEF Withheld, Unnamed
<1>3. CASE pc = "done"
  <2>1. UNCHANGED vars
    BY <1>3, DoneIsDone
  <2>2. UNCHANGED <<Failing, Arrivals, Results, pc>>
    BY <2>1 DEF vars, call, progress, Failing, Arrivals, Taken, Results
  <2>3. QED
    BY <1>2, <2>2 DEF ContractVars
<1>4. CASE pc # "done"
  <2>1. Arrivals \subseteq Arrivals'
    BY <1>1, TakenGrows DEF Arrivals, PushInv
  <2>2. (/\ Arrivals \subseteq Welcome
         /\ pc = "done" => Results \subseteq Arrivals \cup Unnamed)'
    BY ResultsAreSound, PTL
  <2>3. (~Failing /\ pc = "done" =>
            Arrivals = Welcome /\ Results = (Welcome \ Withheld) \cup Unnamed)'
    BY ResultsAreComplete, PTL
  <2>4. Failing => Failing'
    BY FailureStays DEF PushInv
  <2>5. QED
    BY <1>2, <1>4, <2>1, <2>2, <2>3, <2>4
       DEF Contract!Next, Withheld, Unnamed, Failing, Arrivals, Results
<1>5. QED
  BY <1>3, <1>4

(* For any connector, window and failures, a Push keeps the contract that  *)
(* Engine's one-step Push stands for.  In good order the service receives  *)
(* all it takes, and the report holds it, but for what is confused with    *)
(* the unknown; after a failure the service has received some of it, and   *)
(* what is reported, with or without an error, has been received.          *)
THEOREM ImplementsContract == Spec => KeepsContract
<1>1. PushInv /\ PushInv' /\ [Next]_vars => [Contract!Next]_(Contract!vars)
  BY ContractStep DEF Contract!vars, ContractVars, Withheld, Unnamed, Failing, Arrivals, Results
<1>2. QED
  BY <1>1, ContractInit, PushInvInit, PushInvStep, PTL DEF Spec, KeepsContract, Contract!Spec
=============================================================================
