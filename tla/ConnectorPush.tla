--------------------------- MODULE ConnectorPush ---------------------------
(***************************************************************************)
(* Push of the four connectors.  Ryot resolves each (lot, tmdb) bucket to  *)
(* an internal id and deploys the progress updates in chunks               *)
(* (internal/ryot/ryot.go); Yamtrack posts one webhook per item            *)
(* (internal/yamtrack/yamtrack.go), the same loop with chunks of one and   *)
(* no lookups.  Trakt and Simkl (client.go of each) post the whole window  *)
(* at once and subtract what the answer lists under not_found.  A request  *)
(* answered with 429 is repeated once after a wait; any other failure ends *)
(* the Push with what was delivered so far.                                *)
(***************************************************************************)
EXTENDS Integers, Sequences, FiniteSets

CONSTANTS
    Items,
    Connectors,     \* "ryot", "yamtrack", "trakt", "simkl"
    Windows,        \* the sequences of items Push may be called with
    HasPayload,     \* the items each connector has a payload for
    Bucket,         \* the (lot, tmdb) bucket of each item
    Listed,         \* buckets whose search finds the identifier
    Category,       \* the not_found list an item can appear in
    Ids,            \* the identifiers each connector sends with an item
    Unknown,        \* the items each service cannot resolve and says so
    PushChunk,      \* pushChunk
    MaxFaults,      \* bound: requests that go wrong in one Push
    Pending         \* no report yet

ASSUME ConnectorPushAssumption ==
    /\ Connectors \subseteq {"ryot", "yamtrack", "trakt", "simkl"}
    /\ Windows \subseteq Seq(Items)
    /\ \A c \in Connectors : HasPayload[c] \cup Unknown[c] \subseteq Items
    /\ PushChunk \in Nat \ {0} /\ MaxFaults \in Nat

VARIABLES
    connector, window,
    pc,
    lookups,        \* where in the window the buckets still to resolve are first met
    resolved,
    inputs,         \* the positions of the window to send, in its order
    start,          \* how many of them are behind the loop
    retried,        \* the current request is the repeated one
    accepted,       \* how often the service took each of them
    delivered,      \* those of them that Push reports
    err,
    cancelled, cutShort,    \* the context ended, and did so before a lookup
    faults

call == <<connector, window>>
progress == <<lookups, resolved, inputs, start, retried>>
vars == <<call, pc, progress, accepted, delivered, err, cancelled, cutShort, faults>>

(* Where the items that can be pushed meet a bucket for the first time. *)
Firsts(w) ==
    {n \in DOMAIN w :
        /\ w[n] \in HasPayload["ryot"]
        /\ \A m \in 1 .. n - 1 : w[m] \in HasPayload["ryot"] => Bucket[w[m]] # Bucket[w[n]]}

Init ==
    /\ connector \in Connectors /\ window \in Windows
    /\ pc = "resolve"
    /\ lookups = IF connector = "ryot" THEN Firsts(window) ELSE {}
    /\ resolved = {} /\ inputs = {} /\ start = 0 /\ retried = FALSE
    /\ accepted = [k \in {} |-> 0] /\ delivered = {} /\ err = FALSE
    /\ cancelled = FALSE /\ cutShort = FALSE /\ faults = 0

Fault == faults < MaxFaults /\ faults' = faults + 1

(* A request fails by a fault, or because its context has ended. *)
GoesWrong ==
    \/ Fault
    \/ cancelled /\ UNCHANGED faults

(* Mutant of Reported: an error hides what was delivered before it. *)
Reported_NothingOnError(e) == IF e THEN {} ELSE delivered

(* Mutant of Reported: every item of the window counts as delivered. *)
Reported_All(e) == inputs

(* What Push hands back, error or not. *)
Reported(e) == delivered

Return(e) ==
    /\ pc' = "done" /\ err' = e
    /\ delivered' = Reported(e)
    /\ UNCHANGED <<call, progress, cancelled, cutShort>>

(* The context of the sync ends. *)
Cancel ==
    /\ pc # "done" /\ ~cancelled
    /\ cancelled' = TRUE
    /\ cutShort' = (lookups # {})
    /\ UNCHANGED <<call, pc, progress, accepted, delivered, err, faults>>

-----------------------------------------------------------------------------
(* Mutant of Aborts: a lookup that the context cut short is a miss. *)
Aborts_Never == FALSE

(* A cancelled context is no lookup failure, it ends the Push. *)
Aborts == cancelled

(* Mutant of Matches: the first candidate will do. *)
Matches_Any(b) == {b}

(* A candidate counts only with the very identifier looked for. *)
Matches(b) == {b} \cap Listed

(* resolve: a search, then the details of its candidates in turn; a search *)
(* without a match and a failing request both skip the bucket.             *)
Lookup ==
    /\ pc = "resolve" /\ lookups # {}
    /\ \/ Aborts /\ Return(TRUE) /\ UNCHANGED faults
       \/ \E n \in lookups :
             /\ ~Aborts /\ \A m \in lookups : n <= m
             /\ lookups' = lookups \ {n}
             /\ \/ /\ ~cancelled /\ UNCHANGED faults
                   /\ resolved' = resolved \cup Matches(Bucket[window[n]])
                \/ GoesWrong /\ UNCHANGED resolved
             /\ UNCHANGED <<call, pc, inputs, start, retried, delivered, err,
                            cancelled, cutShort>>
    /\ UNCHANGED accepted

(* Items without a payload, or whose bucket is not resolved, are skipped. *)
Pushable(i) ==
    /\ i \in HasPayload[connector]
    /\ connector = "ryot" => Bucket[i] \in resolved

Collect ==
    /\ pc = "resolve" /\ lookups = {}
    /\ inputs' = {k \in DOMAIN window : Pushable(window[k])}
    /\ accepted' = [k \in inputs' |-> 0]
    /\ pc' = "send"
    /\ UNCHANGED <<call, lookups, resolved, start, retried, delivered, err,
                   cancelled, cutShort, faults>>

(* Trakt and Simkl send one request, whatever the window holds. *)
OneRequest == connector \in {"trakt", "simkl"}

Size == CASE connector = "ryot" -> PushChunk
          [] connector = "yamtrack" -> 1
          [] OTHER -> Cardinality(inputs)

(* How many inputs there are up to a position of the window. *)
Rank(k) == Cardinality({j \in inputs : j <= k})

(* The inputs the next request carries. *)
Chunk == {k \in inputs : start < Rank(k) /\ Rank(k) <= start + Size}

(* The positions the service cannot resolve: Ryot and Yamtrack name none. *)
Missing == {k \in Chunk : OneRequest /\ window[k] \in Unknown[connector]}

(* The service takes a request's items. *)
Takes ==
    accepted' = [k \in inputs |->
                    IF k \in Chunk \ Missing THEN accepted[k] + 1 ELSE accepted[k]]

(* Mutant of Unresolved: not_found is not looked at. *)
Unresolved_Never(k) == FALSE

(* Mutant of Unresolved: the lists of not_found are not told apart. *)
Unresolved_AnyCategory(k) ==
    \E m \in Missing : Ids[connector][window[k]] \cap Ids[connector][window[m]] # {}

SharesId(i, m) ==
    Category[i] = Category[m] /\ Ids[connector][i] \cap Ids[connector][m] # {}

(* The answer's not_found echoes the identifiers of what is missing: an    *)
(* item is unresolved if an entry of its own category shares one of them.  *)
Unresolved(k) == \E m \in Missing : SharesId(window[k], window[m])

(* What a good answer lets Push count as delivered. *)
Kept == IF OneRequest THEN {k \in Chunk : ~Unresolved(k)} ELSE Chunk

(* Mutant of NextStart: the chunks overlap. *)
NextStart_Overlap == IF Size > 1 THEN start + Size - 1 ELSE start + Size

NextStart == start + Size

(* Mutant of HasRequest: only whole chunks are sent. *)
HasRequest_WholeChunks ==
    pc = "send" /\ (OneRequest \/ start + Size <= Cardinality(inputs))

(* There is a request to send: a next chunk, or the only one, which is     *)
(* sent without items too.                                                 *)
HasRequest == pc = "send" /\ (OneRequest \/ start < Cardinality(inputs))

(* The service takes the request, and says so. *)
Send ==
    /\ HasRequest /\ ~cancelled
    /\ Takes
    /\ delivered' = delivered \cup Kept
    /\ start' = NextStart /\ retried' = FALSE
    /\ pc' = IF OneRequest THEN "done" ELSE pc
    /\ UNCHANGED <<call, lookups, resolved, inputs, err, cancelled, cutShort, faults>>

(* The request is refused, or cut off on the way there or back. *)
SendFails ==
    /\ HasRequest /\ GoesWrong
    /\ Takes \/ UNCHANGED accepted
    /\ Return(TRUE)

(* A 429 is waited out once. *)
TooMany ==
    /\ HasRequest /\ ~cancelled /\ ~retried /\ Fault
    /\ pc' = "backoff"
    /\ UNCHANGED <<call, progress, accepted, delivered, err, cancelled, cutShort>>

(* The wait after a 429 ends with its time or with the context. *)
Backoff ==
    /\ pc = "backoff"
    /\ \/ /\ pc' = "send" /\ retried' = TRUE
          /\ UNCHANGED <<call, lookups, resolved, inputs, start, delivered, err,
                         cancelled, cutShort>>
       \/ cancelled /\ Return(TRUE)
    /\ UNCHANGED <<accepted, faults>>

Finish ==
    /\ pc = "send" /\ ~HasRequest
    /\ Return(FALSE)
    /\ UNCHANGED <<accepted, faults>>

Next ==
    \/ Cancel \/ Lookup \/ Collect
    \/ Send \/ SendFails \/ TooMany \/ Backoff \/ Finish

Spec == Init /\ [][Next]_vars

-----------------------------------------------------------------------------
(* Properties *)

(* What has reached the service. *)
Taken == {k \in inputs : accepted[k] > 0}

TypeOK ==
    /\ connector \in Connectors /\ window \in Windows
    /\ pc \in {"resolve", "send", "backoff", "done"}
    /\ lookups \subseteq DOMAIN window /\ inputs \subseteq DOMAIN window
    /\ resolved \subseteq {Bucket[i] : i \in Items} \cap Listed
    /\ start \in Nat /\ faults \in 0 .. MaxFaults
    /\ accepted \in [inputs -> Nat] /\ delivered \subseteq inputs
    /\ {retried, err, cancelled, cutShort} \subseteq BOOLEAN

(* A Push sends nothing twice: not where two chunks meet, and not in the   *)
(* repeat of a request that met a 429 (ryot.go:68-108, yamtrack.go:69-109).*)
NoneTwice ==
    \A k \in inputs : accepted[k] <= 1

(* When a Push fails, only items of its last request are in doubt:         *)
(* everything the service took before is reported, so that the engine      *)
(* records it and the rerun does not send it again (ryot.go:300, "Items    *)
(* deployed before a chunk failure are returned alongside the error").     *)
(* When it succeeds, only what shares an identifier, within its category,  *)
(* with an item the service did not take (simkl/client.go:412-416, "items  *)
(* the service reports under not_found (unresolved IDs) are omitted").     *)
LastRequestInDoubt ==
    pc = "done" =>
        Taken \ delivered \subseteq
            IF err THEN Chunk
            ELSE {k \in inputs : \E m \in inputs \ Taken : SharesId(window[k], window[m])}

(* A Push, failed or not, reports nothing that its service did not take,   *)
(* "so the engine never marks them seen" (trakt/client.go:268-273): all    *)
(* but the items that the service lists under not_found and, for lack of   *)
(* an identifier, cannot name.                                             *)
ReportedWasTaken ==
    pc = "done" =>
        \A k \in delivered \ Taken : OneRequest /\ Ids[connector][window[k]] = {}

(* A Push that returns no error "returns the items actually delivered"     *)
(* (trakt/client.go:268-273, simkl/client.go:412-416), no less and no more.*)
ReturnsDelivered ==
    pc = "done" /\ ~err => delivered = Taken

(* A Push whose context ended while buckets were still to be looked up     *)
(* returns an error (ryot.go:327-329, "a cancelled run never reads as a    *)
(* clean empty push").                                                     *)
CancelIsAnError ==
    pc = "done" /\ cutShort => err

(* A Push that returns no error has handed over every item it could send,  *)
(* to the last and shorter chunk (ryot.go:353-373, yamtrack.go:171-182),   *)
(* but for those that the answer names as unknown to the service: what is  *)
(* missing from its report was skipped, not forgotten.                     *)
NothingLeft ==
    pc = "done" /\ ~err =>
        \A k \in inputs : \/ accepted[k] > 0
                          \/ OneRequest /\ window[k] \in Unknown[connector]

(* The items of the window that can be sent, those among them that the     *)
(* service says it does not know, and those it takes.                      *)
Offered == {window[k] : k \in DOMAIN window} \cap HasPayload[connector]

Foreign == IF OneRequest THEN Offered \cap Unknown[connector] ELSE {}

Welcome == {i \in Offered \ Foreign : connector = "ryot" => Bucket[i] \in Listed}

(* What the engine assumes of a Push is what this one does. *)
Contract == INSTANCE PushContract WITH
    takes <- Welcome,
    withheld <- {i \in Welcome : \E m \in Foreign : SharesId(i, m)},
    unnamed <- {m \in Foreign : Ids[connector][m] = {}},
    failing <- faults > 0 \/ cancelled,
    received <- {window[k] : k \in Taken},
    report <- IF pc = "done" THEN {window[k] : k \in delivered} ELSE Pending

KeepsContract == Contract!Spec
=============================================================================
