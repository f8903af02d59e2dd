----------------------------- MODULE PagedHistory -----------------------------
(***************************************************************************)
(* Trakt and Ryot as the source of a sync (internal/trakt, internal/ryot,  *)
(* History): page after page of a list that its user goes on changing,     *)
(* newest title first, and a cursor that moves on what was read.  What the *)
(* engine does with the window is Engine's subject; here every target      *)
(* takes everything, so a run ends by recording its window.                *)
(*                                                                         *)
(* Trakt answers with the watches since the cursor and ends with an empty  *)
(* page.  Ryot lists the whole library, says which page is next, and gives *)
(* the watches of each title on separate request.  A title of Ryot may be  *)
(* watched again; at Trakt each watch is an entry of its own.              *)
(***************************************************************************)
EXTENDS Integers, Bags

CONSTANTS
    Titles,
    Kind,           \* the list each title is in: History reads list 1, then 2
    Connectors,     \* page size, page cap and titles per details request
    MaxTime,        \* bound: the clock stops there
    MaxFaults       \* bound: failing requests, missing details and removals

Kinds == 1 .. 2

ASSUME HistoryAssumption ==
    /\ Kind \in [Titles -> Kinds]
    /\ \A c \in Connectors :
          /\ c.name \in {"trakt", "ryot"}
          /\ c.size \in Nat \ {0} /\ c.cap \in Nat \ {0} /\ c.chunk \in Nat \ {0}
    /\ MaxTime \in Nat /\ MaxFaults \in Nat

VARIABLES
    connector,
    clock,
    place,          \* how far down its list a title is, 0 where it is not listed
    rows,           \* when each listed title was watched
    cursor,         \* the sync's cursor, 0 when it never ran
    seen,           \* the <<title, time>> rows recorded
    faults,
    pc, since, windowEnd,
    kind, page,     \* the list and the page the run is at
    ids,            \* Ryot: the titles of the page, numbered in its order
    start,          \* Ryot: how many of them are behind the loop
    more,           \* Ryot: the page has a next one
    out,            \* the rows read so far, a bag
    slipped,        \* history variable: rows that moved out of the run's way
    arrivals,       \* history variable: titles put in front during the run
    lost            \* history variable: slipped rows the cursor has passed

service == <<place, rows>>
state == <<cursor, seen, lost>>
reader == <<pc, since, windowEnd, kind, page, ids, start, more, out>>
vars == <<connector, clock, service, state, faults, reader, slipped, arrivals>>

NoTitles == [t \in {} |-> 0]

Init ==
    /\ connector \in Connectors
    /\ clock = 1
    /\ place = [t \in Titles |-> 0]
    /\ rows = [t \in Titles |-> {}]
    /\ cursor = 0 /\ seen = {} /\ lost = {}
    /\ faults = 0
    /\ pc = "idle" /\ since = 0 /\ windowEnd = 0
    /\ kind = 1 /\ page = 1 /\ ids = NoTitles /\ start = 0 /\ more = FALSE
    /\ out = EmptyBag
    /\ slipped = {} /\ arrivals = 0

(* The locals of a page. *)
Forget == ids' = NoTitles /\ start' = 0 /\ more' = FALSE

(* The run ends, and its locals with it. *)
Return ==
    /\ pc' = "idle" /\ since' = 0 /\ windowEnd' = 0
    /\ kind' = 1 /\ page' = 1 /\ Forget /\ out' = EmptyBag
    /\ slipped' = {} /\ arrivals' = 0

RowsOf(t) == {<<t, w>> : w \in rows[t]}

-----------------------------------------------------------------------------
(* The service and its user. *)

Tick ==
    /\ clock < MaxTime
    /\ clock' = clock + 1
    /\ UNCHANGED <<connector, service, state, faults, reader, slipped, arrivals>>

(* How many titles of a list n pages hold. *)
Reach(n) == n * connector.size

(* How many titles of kind k the run has behind it. *)
Passed(k) ==
    CASE k # kind \/ pc \notin {"page", "details"} -> 0
      [] k = kind /\ pc = "page" -> Reach(page - 1)
      [] k = kind /\ pc = "details" -> Reach(page)

(* The titles that make room when t comes to the front. *)
InFront(u, t) ==
    Kind[u] = Kind[t] /\ place[u] > 0 /\ (place[t] = 0 \/ place[u] < place[t])

(* The title watched comes to the front; one that the run had still to     *)
(* read has slipped past it, with the watches it had.                      *)
Watch(t) ==
    /\ rows[t] = {} \/ (connector.name = "ryot" /\ clock \notin rows[t])
    /\ place' = [u \in Titles |-> IF u = t THEN 1
                                  ELSE IF InFront(u, t) THEN place[u] + 1 ELSE place[u]]
    /\ rows' = [rows EXCEPT ![t] = @ \cup {clock}]
    /\ slipped' = IF 0 < Passed(Kind[t]) /\ Passed(Kind[t]) < place[t]
                  THEN slipped \cup RowsOf(t) ELSE slipped
    /\ arrivals' = IF pc = "idle" THEN arrivals ELSE arrivals + 1
    /\ UNCHANGED <<connector, clock, state, faults, reader>>

(* The titles that move up when t is removed. *)
Behind(u, t) == Kind[u] = Kind[t] /\ place[u] > place[t]

(* The user removes a title: those behind it move up, one of them from the *)
(* pages the run has still to read to those it has read.                   *)
Unlist(t) ==
    LET last == Passed(Kind[t]) IN
    /\ rows[t] # {}
    /\ faults < MaxFaults /\ faults' = faults + 1
    /\ place' = [u \in Titles |-> IF u = t THEN 0
                                  ELSE IF Behind(u, t) THEN place[u] - 1 ELSE place[u]]
    /\ rows' = [rows EXCEPT ![t] = {}]
    /\ slipped' = slipped \cup
          UNION {RowsOf(u) : u \in {x \in Titles :
                    Behind(x, t) /\ place[t] <= last /\ place[x] = last + 1}}
    /\ UNCHANGED <<connector, clock, state, reader, arrivals>>

-----------------------------------------------------------------------------
(* History. *)

(* Both windows are closed at the cursor: Trakt filters by start_at, Ryot's *)
(* client filters what it has read.                                        *)
Keep(w, from) == from = 0 \/ w >= from

(* What the service pages through for a kind: the newest entries come      *)
(* first, so that those since the cursor are the first of the list.        *)
Listing(k, from) ==
    {t \in Titles :
        /\ Kind[t] = k /\ place[t] > 0
        /\ connector.name = "trakt" => \E w \in rows[t] : Keep(w, from)}

Page(titles, n) == {t \in titles : Reach(n - 1) < place[t] /\ place[t] <= Reach(n)}

(* The rows of some titles, each once. *)
Watches(titles) == SetToBag(UNION {RowsOf(t) : t \in titles})

Open ==
    /\ pc = "idle"
    /\ since' = cursor /\ windowEnd' = clock
    /\ pc' = "page"
    /\ UNCHANGED <<connector, clock, service, state, faults, kind, page, ids, start, more,
                   out, slipped, arrivals>>

(* The walk goes on with what has been read so far. *)
NextPage(read) ==
    /\ pc' = "page" /\ page' = page + 1
    /\ Forget /\ out' = read
    /\ UNCHANGED <<since, windowEnd, kind, arrivals>>

NextKind(read) ==
    /\ IF kind = 1 THEN pc' = "page" /\ kind' = 2 ELSE pc' = "record" /\ kind' = 1
    /\ page' = 1 /\ Forget /\ out' = read
    /\ UNCHANGED <<since, windowEnd, arrivals>>

(* Mutant of OnError: what was read before the error is returned. *)
OnError_Partial(read) == read

OnError(read) == EmptyBag

(* An error fails the sync at Trakt; Ryot's History swallows it and returns *)
(* an empty window.                                                        *)
Abort ==
    \/ connector.name = "trakt" /\ Return
    \/ /\ connector.name = "ryot"
       /\ pc' = "record" /\ out' = OnError(out)
       /\ kind' = 1 /\ page' = 1 /\ Forget
       /\ UNCHANGED <<since, windowEnd, slipped, arrivals>>

RequestFails ==
    /\ pc \in {"page", "details"}
    /\ faults < MaxFaults /\ faults' = faults + 1
    /\ Abort
    /\ UNCHANGED <<connector, clock, service, state>>

(* Mutants of OverCap: there is no cap; a list that just fits is refused. *)
OverCap_Never(n) == FALSE

OverCap_Early(n) == n >= connector.cap

(* Trakt probes one page beyond the cap. *)
OverCap(n) == n > connector.cap

TraktPage ==
    /\ pc = "page" /\ connector.name = "trakt"
    /\ LET entries == Page(Listing(kind, since), page) IN
       \/ entries = {} /\ NextKind(out) /\ UNCHANGED slipped
       \/ entries # {} /\ OverCap(page) /\ Abort
       \/ /\ entries # {} /\ ~OverCap(page)
          /\ NextPage(out (+) Watches(entries))
          /\ UNCHANGED slipped
    /\ UNCHANGED <<connector, clock, service, state, faults>>

(* userListPage: the titles of a page, and whether there is another one. *)
RyotPage ==
    /\ pc = "page" /\ connector.name = "ryot"
    /\ LET titles == Listing(kind, since) IN
       \/ Page(titles, page) = {} /\ NextKind(out)
       \/ /\ Page(titles, page) # {}
          /\ pc' = "details"
          /\ ids' = [t \in Page(titles, page) |-> place[t] - Reach(page - 1)]
          /\ start' = 0
          /\ more' = \E t \in titles : place[t] > Reach(page)
          /\ UNCHANGED <<since, windowEnd, kind, page, out, arrivals>>
    /\ UNCHANGED <<connector, clock, service, state, faults, slipped>>

(* Mutant of NextStart: the next chunk starts at the last title of this one. *)
NextStart_Overlap == start + connector.chunk - 1

NextStart == start + connector.chunk

Unread == {t \in DOMAIN ids : ids[t] > start}

Chunk == {t \in Unread : ids[t] <= start + connector.chunk}

LastChunk == \A t \in DOMAIN ids : ids[t] <= NextStart

Truncates == page >= connector.cap

(* One combined details request; titles that come back without data are    *)
(* left out of the window.                                                 *)
ReadDetails ==
    /\ pc = "details"
    /\ \E silent \in SUBSET Chunk :
          LET read == out (+) Watches(Chunk \ silent) IN
          /\ \/ silent = {} /\ UNCHANGED faults
             \/ silent # {} /\ faults < MaxFaults /\ faults' = faults + 1
          /\ \/ LastChunk /\ more /\ Truncates /\ Abort
             \/ /\ slipped' = slipped \cup UNION {RowsOf(t) : t \in silent}
                /\ \/ /\ ~LastChunk
                      /\ start' = NextStart /\ out' = read
                      /\ UNCHANGED <<pc, since, windowEnd, kind, page, ids, more, arrivals>>
                   \/ LastChunk /\ more /\ ~Truncates /\ NextPage(read)
                   \/ LastChunk /\ ~more /\ NextKind(read)
    /\ UNCHANGED <<connector, clock, service, state>>

Advance == windowEnd

(* engine.Sync with targets that take everything: a window with nothing    *)
(* fresh touches no state.                                                 *)
Record ==
    /\ pc = "record"
    /\ LET window == {r \in BagToSet(out) : Keep(r[2], since)} IN
       IF window \subseteq seen
       THEN UNCHANGED state
       ELSE /\ seen' = seen \cup window
            /\ cursor' = Advance
            /\ lost' = lost \cup {r \in slipped \ seen' : r[2] < windowEnd}
    /\ Return
    /\ UNCHANGED <<connector, clock, service, faults>>

Run ==
    \/ Open
    \/ TraktPage
    \/ RyotPage
    \/ ReadDetails
    \/ RequestFails
    \/ Record

Next ==
    \/ Tick
    \/ \E t \in Titles : Watch(t) \/ Unlist(t)
    \/ Run

Spec == Init /\ [][Next]_vars

(* serve starts the sync again and again, and its requests return. *)
FairSpec == Spec /\ WF_vars(Run)

-----------------------------------------------------------------------------
(* Properties *)

Rows == Titles \X Nat

TypeOK ==
    /\ connector \in Connectors
    /\ clock \in Nat /\ cursor \in Nat /\ faults \in Nat /\ arrivals \in Nat
    /\ place \in [Titles -> Nat]
    /\ rows \in [Titles -> SUBSET Nat]
    /\ seen \subseteq Rows /\ lost \subseteq Rows /\ slipped \subseteq Rows
    /\ pc \in {"idle", "page", "details", "record"}
    /\ since \in Nat /\ windowEnd \in Nat
    /\ kind \in Kinds /\ page \in 1 .. (connector.cap + 1)
    /\ ids \in [DOMAIN ids -> 1 .. connector.size] /\ DOMAIN ids \subseteq Titles
    /\ start \in Nat /\ more \in BOOLEAN
    /\ IsABag(out) /\ BagToSet(out) \subseteq Rows
    /\ pc = "details" => Unread # {}

(* What the cursor has passed was recorded, whatever arrived, failed or    *)
(* was truncated while it was read: the next window would leave it out.    *)
(* The rows that moved across the boundary of the pages read, and those    *)
(* Ryot gave no details of, are the only ones lost.                        *)
NothingBehind ==
    \A t \in Titles : \A w \in rows[t] : w < cursor => <<t, w>> \in seen \cup lost

(* A window lists a row again only if the list moved back while it was     *)
(* read: each repetition is paid for by an arrival.  The engine does not   *)
(* look for repetitions within a window, so each one is pushed.            *)
RepeatsArePaid ==
    \A r \in BagToSet(out) : out[r] <= 1 + arrivals

TooLong ==
    \E t \in Titles : t \in Listing(Kind[t], cursor) /\ place[t] > Reach(connector.cap)

UpToDate == \A t \in Titles : RowsOf(t) \subseteq seen \cup lost

(* The sync catches up again and again, up to the very last entry that     *)
(* fits under the page cap.                                                *)
CatchesUp == []<>(UpToDate \/ TooLong)
=============================================================================
