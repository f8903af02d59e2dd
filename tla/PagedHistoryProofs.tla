-------------------------- MODULE PagedHistoryProofs --------------------------
(***************************************************************************)
(* What the walk over a changing list loses and repeats, for any titles,   *)
(* page sizes, page caps, chunk sizes and faults: TypeOK, NothingBehind    *)
(* and RepeatsArePaid of PagedHistory.                                     *)
(***************************************************************************)
EXTENDS PagedHistory, TLAPS

Reading == pc \in {"page", "details"}

-----------------------------------------------------------------------------
(* The inductive invariant, in four parts. *)

(* The types, what they need of the page counter and of the page at hand,  *)
(* and the clock, which nothing in the state is ahead of.                  *)
Shapes ==
    /\ TypeOK
    /\ connector.name = "ryot" => page <= connector.cap
    /\ pc = "details" => connector.name = "ryot"
    /\ \A t \in DOMAIN ids : Kind[t] = kind
    /\ pc = "idle" => kind = 1 /\ page = 1 /\ out = EmptyBag /\ arrivals = 0
    /\ cursor <= clock /\ windowEnd <= clock
    /\ pc # "idle" => since = cursor

(* A list has no holes, its titles are those with watches, and Trakt's is  *)
(* sorted by them: so the entries since the cursor are the first of it.    *)
Lists ==
    /\ \A t \in Titles : (place[t] > 0 <=> rows[t] # {}) /\ \A w \in rows[t] : w <= clock
    /\ \A t \in Titles : \A n \in 1 .. place[t] :
          \E u \in Titles : Kind[u] = Kind[t] /\ place[u] = n
    /\ connector.name = "trakt" =>
          \A t, u \in Titles :
             Kind[t] = Kind[u] /\ 0 < place[t] /\ place[t] < place[u] =>
                \A v \in rows[t], w \in rows[u] : w <= v

(* The watches of t that the window is to list. *)
Due(t) == {w \in rows[t] : since <= w /\ w < windowEnd}

Found(t) == \A w \in Due(t) : <<t, w>> \in BagToSet(out) \cup slipped

(* The run has still to come to t. *)
Ahead(t) ==
    \/ Kind[t] > kind
    \/ Kind[t] = kind /\ place[t] > Passed(kind) /\ (pc = "details" => more)
    \/ pc = "details" /\ t \in Unread

(* What the window is to list has been read, has slipped past the walk, or *)
(* is still ahead of it; a History that swallowed an error lists nothing.  *)
Covered ==
    /\ Reading => \A t \in Titles : Found(t) \/ Ahead(t)
    /\ pc = "record" => out = EmptyBag \/ \A t \in Titles : Found(t)
    /\ NothingBehind

Copies(r) == IF r \in BagToSet(out) THEN out[r] ELSE 0

(* Each row read more than once has gone down the list since: how far down *)
(* its title is and how often it was read are bounded together.            *)
Paid ==
    \A t \in Titles : \A w \in Nat :
       /\ Copies(<<t, w>>) <= 1 + arrivals
       /\ Reading /\ Kind[t] > kind => Copies(<<t, w>>) = 0
       /\ Reading /\ Kind[t] = kind /\ Copies(<<t, w>>) > 0 =>
             place[t] + Copies(<<t, w>>) <= Passed(kind) + 1 + arrivals
       /\ pc = "details" /\ t \in Unread =>
             /\ Copies(<<t, w>>) <= arrivals
             /\ place[t] + Copies(<<t, w>>) <= Passed(kind) + arrivals

-----------------------------------------------------------------------------
(* The operators of the model. *)

(* The pages of a list lie side by side. *)
LEMMA ReachStep ==
    ASSUME connector \in Connectors, NEW n \in Nat
    PROVE  /\ connector.size \in Nat \ {0} /\ connector.chunk \in Nat \ {0}
           /\ connector.cap \in Nat \ {0} /\ connector.name \in {"trakt", "ryot"}
           /\ Reach(0) = 0
           /\ Reach(n) \in Nat
           /\ Reach(n + 1) = Reach(n) + connector.size
<1>1. /\ connector.size \in Nat \ {0} /\ connector.chunk \in Nat \ {0}
      /\ connector.cap \in Nat \ {0} /\ connector.name \in {"trakt", "ryot"}
  BY HistoryAssumption
<1>2. \A m \in Nat \ {0} : 0 * m = 0 /\ n * m \in Nat /\ (n + 1) * m = n * m + m
  OBVIOUS
<1>3. QED
  BY <1>1, <1>2 DEF Reach

(* Where the pages that the run has behind it end. *)
LEMMA PageEdges ==
    ASSUME Shapes
    PROVE  /\ connector.size \in Nat \ {0} /\ connector.chunk \in Nat \ {0}
           /\ connector.cap \in Nat \ {0} /\ connector.name \in {"trakt", "ryot"}
           /\ page \in Nat \ {0}
           /\ Reach(page - 1) \in Nat
           /\ Reach(page) = Reach(page - 1) + connector.size
           /\ page = 1 => Reach(page - 1) = 0
           /\ \A k : Passed(k) \in Nat
<1>1. connector \in Connectors
  BY DEF Shapes, TypeOK
<1>2. connector.cap \in Nat
  BY <1>1, HistoryAssumption
<1>3. page \in Nat \ {0} /\ page - 1 \in Nat /\ (page - 1) + 1 = page
  BY <1>2 DEF Shapes, TypeOK
<1>4. /\ connector.size \in Nat \ {0} /\ connector.chunk \in Nat \ {0}
      /\ connector.cap \in Nat \ {0} /\ connector.name \in {"trakt", "ryot"}
      /\ Reach(0) = 0
      /\ Reach(page - 1) \in Nat
      /\ Reach((page - 1) + 1) = Reach(page - 1) + connector.size
  BY <1>1, <1>3, ReachStep
<1>5. Reach(page) = Reach(page - 1) + connector.size
  BY <1>3, <1>4
<1>6. page = 1 => Reach(page - 1) = 0
  BY <1>4
<1>7. ASSUME NEW k PROVE Passed(k) \in Nat
  <2>1. CASE k # kind \/ pc \notin {"page", "details"}
    BY <2>1 DEF Passed
  <2>2. CASE k = kind /\ pc = "page"
    BY <2>2, <1>4 DEF Passed
  <2>3. CASE k = kind /\ pc = "details"
    BY <2>3, <1>4, <1>5 DEF Passed
  <2>4. QED
    BY <2>1, <2>2, <2>3
<1>8. QED
  BY <1>3, <1>4, <1>5, <1>6, <1>7

LEMMA PassedCases ==
    /\ pc = "page" => Passed(kind) = Reach(page - 1)
    /\ pc = "details" => Passed(kind) = Reach(page)
    /\ \A k : k # kind \/ pc \notin {"page", "details"} => Passed(k) = 0
BY DEF Passed

(* Reading some titles adds each of their rows once. *)
LEMMA BagPlus ==
    ASSUME NEW B, IsABag(B), NEW R
    PROVE  /\ IsABag(B (+) SetToBag(R))
           /\ BagToSet(B (+) SetToBag(R)) = BagToSet(B) \cup R
           /\ \A r \in BagToSet(B) \cup R :
                 (B (+) SetToBag(R))[r] = (IF r \in BagToSet(B) THEN B[r] ELSE 0)
                                          + (IF r \in R THEN 1 ELSE 0)
<1>1. \A r \in BagToSet(B) : B[r] \in Nat /\ B[r] > 0
  BY DEF IsABag, BagToSet
<1>2. SetToBag(R) = [r \in R |-> 1]
  BY DEF SetToBag
<1>3. B (+) SetToBag(R) = [e \in BagToSet(B) \cup R |->
                             (IF e \in BagToSet(B) THEN B[e] ELSE 0)
                             + (IF e \in R THEN 1 ELSE 0)]
  BY <1>2 DEF (+), BagToSet
<1>4. \A e \in BagToSet(B) \cup R :
         /\ (IF e \in BagToSet(B) THEN B[e] ELSE 0) + (IF e \in R THEN 1 ELSE 0) \in Nat
         /\ (IF e \in BagToSet(B) THEN B[e] ELSE 0) + (IF e \in R THEN 1 ELSE 0) > 0
  BY <1>1
<1>5. QED
  BY <1>3, <1>4 DEF IsABag, BagToSet

LEMMA NoRows == IsABag(EmptyBag) /\ BagToSet(EmptyBag) = {}
BY DEF EmptyBag, SetToBag, IsABag, BagToSet

(* The rows that a request for some titles returns. *)
RowsOfAll(S) == UNION {RowsOf(t) : t \in S}

LEMMA RowsOfAllAre ==
    ASSUME NEW S, S \subseteq Titles
    PROVE  \A t, w : <<t, w>> \in RowsOfAll(S) <=> t \in S /\ w \in rows[t]
BY DEF RowsOfAll, RowsOf

LEMMA WatchesAdd ==
    ASSUME Shapes, NEW S, S \subseteq Titles
    PROVE  /\ IsABag(out (+) Watches(S))
           /\ BagToSet(out (+) Watches(S)) \subseteq Rows
           /\ BagToSet(out) \cup RowsOfAll(S) = BagToSet(out (+) Watches(S))
           /\ \A r \in BagToSet(out) \cup RowsOfAll(S) :
                 (out (+) Watches(S))[r] = Copies(r) + (IF r \in RowsOfAll(S) THEN 1 ELSE 0)
<1>1. IsABag(out) /\ BagToSet(out) \subseteq Rows
  BY DEF Shapes, TypeOK
<1>2. out (+) Watches(S) = out (+) SetToBag(RowsOfAll(S))
  BY DEF Watches, RowsOfAll
<1>3. RowsOfAll(S) \subseteq Rows
  BY DEF RowsOfAll, RowsOf, Rows, Shapes, TypeOK
<1>4. QED
  BY <1>1, <1>2, <1>3, BagPlus DEF Copies

-----------------------------------------------------------------------------
(* The types. *)

LEMMA ShapesInit == Init => Shapes
<1> SUFFICES ASSUME Init
             PROVE  Shapes
  OBVIOUS
<1>1. connector.cap \in Nat \ {0}
  BY HistoryAssumption DEF Init
<1>2. ids = NoTitles /\ ids \in [DOMAIN ids -> 1 .. connector.size] /\ DOMAIN ids = {}
  BY DEF Init, NoTitles
<1>3. IsABag(out) /\ BagToSet(out) \subseteq Rows
  BY NoRows DEF Init
<1>4. TypeOK
  <2>1. 1 \in 1 .. (connector.cap + 1) /\ {} \subseteq Rows
    BY <1>1
  <2>2. place \in [Titles -> Nat] /\ rows \in [Titles -> SUBSET Nat]
    BY DEF Init
  <2>3. kind \in Kinds /\ page \in 1 .. (connector.cap + 1)
    BY <2>1 DEF Init, Kinds
  <2>4. QED
    BY <1>2, <1>3, <2>1, <2>2, <2>3 DEF Init, TypeOK
<1>5. QED
  BY <1>1, <1>2, <1>4 DEF Init, Shapes

(* What the user does leaves the run where it is. *)
LEMMA ShapesService ==
    ASSUME Shapes, Tick \/ \E t \in Titles : Watch(t) \/ Unlist(t)
    PROVE  Shapes'
<1>1. CASE Tick
  <2>1. clock' = clock + 1 /\ UNCHANGED <<connector, service, state, faults, reader, slipped, arrivals>>
    BY <1>1 DEF Tick
  <2>2. QED
    BY <2>1 DEF Shapes, TypeOK, service, state, reader, Unread
<1>2. ASSUME NEW t \in Titles, Watch(t)
      PROVE  Shapes'
  <2>1. UNCHANGED <<connector, clock, state, faults, reader>>
    BY <1>2 DEF Watch
  <2>2. place' \in [Titles -> Nat] /\ rows' \in [Titles -> SUBSET Nat]
    BY <1>2 DEF Watch, Shapes, TypeOK
  <2>3. slipped' \subseteq Rows /\ arrivals' \in Nat
    BY <1>2 DEF Watch, RowsOf, Rows, Shapes, TypeOK
  <2>4. pc = "idle" => arrivals' = 0
    BY <1>2 DEF Watch, Shapes
  <2>5. QED
    BY <2>1, <2>2, <2>3, <2>4 DEF Shapes, TypeOK, state, reader, Unread
<1>3. ASSUME NEW t \in Titles, Unlist(t)
      PROVE  Shapes'
  <2>1. UNCHANGED <<connector, clock, state, reader, arrivals>>
    BY <1>3 DEF Unlist
  <2>2. place' \in [Titles -> Nat] /\ rows' \in [Titles -> SUBSET Nat]
    BY <1>3 DEF Unlist, Behind, Shapes, TypeOK
  <2>3. slipped' \subseteq Rows /\ faults' \in Nat
    BY <1>3 DEF Unlist, RowsOf, Rows, Shapes, TypeOK
  <2>4. QED
    BY <2>1, <2>2, <2>3 DEF Shapes, TypeOK, state, reader, Unread
<1>4. QED
  BY <1>1, <1>2, <1>3

(* The walk is at the first page of a list, or at none. *)
LEMMA ReturnShapes ==
    ASSUME Shapes, Return, UNCHANGED <<connector, clock, service>>,
           faults' \in Nat, seen' \subseteq Rows, lost' \subseteq Rows,
           cursor' \in Nat, cursor' <= clock
    PROVE  Shapes'
<1>1. ids' = NoTitles /\ ids' \in [DOMAIN ids' -> 1 .. connector'.size] /\ DOMAIN ids' = {}
  BY DEF Return, Forget, NoTitles
<1>2. IsABag(out') /\ BagToSet(out') \subseteq Rows
  BY NoRows DEF Return
<1>3. /\ pc' = "idle" /\ since' = 0 /\ windowEnd' = 0 /\ kind' = 1 /\ page' = 1
      /\ start' = 0 /\ more' = FALSE /\ out' = EmptyBag /\ slipped' = {} /\ arrivals' = 0
  BY DEF Return, Forget
<1>4. 1 \in 1 .. (connector.cap + 1) /\ 1 <= connector.cap
  BY PageEdges
<1>5. TypeOK'
  <2>1. kind' \in Kinds /\ page' \in 1 .. (connector'.cap + 1)
    BY <1>3, <1>4 DEF Kinds
  <2>2. slipped' \subseteq Rows /\ arrivals' \in Nat /\ start' \in Nat /\ more' \in BOOLEAN
    BY <1>3
  <2>3. pc' \in {"idle", "page", "details", "record"} /\ since' \in Nat /\ windowEnd' \in Nat
    BY <1>3
  <2>4. connector' \in Connectors /\ clock' \in Nat /\ place' \in [Titles -> Nat] /\ rows' \in [Titles -> SUBSET Nat]
    BY DEF Shapes, TypeOK, service
  <2>5. ids' \in [DOMAIN ids' -> 1 .. connector'.size] /\ DOMAIN ids' \subseteq Titles
    BY <1>1
  <2>6. QED
    BY <1>2, <1>3, <2>1, <2>2, <2>3, <2>4, <2>5 DEF TypeOK
<1>6. QED
  BY <1>1, <1>3, <1>4, <1>5 DEF Shapes, TypeOK

(* The walk goes on, at a page of its own, without titles to read. *)
LEMMA MovedShapes ==
    ASSUME Shapes, UNCHANGED <<connector, clock, service, state, since, windowEnd>>,
           faults' \in Nat, arrivals' \in Nat, slipped' \subseteq Rows,
           Forget, IsABag(out'), BagToSet(out') \subseteq Rows,
           pc # "idle", pc' \in {"page", "record"}, kind' \in Kinds,
           page' \in 1 .. (connector.cap + 1),
           connector.name = "ryot" => page' <= connector.cap
    PROVE  Shapes'
<1>1. ids' = NoTitles /\ ids' \in [DOMAIN ids' -> 1 .. connector'.size] /\ DOMAIN ids' = {}
  BY DEF Forget, NoTitles
<1>2. start' = 0 /\ more' = FALSE
  BY DEF Forget
<1>3. TypeOK'
  BY <1>1, <1>2 DEF Shapes, TypeOK, service, state
<1>4. QED
  BY <1>1, <1>3 DEF Shapes, state

LEMMA NextKindShapes ==
    ASSUME Shapes, UNCHANGED <<connector, clock, service, state>>,
           faults' \in Nat, slipped' \subseteq Rows, pc # "idle",
           NEW read, IsABag(read), BagToSet(read) \subseteq Rows, NextKind(read)
    PROVE  Shapes'
<1>1. /\ Forget /\ out' = read /\ page' = 1 /\ UNCHANGED <<since, windowEnd, arrivals>>
      /\ pc' \in {"page", "record"} /\ kind' \in Kinds
  BY DEF NextKind, Kinds
<1>2. 1 \in 1 .. (connector.cap + 1) /\ 1 <= connector.cap
  BY PageEdges
<1>3. arrivals' \in Nat
  BY <1>1 DEF Shapes, TypeOK
<1>4. QED
  BY <1>1, <1>2, <1>3, MovedShapes

LEMMA NextPageShapes ==
    ASSUME Shapes, UNCHANGED <<connector, clock, service, state>>,
           faults' \in Nat, slipped' \subseteq Rows, pc # "idle",
           NEW read, IsABag(read), BagToSet(read) \subseteq Rows, NextPage(read),
           page <= connector.cap, connector.name = "ryot" => page < connector.cap
    PROVE  Shapes'
<1>1. /\ Forget /\ out' = read /\ page' = page + 1
      /\ UNCHANGED <<since, windowEnd, kind, arrivals>> /\ pc' = "page"
  BY DEF NextPage
<1>2. page' \in 1 .. (connector.cap + 1) /\ (connector.name = "ryot" => page' <= connector.cap)
  BY <1>1, PageEdges
<1>3. arrivals' \in Nat /\ kind' \in Kinds
  BY <1>1 DEF Shapes, TypeOK
<1>4. QED
  BY <1>1, <1>2, <1>3, MovedShapes

LEMMA AbortShapes ==
    ASSUME Shapes, UNCHANGED <<connector, clock, service, state>>, faults' \in Nat,
           pc # "idle", Abort
    PROVE  Shapes'
<1>1. CASE Return
  BY <1>1, ReturnShapes DEF Shapes, TypeOK, state
<1>2. CASE ~Return
  <2>1. /\ Forget /\ out' = EmptyBag /\ pc' = "record" /\ kind' = 1 /\ page' = 1
        /\ UNCHANGED <<since, windowEnd, slipped, arrivals>>
    BY <1>2 DEF Abort, OnError
  <2>2. IsABag(out') /\ BagToSet(out') \subseteq Rows
    BY <2>1, NoRows
  <2>3. kind' \in Kinds /\ page' \in 1 .. (connector.cap + 1) /\ page' <= connector.cap
    BY <2>1, PageEdges DEF Kinds
  <2>4. arrivals' \in Nat /\ slipped' \subseteq Rows
    BY <2>1 DEF Shapes, TypeOK
  <2>5. QED
    BY <2>1, <2>2, <2>3, <2>4, MovedShapes
<1>3. QED
  BY <1>1, <1>2

LEMMA OpenShapes ==
    ASSUME Shapes, Open
    PROVE  Shapes'
BY DEF Open, Shapes, TypeOK, service, state, Unread

LEMMA TraktPageShapes ==
    ASSUME Shapes, TraktPage
    PROVE  Shapes'
<1> DEFINE entries == Page(Listing(kind, since), page)
<1>1. /\ UNCHANGED <<connector, clock, service, state, faults>>
      /\ pc = "page" /\ connector.name = "trakt"
  BY DEF TraktPage
<1>2. faults' \in Nat /\ slipped \subseteq Rows /\ IsABag(out) /\ BagToSet(out) \subseteq Rows
  BY <1>1 DEF Shapes, TypeOK
<1>3. entries \subseteq Titles
  BY DEF Page, Listing
<1>4. CASE NextKind(out) /\ UNCHANGED slipped
  BY <1>1, <1>2, <1>4, NextKindShapes
<1>5. CASE Abort
  BY <1>1, <1>2, <1>5, AbortShapes
<1>6. CASE ~OverCap(page) /\ NextPage(out (+) Watches(entries)) /\ UNCHANGED slipped
  <2>1. IsABag(out (+) Watches(entries)) /\ BagToSet(out (+) Watches(entries)) \subseteq Rows
    BY <1>3, WatchesAdd
  <2>2. page <= connector.cap /\ connector.name # "ryot"
    BY <1>1, <1>6, PageEdges DEF OverCap
  <2>3. QED
    BY <1>1, <1>2, <1>6, <2>1, <2>2, NextPageShapes
<1>7. QED
  BY <1>4, <1>5, <1>6 DEF TraktPage

LEMMA RyotPageShapes ==
    ASSUME Shapes, RyotPage
    PROVE  Shapes'
<1> DEFINE titles == Listing(kind, since)
           P == Page(titles, page)
<1>1. /\ UNCHANGED <<connector, clock, service, state, faults, slipped>>
      /\ pc = "page" /\ connector.name = "ryot"
  BY DEF RyotPage
<1>2. CASE NextKind(out)
  <2>1. faults' \in Nat /\ slipped' \subseteq Rows /\ IsABag(out) /\ BagToSet(out) \subseteq Rows
    BY <1>1 DEF Shapes, TypeOK
  <2>2. QED
    BY <1>1, <1>2, <2>1, NextKindShapes
<1>3. CASE ~NextKind(out)
  <2>1. /\ P # {} /\ pc' = "details" /\ start' = 0
        /\ ids' = [t \in P |-> place[t] - Reach(page - 1)]
        /\ more' = (\E t \in titles : place[t] > Reach(page))
        /\ UNCHANGED <<since, windowEnd, kind, page, out, arrivals>>
    BY <1>3 DEF RyotPage
  <2>2. \A t \in P : t \in Titles /\ Kind[t] = kind /\ place[t] - Reach(page - 1) \in 1 .. connector.size
    BY PageEdges DEF Page, Listing, Shapes, TypeOK
  <2>3. /\ ids' \in [DOMAIN ids' -> 1 .. connector'.size] /\ DOMAIN ids' = P
        /\ P \subseteq Titles /\ \A t \in DOMAIN ids' : Kind[t] = kind'
    <3> HIDE DEF P
    <3>1. QED
      BY <1>1, <2>1, <2>2
  <2>4. Unread' # {}
    <3> HIDE DEF P
    <3>1. PICK t \in P : TRUE
      BY <2>1
    <3>2. ids'[t] > start' /\ t \in DOMAIN ids'
      BY <2>1, <2>2, <3>1, PageEdges
    <3>3. QED
      BY <3>2 DEF Unread
  <2>5. more' \in BOOLEAN
    BY <2>1
  <2>6. TypeOK'
    BY <1>1, <2>1, <2>3, <2>4, <2>5 DEF Shapes, TypeOK, service, state
  <2>7. QED
    BY <1>1, <2>1, <2>3, <2>6 DEF Shapes, state
<1>4. QED
  BY <1>2, <1>3

LEMMA ReadDetailsShapes ==
    ASSUME Shapes, ReadDetails
    PROVE  Shapes'
<1>1. PICK silent \in SUBSET Chunk :
        LET read == out (+) Watches(Chunk \ silent) IN
          /\ \/ silent = {} /\ UNCHANGED faults
             \/ silent # {} /\ faults < MaxFaults /\ faults' = faults + 1
          /\ \/ LastChunk /\ more /\ Truncates /\ Abort
             \/ /\ slipped' = slipped \cup UNION {RowsOf(t) : t \in silent}
                /\ \/ /\ ~LastChunk
                      /\ start' = NextStart /\ out' = read
                      /\ UNCHANGED <<pc, since, windowEnd, kind, page, ids, more, arrivals>>
                   \/ LastChunk /\ more /\ ~Truncates /\ NextPage(read)
                   \/ LastChunk /\ ~more /\ NextKind(read)
  BY DEF ReadDetails
<1> DEFINE S == Chunk \ silent
           read == out (+) Watches(S)
<1>2. UNCHANGED <<connector, clock, service, state>> /\ pc = "details"
  BY DEF ReadDetails
<1>3. faults' \in Nat
  BY <1>1 DEF Shapes, TypeOK
<1>4. Chunk \subseteq Titles
  BY DEF Chunk, Unread, Shapes, TypeOK
<1>5. IsABag(read) /\ BagToSet(read) \subseteq Rows
  BY <1>4, WatchesAdd
<1>6. CASE Abort
  BY <1>2, <1>3, <1>6, AbortShapes
<1>7. CASE ~Abort
  <2>1. slipped' \subseteq Rows
    <3>1. UNION {RowsOf(t) : t \in silent} \subseteq Rows
      BY <1>1, <1>4 DEF RowsOf, Rows, Shapes, TypeOK
    <3>2. slipped' = slipped \cup UNION {RowsOf(t) : t \in silent}
      BY <1>1, <1>7
    <3>3. QED
      BY <3>1, <3>2 DEF Shapes, TypeOK
  <2>2. CASE ~LastChunk
    <3>1. /\ start' = start + connector.chunk /\ out' = read
          /\ UNCHANGED <<pc, since, windowEnd, kind, page, ids, more, arrivals>>
      BY <1>1, <1>7, <2>2 DEF NextStart
    <3>2. start' \in Nat
      BY <3>1, PageEdges DEF Shapes, TypeOK
    <3>3. PICK t \in DOMAIN ids : ~(ids[t] <= NextStart)
      BY <2>2 DEF LastChunk
    <3>4. ids[t] > start'
      BY <3>1, <3>2, <3>3, PageEdges DEF NextStart, Shapes, TypeOK
    <3>5. Unread' # {}
      BY <3>1, <3>3, <3>4 DEF Unread
    <3> HIDE DEF read
    <3>6. TypeOK'
      BY <1>2, <1>3, <1>5, <2>1, <3>1, <3>2, <3>5 DEF Shapes, TypeOK, service, state
    <3>7. QED
      BY <1>2, <3>1, <3>6 DEF Shapes, state
  <2>3. CASE LastChunk /\ more /\ ~Truncates /\ NextPage(read)
    <3>1. page < connector.cap /\ page <= connector.cap
      BY <2>3, PageEdges DEF Truncates
    <3> HIDE DEF read
    <3>2. QED
      BY <1>2, <1>3, <1>5, <2>1, <2>3, <3>1, NextPageShapes
  <2>4. CASE LastChunk /\ ~more /\ NextKind(read)
    <3> HIDE DEF read
    <3>1. QED
      BY <1>2, <1>3, <1>5, <2>1, <2>4, NextKindShapes
  <2>5. QED
    BY <1>1, <1>7, <2>2, <2>3, <2>4
<1>8. QED
  BY <1>6, <1>7

LEMMA RequestFailsShapes ==
    ASSUME Shapes, RequestFails
    PROVE  Shapes'
<1>1. /\ pc # "idle" /\ faults' = faults + 1 /\ Abort
      /\ UNCHANGED <<connector, clock, service, state>>
  BY DEF RequestFails
<1>2. faults' \in Nat
  BY <1>1 DEF Shapes, TypeOK
<1>3. QED
  BY <1>1, <1>2, AbortShapes

LEMMA RecordShapes ==
    ASSUME Shapes, Record
    PROVE  Shapes'
<1> DEFINE window == {r \in BagToSet(out) : Keep(r[2], since)}
<1>1. Return /\ UNCHANGED <<connector, clock, service, faults>>
  BY DEF Record
<1>2. \/ UNCHANGED state
      \/ /\ seen' = seen \cup window /\ cursor' = windowEnd
         /\ lost' = lost \cup {r \in slipped \ seen' : r[2] < windowEnd}
  BY DEF Record, Advance
<1>3. /\ faults' \in Nat /\ seen' \subseteq Rows /\ lost' \subseteq Rows
      /\ cursor' \in Nat /\ cursor' <= clock
  BY <1>1, <1>2 DEF Shapes, TypeOK, state
<1>4. QED
  BY <1>1, <1>3, ReturnShapes

LEMMA ShapesStep == Shapes /\ [Next]_vars => Shapes'
<1> SUFFICES ASSUME Shapes, [Next]_vars
             PROVE  Shapes'
  OBVIOUS
<1>1. CASE Tick \/ \E t \in Titles : Watch(t) \/ Unlist(t)
  BY <1>1, ShapesService
<1>2. CASE Run
  BY <1>2, OpenShapes, TraktPageShapes, RyotPageShapes, ReadDetailsShapes,
     RequestFailsShapes, RecordShapes DEF Run
<1>3. CASE UNCHANGED vars
  BY <1>3 DEF vars, Shapes, TypeOK, service, state, reader, Unread
<1>4. QED
  BY <1>1, <1>2, <1>3 DEF Next

(* Every variable keeps its type; the page number never goes past the one  *)
(* page that Trakt probes beyond its cap (trakt/client.go:150-165), and    *)
(* readDetails never asks for an empty chunk (ryot.go:489-491).            *)
THEOREM HistoryTypes == Spec => []TypeOK
<1>1. Shapes => TypeOK
  BY DEF Shapes
<1>2. QED
  BY <1>1, ShapesInit, ShapesStep, PTL DEF Spec

-----------------------------------------------------------------------------
(* The lists. *)

(* The places of a list after t has come to its front. *)
LEMMA WatchPlaces ==
    ASSUME Shapes, NEW t \in Titles, Watch(t)
    PROVE  /\ place \in [Titles -> Nat] /\ place' \in [Titles -> Nat]
           /\ place'[t] = 1
           /\ \A u \in Titles \ {t} :
                 place'[u] = IF InFront(u, t) THEN place[u] + 1 ELSE place[u]
           /\ rows'[t] = rows[t] \cup {clock}
           /\ \A u \in Titles \ {t} : rows'[u] = rows[u]
<1>1. place \in [Titles -> Nat] /\ rows \in [Titles -> SUBSET Nat]
  BY DEF Shapes, TypeOK
<1>2. QED
  BY <1>1 DEF Watch, InFront

(* The places of a list after t has left it. *)
LEMMA UnlistPlaces ==
    ASSUME Shapes, NEW t \in Titles, Unlist(t)
    PROVE  /\ place \in [Titles -> Nat] /\ place' \in [Titles -> Nat]
           /\ place'[t] = 0
           /\ \A u \in Titles \ {t} :
                 place'[u] = IF Behind(u, t) THEN place[u] - 1 ELSE place[u]
           /\ rows'[t] = {}
           /\ \A u \in Titles \ {t} : rows'[u] = rows[u]
<1>1. place \in [Titles -> Nat] /\ rows \in [Titles -> SUBSET Nat]
  BY DEF Shapes, TypeOK
<1>2. QED
  BY <1>1 DEF Unlist, Behind

LEMMA ListsInit == Init => Lists
<1> SUFFICES ASSUME Init
             PROVE  Lists
  OBVIOUS
<1>1. \A t \in Titles : place[t] = 0 /\ rows[t] = {}
  BY DEF Init
<1>2. QED
  BY <1>1 DEF Lists

LEMMA WatchLists ==
    ASSUME Shapes, Lists, NEW t \in Titles, Watch(t)
    PROVE  Lists'
<1>1. connector' = connector /\ clock' = clock /\ clock \in Nat
  BY DEF Watch, Shapes, TypeOK
<1>2. \A u \in Titles : (place'[u] > 0 <=> rows'[u] # {}) /\ \A w \in rows'[u] : w <= clock
  <2>1. ASSUME NEW u \in Titles \ {t}
        PROVE  (place'[u] > 0 <=> place[u] > 0) /\ rows'[u] = rows[u]
    BY WatchPlaces DEF InFront
  <2>2. ASSUME NEW u \in Titles \ {t}
        PROVE  (place'[u] > 0 <=> rows'[u] # {}) /\ \A w \in rows'[u] : w <= clock
    BY <2>1, <2>2 DEF Lists
  <2>3. (place'[t] > 0 <=> rows'[t] # {}) /\ \A w \in rows'[t] : w <= clock
    <3>1. place'[t] = 1 /\ rows'[t] = rows[t] \cup {clock}
      BY WatchPlaces
    <3>2. \A w \in rows[t] : w <= clock
      BY DEF Lists
    <3>3. QED
      BY <1>1, <3>1, <3>2
  <2>4. QED
    BY <2>2, <2>3
<1>3. ASSUME NEW v \in Titles, NEW n \in 1 .. place'[v]
      PROVE  \E u \in Titles : Kind[u] = Kind[v] /\ place'[u] = n
  <2>1. CASE Kind[v] # Kind[t]
    <3>1. place'[v] = place[v]
      BY <2>1, WatchPlaces DEF InFront
    <3>2. PICK u \in Titles : Kind[u] = Kind[v] /\ place[u] = n
      BY <3>1 DEF Lists
    <3>3. place'[u] = place[u]
      BY <2>1, <3>2, WatchPlaces DEF InFront
    <3>4. QED
      BY <3>2, <3>3
  <2>2. CASE Kind[v] = Kind[t] /\ n = 1
    BY <2>2, WatchPlaces
  <2>3. CASE Kind[v] = Kind[t] /\ n > 1 /\ (place[t] = 0 \/ n <= place[t])
    <3>1. v # t /\ n - 1 \in 1 .. place[v]
      BY <2>3, WatchPlaces DEF InFront
    <3>2. PICK u \in Titles : Kind[u] = Kind[v] /\ place[u] = n - 1
      BY <3>1 DEF Lists
    <3>3. u # t /\ InFront(u, t)
      BY <2>3, <3>2, WatchPlaces DEF InFront
    <3>4. place'[u] = n
      BY <3>2, <3>3, WatchPlaces
    <3>5. QED
      BY <3>2, <3>4
  <2>4. CASE Kind[v] = Kind[t] /\ n > 1 /\ place[t] > 0 /\ n > place[t]
    <3>1. v # t /\ n \in 1 .. place[v]
      BY <2>4, WatchPlaces DEF InFront
    <3>2. PICK u \in Titles : Kind[u] = Kind[v] /\ place[u] = n
      BY <3>1 DEF Lists
    <3>3. u # t /\ ~InFront(u, t)
      BY <2>4, <3>2, WatchPlaces DEF InFront
    <3>4. place'[u] = n
      BY <3>2, <3>3, WatchPlaces
    <3>5. QED
      BY <3>2, <3>4
  <2>5. place[t] \in Nat /\ n \in Nat \ {0}
    BY WatchPlaces
  <2>6. QED
    BY <2>1, <2>2, <2>3, <2>4, <2>5
<1>4. ASSUME connector.name = "trakt", NEW u \in Titles, NEW v \in Titles,
             Kind[u] = Kind[v], 0 < place'[u], place'[u] < place'[v],
             NEW a \in rows'[u], NEW b \in rows'[v]
      PROVE  b <= a
  <2>1. rows[t] = {} /\ place[t] = 0
    <3>1. rows[t] = {}
      BY <1>4 DEF Watch
    <3>2. ~(place[t] > 0)
      BY <3>1 DEF Lists
    <3>3. QED
      BY <3>1, <3>2, WatchPlaces
  <2>2. v # t
    BY <1>4, WatchPlaces
  <2>3. b <= clock
    BY <1>2
  <2>4. CASE u = t
    BY <2>1, <2>3, <2>4, WatchPlaces
  <2>5. CASE u # t
    <3>1. 0 < place[u] /\ place[u] < place[v]
      BY <1>4, <2>1, <2>2, <2>5, WatchPlaces DEF InFront
    <3>2. a \in rows[u] /\ b \in rows[v]
      BY <2>2, <2>5, WatchPlaces
    <3>3. QED
      BY <1>4, <3>1, <3>2 DEF Lists
  <2>6. QED
    BY <2>4, <2>5
<1>5. QED
  BY <1>1, <1>2, <1>3, <1>4 DEF Lists

LEMMA UnlistLists ==
    ASSUME Shapes, Lists, NEW t \in Titles, Unlist(t)
    PROVE  Lists'
<1>1. connector' = connector /\ clock' = clock /\ clock \in Nat
  BY DEF Unlist, Shapes, TypeOK
<1>2. place[t] \in Nat \ {0}
  <2>1. rows[t] # {}
    BY DEF Unlist
  <2>2. place[t] > 0
    BY <2>1 DEF Lists
  <2>3. QED
    BY <2>2, UnlistPlaces
<1>3. \A u \in Titles : (place'[u] > 0 <=> rows'[u] # {}) /\ \A w \in rows'[u] : w <= clock
  <2>1. ASSUME NEW u \in Titles \ {t}
        PROVE  (place'[u] > 0 <=> place[u] > 0) /\ rows'[u] = rows[u]
    BY <1>2, UnlistPlaces DEF Behind
  <2>2. QED
    BY <1>1, <2>1, UnlistPlaces DEF Lists
<1>4. ASSUME NEW v \in Titles, NEW n \in 1 .. place'[v]
      PROVE  \E u \in Titles : Kind[u] = Kind[v] /\ place'[u] = n
  <2>1. v # t
    BY UnlistPlaces
  <2>2. CASE Kind[v] # Kind[t]
    <3>1. place'[v] = place[v]
      BY <2>1, <2>2, UnlistPlaces DEF Behind
    <3>2. PICK u \in Titles : Kind[u] = Kind[v] /\ place[u] = n
      BY <3>1 DEF Lists
    <3>3. place'[u] = place[u]
      BY <2>2, <3>2, UnlistPlaces DEF Behind
    <3>4. QED
      BY <3>2, <3>3
  <2>3. CASE Kind[v] = Kind[t] /\ n < place[t]
    <3>1. n \in 1 .. place[v]
      BY <2>1, <2>3, UnlistPlaces DEF Behind
    <3>2. PICK u \in Titles : Kind[u] = Kind[v] /\ place[u] = n
      BY <3>1 DEF Lists
    <3>3. u # t /\ ~Behind(u, t)
      BY <2>3, <3>2, UnlistPlaces DEF Behind
    <3>4. place'[u] = n
      BY <3>2, <3>3, UnlistPlaces
    <3>5. QED
      BY <3>2, <3>4
  <2>4. CASE Kind[v] = Kind[t] /\ n >= place[t] /\ Behind(v, t)
    <3>1. n + 1 \in 1 .. place[v]
      BY <1>2, <2>1, <2>4, UnlistPlaces
    <3>2. PICK u \in Titles : Kind[u] = Kind[v] /\ place[u] = n + 1
      BY <3>1 DEF Lists
    <3>3. u # t /\ Behind(u, t)
      BY <1>2, <2>4, <3>2, UnlistPlaces DEF Behind
    <3>4. place'[u] = n
      BY <3>2, <3>3, UnlistPlaces
    <3>5. QED
      BY <3>2, <3>4
  <2>5. CASE Kind[v] = Kind[t] /\ n >= place[t] /\ ~Behind(v, t)
    <3>1. place'[v] = n
      BY <1>2, <2>1, <2>5, UnlistPlaces DEF Behind
    <3>2. QED
      BY <3>1
  <2>6. QED
    BY <1>2, <2>2, <2>3, <2>4, <2>5
<1>5. ASSUME connector.name = "trakt", NEW u \in Titles, NEW v \in Titles,
             Kind[u] = Kind[v], 0 < place'[u], place'[u] < place'[v],
             NEW a \in rows'[u], NEW b \in rows'[v]
      PROVE  b <= a
  <2>1. u # t /\ v # t
    BY <1>5, UnlistPlaces
  <2>2. 0 < place[u] /\ place[u] < place[v]
    BY <1>2, <1>5, <2>1, UnlistPlaces DEF Behind
  <2>3. a \in rows[u] /\ b \in rows[v]
    BY <2>1, UnlistPlaces
  <2>4. QED
    BY <1>5, <2>2, <2>3 DEF Lists
<1>6. QED
  BY <1>1, <1>3, <1>4, <1>5 DEF Lists

LEMMA RunLeavesService ==
    ASSUME Run
    PROVE  UNCHANGED <<connector, clock, place, rows>>
BY DEF Run, Open, TraktPage, RyotPage, ReadDetails, RequestFails, Record, service

LEMMA ListsStep == Shapes /\ Lists /\ [Next]_vars => Lists'
<1> SUFFICES ASSUME Shapes, Lists, [Next]_vars
             PROVE  Lists'
  OBVIOUS
<1>1. CASE Tick
  <2>1. clock' = clock + 1 /\ UNCHANGED <<connector, place, rows>>
    BY <1>1 DEF Tick, service
  <2>2. \A t \in Titles : \A w \in rows[t] : w <= clock'
    BY <2>1 DEF Lists, Shapes, TypeOK
  <2>3. QED
    BY <2>1, <2>2 DEF Lists
<1>2. ASSUME NEW t \in Titles, Watch(t) \/ Unlist(t)
      PROVE  Lists'
  BY <1>2, WatchLists, UnlistLists
<1>3. CASE Run \/ UNCHANGED vars
  <2>1. UNCHANGED <<connector, clock, place, rows>>
    BY <1>3, RunLeavesService DEF vars, service
  <2>2. QED
    BY <2>1 DEF Lists
<1>4. QED
  BY <1>1, <1>2, <1>3 DEF Next

-----------------------------------------------------------------------------
(* What the window is to list is found. *)

(* Where the walk is after a step to a page. *)
LEMMA PassedThen ==
    ASSUME NEW n, connector' = connector, pc' = "page", page' - 1 = n
    PROVE  Passed(kind)' = Reach(n)
<1>1. Passed(kind)' = Reach(page - 1)'
  BY DEF Passed
<1>2. Reach(page - 1)' = Reach(n)
  BY DEF Reach
<1>3. QED
  BY <1>1, <1>2

(* What the user does moves no edge of the walk. *)
LEMMA SameReader ==
    ASSUME UNCHANGED <<connector, reader>>
    PROVE  /\ UNCHANGED <<pc, since, windowEnd, kind, page, ids, start, more, out>>
           /\ Unread' = Unread /\ Reading' = Reading
           /\ \A k : Passed(k)' = Passed(k)
<1>1. UNCHANGED <<pc, since, windowEnd, kind, page, ids, start, more, out>>
  BY DEF reader
<1>2. QED
  BY <1>1 DEF Unread, Reading, Passed, Reach

LEMMA CoveredInit == Init => Covered
<1> SUFFICES ASSUME Init
             PROVE  Covered
  OBVIOUS
<1>1. \A t \in Titles : rows[t] = {}
  BY DEF Init
<1>2. QED
  BY <1>1 DEF Init, Covered, Reading, NothingBehind

LEMMA WatchCovered ==
    ASSUME Shapes, Lists, Covered, NEW t \in Titles, Watch(t)
    PROVE  Covered'
<1>1. /\ UNCHANGED <<connector, clock, cursor, seen, lost>>
      /\ UNCHANGED <<pc, since, windowEnd, kind, page, ids, start, more, out>>
      /\ Unread' = Unread /\ Reading' = Reading /\ Passed(kind)' = Passed(kind)
  BY SameReader DEF Watch, state
<1>2. clock \in Nat /\ cursor \in Nat /\ windowEnd \in Nat /\ cursor <= clock /\ windowEnd <= clock
  BY DEF Shapes, TypeOK
<1>3. slipped \subseteq slipped' /\ (0 < Passed(Kind[t]) /\ Passed(Kind[t]) < place[t]
                                       => RowsOf(t) \subseteq slipped')
  BY DEF Watch
<1>4. \A u \in Titles : Due(u)' = Due(u)
  <2>1. Due(t)' = Due(t)
    BY <1>1, <1>2, WatchPlaces DEF Due
  <2>2. \A u \in Titles \ {t} : Due(u)' = Due(u)
    BY <1>1, WatchPlaces DEF Due
  <2>3. QED
    BY <2>1, <2>2
<1>5. \A u \in Titles : Found(u) => Found(u)'
  BY <1>1, <1>3, <1>4 DEF Found
<1>6. ASSUME NEW u \in Titles, Ahead(u)
      PROVE  Found(u)' \/ Ahead(u)'
  <2>1. Passed(kind) \in Nat /\ kind' = kind
    BY <1>1, PageEdges
  <2>2. CASE Kind[u] > kind \/ (pc = "details" /\ u \in Unread)
    BY <1>1, <2>2 DEF Ahead
  <2>3. CASE Kind[u] = kind /\ place[u] > Passed(kind) /\ (pc = "details" => more)
    <3>1. CASE u = t /\ Passed(kind) > 0
      <4>1. \A w \in Due(u)' : <<u, w>> \in slipped'
        BY <1>3, <1>4, <2>3, <3>1 DEF RowsOf, Due
      <4>2. QED
        BY <4>1 DEF Found
    <3>2. CASE u # t \/ Passed(kind) = 0
      <4>1. place'[u] > Passed(kind)
        BY <2>1, <2>3, <3>2, WatchPlaces
      <4>2. QED
        BY <1>1, <2>3, <4>1 DEF Ahead
    <3>3. QED
      BY <2>1, <3>1, <3>2
  <2>4. QED
    BY <1>6, <2>2, <2>3 DEF Ahead
<1>7. NothingBehind'
  <2>1. ASSUME NEW u \in Titles, NEW w \in rows'[u], w < cursor'
        PROVE  <<u, w>> \in seen' \cup lost'
    <3>1. w \in rows[u]
      BY <1>1, <1>2, <2>1, WatchPlaces
    <3>2. QED
      BY <1>1, <2>1, <3>1 DEF Covered, NothingBehind
  <2>2. QED
    BY <2>1 DEF NothingBehind
<1>8. pc = "record" => out' = EmptyBag \/ \A u \in Titles : Found(u)'
  BY <1>1, <1>5 DEF Covered
<1>9. QED
  BY <1>1, <1>5, <1>6, <1>7, <1>8 DEF Covered

LEMMA UnlistCovered ==
    ASSUME Shapes, Lists, Covered, NEW t \in Titles, Unlist(t)
    PROVE  Covered'
<1>1. /\ UNCHANGED <<connector, clock, cursor, seen, lost>>
      /\ UNCHANGED <<pc, since, windowEnd, kind, page, ids, start, more, out>>
      /\ Unread' = Unread /\ Reading' = Reading /\ Passed(kind)' = Passed(kind)
  BY SameReader DEF Unlist, state
<1>2. /\ slipped \subseteq slipped'
      /\ \A u \in Titles :
            Behind(u, t) /\ place[t] <= Passed(Kind[t]) /\ place[u] = Passed(Kind[t]) + 1
               => RowsOf(u) \subseteq slipped'
  BY DEF Unlist
<1>3. \A u \in Titles \ {t} : Due(u)' = Due(u)
  BY <1>1, UnlistPlaces DEF Due
<1>4. Found(t)'
  BY UnlistPlaces DEF Found, Due
<1>5. \A u \in Titles : Found(u) => Found(u)'
  BY <1>1, <1>2, <1>3, <1>4 DEF Found
<1>6. ASSUME NEW u \in Titles, Ahead(u), u # t
      PROVE  Found(u)' \/ Ahead(u)'
  <2>1. Passed(kind) \in Nat /\ kind' = kind
    BY <1>1, PageEdges
  <2>2. CASE Kind[u] > kind \/ (pc = "details" /\ u \in Unread)
    BY <1>1, <2>2 DEF Ahead
  <2>3. CASE Kind[u] = kind /\ place[u] > Passed(kind) /\ (pc = "details" => more)
    <3>1. CASE Behind(u, t) /\ place[t] <= Passed(kind) /\ place[u] = Passed(kind) + 1
      <4>1. \A w \in Due(u)' : <<u, w>> \in slipped'
        BY <1>2, <1>3, <1>6, <2>3, <3>1 DEF RowsOf, Due, Behind
      <4>2. QED
        BY <4>1 DEF Found
    <3>2. CASE ~(Behind(u, t) /\ place[t] <= Passed(kind) /\ place[u] = Passed(kind) + 1)
      <4>1. place'[u] > Passed(kind)
        BY <1>6, <2>1, <2>3, <3>2, UnlistPlaces DEF Behind
      <4>2. QED
        BY <1>1, <2>3, <4>1 DEF Ahead
    <3>3. QED
      BY <3>1, <3>2
  <2>4. QED
    BY <1>6, <2>2, <2>3 DEF Ahead
<1>7. NothingBehind'
  <2>1. ASSUME NEW u \in Titles, NEW w \in rows'[u], w < cursor'
        PROVE  <<u, w>> \in seen' \cup lost'
    <3>1. w \in rows[u]
      BY <2>1, UnlistPlaces
    <3>2. QED
      BY <1>1, <2>1, <3>1 DEF Covered, NothingBehind
  <2>2. QED
    BY <2>1 DEF NothingBehind
<1>8. pc = "record" => out' = EmptyBag \/ \A u \in Titles : Found(u)'
  BY <1>1, <1>5 DEF Covered
<1>9. QED
  BY <1>1, <1>4, <1>5, <1>6, <1>7, <1>8 DEF Covered

(* The watches of t that the window is to list are in R or among S. *)
FoundIn(t, R, S) == \A w \in Due(t) : <<t, w>> \in BagToSet(R) \cup S

(* Watches that are due are those of a title of the list. *)
LEMMA DueIsListed ==
    ASSUME Shapes, Lists, NEW t \in Titles, Due(t) # {}
    PROVE  /\ place[t] \in Nat \ {0}
           /\ t \in Listing(Kind[t], since)
<1>1. PICK w \in rows[t] : since <= w
  BY DEF Due
<1>2. place[t] > 0 /\ place[t] \in Nat
  BY <1>1 DEF Lists, Shapes, TypeOK
<1>3. Keep(w, since)
  BY <1>1 DEF Keep
<1>4. QED
  BY <1>1, <1>2, <1>3 DEF Listing

(* A page without titles is the end of the list. *)
LEMMA EmptyPageIsLast ==
    ASSUME Shapes, Lists, Page(Listing(kind, since), page) = {},
           NEW t \in Titles, Kind[t] = kind, Due(t) # {}
    PROVE  place[t] <= Reach(page - 1)
<1> SUFFICES ASSUME place[t] > Reach(page - 1)
             PROVE  FALSE
  BY DueIsListed, PageEdges
<1> DEFINE n == Reach(page - 1) + 1
<1>1. n \in 1 .. place[t]
  BY DueIsListed, PageEdges
<1>2. PICK u \in Titles : Kind[u] = Kind[t] /\ place[u] = n
  BY <1>1 DEF Lists
<1>3. n \in Nat \ {0} /\ Reach(page - 1) < n /\ n <= Reach(page)
  BY PageEdges
<1>4. u \in Listing(kind, since)
  <2>1. CASE connector.name # "trakt"
    BY <1>2, <1>3, <2>1 DEF Listing
  <2>2. CASE connector.name = "trakt"
    <3>1. PICK w \in rows[t] : since <= w /\ w \in Nat
      BY DEF Due, Shapes, TypeOK
    <3>2. PICK v \in rows[u] : v \in Nat
      BY <1>2, <1>3 DEF Lists, Shapes, TypeOK
    <3>3. CASE n = place[t]
      <4>1. t \in Listing(kind, since)
        BY DueIsListed
      <4>2. QED
        BY <1>3, <3>3, <4>1 DEF Page
    <3>4. CASE n # place[t]
      <4>1. 0 < place[u] /\ place[u] < place[t]
        BY <1>1, <1>2, <1>3, <3>4, DueIsListed
      <4>2. w <= v
        BY <1>2, <2>2, <4>1 DEF Lists
      <4>3. Keep(v, since)
        BY <3>1, <3>2, <4>2 DEF Keep, Shapes, TypeOK
      <4>4. QED
        BY <1>2, <1>3, <3>2, <4>3 DEF Listing
    <3>5. QED
      BY <3>3, <3>4
  <2>3. QED
    BY <2>1, <2>2
<1>5. u \in Page(Listing(kind, since), page)
  BY <1>2, <1>3, <1>4 DEF Page
<1>6. QED
  BY <1>5

(* The end of a list: the next one begins, or the window is complete. *)
LEMMA NextKindCovered ==
    ASSUME Shapes, Lists, Covered, Reading, NEW read, NextKind(read),
           UNCHANGED <<connector, clock, service, state>>,
           BagToSet(out) \subseteq BagToSet(read), slipped \subseteq slipped',
           \A t \in Titles : Kind[t] = kind => FoundIn(t, read, slipped')
    PROVE  Covered'
<1>1. /\ since' = since /\ windowEnd' = windowEnd /\ rows' = rows /\ place' = place
      /\ out' = read /\ page' = 1
      /\ connector' = connector /\ cursor' = cursor /\ seen' = seen /\ lost' = lost
  BY DEF NextKind, service, state
<1>2. \A t \in Titles : Kind[t] \in {1, 2}
  BY HistoryAssumption DEF Kinds
<1>3. kind \in {1, 2}
  BY DEF Shapes, TypeOK, Kinds
<1>4. \A t \in Titles : Due(t)' = Due(t)
  BY <1>1 DEF Due
<1>5. ASSUME NEW t \in Titles, Kind[t] <= kind
      PROVE  Found(t)'
  <2>1. CASE Kind[t] = kind
    BY <1>1, <1>4, <2>1 DEF Found, FoundIn
  <2>2. CASE Kind[t] # kind
    <3>1. ~Ahead(t)
      BY <1>2, <1>3, <1>5, <2>2 DEF Ahead, Unread, Shapes
    <3>2. Found(t)
      BY <3>1 DEF Covered
    <3>3. QED
      BY <1>1, <1>4, <3>2 DEF Found
  <2>3. QED
    BY <2>1, <2>2
<1>6. NothingBehind'
  BY <1>1 DEF Covered, NothingBehind
<1>7. CASE kind = 1
  <2>1. pc' = "page" /\ kind' = 2
    BY <1>7 DEF NextKind
  <2>2. Passed(kind)' = 0
    <3>1. Reach(0) = 0
      BY ReachStep DEF Shapes, TypeOK
    <3>2. page' - 1 = 0
      BY <1>1
    <3>3. QED
      BY <1>1, <2>1, <3>1, <3>2, PassedThen
  <2>3. ASSUME NEW t \in Titles, Kind[t] = 2
        PROVE  Found(t)' \/ Ahead(t)'
    <3>1. CASE Due(t) = {}
      BY <1>4, <3>1 DEF Found
    <3>2. CASE Due(t) # {}
      <4>1. place'[t] > 0
        BY <1>1, <3>2, DueIsListed
      <4>2. QED
        BY <2>1, <2>2, <2>3, <4>1 DEF Ahead
    <3>3. QED
      BY <3>1, <3>2
  <2>4. QED
    BY <1>2, <1>5, <1>6, <1>7, <2>1, <2>3 DEF Covered
<1>8. CASE kind = 2
  <2>1. pc' = "record"
    BY <1>8 DEF NextKind
  <2>2. \A t \in Titles : Found(t)'
    BY <1>2, <1>5, <1>8
  <2>3. QED
    BY <1>6, <2>1, <2>2 DEF Covered, Reading
<1>9. QED
  BY <1>3, <1>7, <1>8

(* The end of a page that is not the last. *)
LEMMA NextPageCovered ==
    ASSUME Shapes, Lists, Covered, Reading, NEW read, NextPage(read),
           UNCHANGED <<connector, clock, service, state>>,
           BagToSet(out) \subseteq BagToSet(read), slipped \subseteq slipped',
           \A t \in Titles : Kind[t] = kind => FoundIn(t, read, slipped') \/ place[t] > Reach(page)
    PROVE  Covered'
<1>1. /\ since' = since /\ windowEnd' = windowEnd /\ rows' = rows /\ place' = place
      /\ out' = read /\ page' = page + 1 /\ kind' = kind /\ pc' = "page"
      /\ connector' = connector /\ cursor' = cursor /\ seen' = seen /\ lost' = lost
  BY DEF NextPage, service, state
<1>2. \A t \in Titles : Due(t)' = Due(t)
  BY <1>1 DEF Due
<1>3. Passed(kind)' = Reach(page)
  <2>1. page' - 1 = page
    BY <1>1, PageEdges
  <2>2. QED
    BY <1>1, <2>1, PassedThen
<1>4. ASSUME NEW t \in Titles
      PROVE  Found(t)' \/ Ahead(t)'
  <2>1. CASE Kind[t] = kind /\ FoundIn(t, read, slipped')
    BY <1>1, <1>2, <2>1 DEF Found, FoundIn
  <2>2. CASE Kind[t] = kind /\ place[t] > Reach(page)
    BY <1>1, <1>3, <2>2 DEF Ahead
  <2>3. CASE Kind[t] # kind /\ Found(t)
    BY <1>1, <1>2, <2>3 DEF Found
  <2>4. CASE Kind[t] # kind /\ Ahead(t)
    <3>1. Kind[t] > kind
      BY <2>4 DEF Ahead, Unread, Shapes
    <3>2. QED
      BY <1>1, <3>1 DEF Ahead
  <2>5. QED
    BY <2>1, <2>2, <2>3, <2>4 DEF Covered
<1>5. NothingBehind'
  BY <1>1 DEF Covered, NothingBehind
<1>6. QED
  BY <1>1, <1>4, <1>5 DEF Covered

(* A failing History lists nothing, so that the cursor stays. *)
LEMMA AbortCovered ==
    ASSUME Covered, Abort, UNCHANGED <<service, state>>
    PROVE  Covered'
<1>1. pc' = "idle" \/ (pc' = "record" /\ out' = EmptyBag)
  BY DEF Abort, Return, OnError
<1>2. NothingBehind'
  BY DEF Covered, NothingBehind, service, state
<1>3. QED
  BY <1>1, <1>2 DEF Covered, Reading

LEMMA OpenCovered ==
    ASSUME Shapes, Lists, Covered, Open
    PROVE  Covered'
<1>1. /\ pc = "idle" /\ pc' = "page" /\ kind' = kind /\ page' = page /\ kind = 1 /\ page = 1
      /\ UNCHANGED <<connector, rows, place, cursor, seen, lost>>
  BY DEF Open, Shapes, service, state
<1>2. Passed(kind)' = 0
  <2>1. Reach(0) = 0
    BY ReachStep DEF Shapes, TypeOK
  <2>2. page' - 1 = 0
    BY <1>1
  <2>3. QED
    BY <1>1, <2>1, <2>2, PassedThen
<1>3. ASSUME NEW t \in Titles
      PROVE  Found(t)' \/ Ahead(t)'
  <2>1. CASE rows[t] = {}
    BY <1>1, <2>1 DEF Found, Due
  <2>2. CASE rows[t] # {}
    <3>1. place'[t] > 0
      BY <1>1, <2>2 DEF Lists
    <3>2. Kind[t] \in {1, 2}
      BY HistoryAssumption DEF Kinds
    <3>3. QED
      BY <1>1, <1>2, <3>1, <3>2 DEF Ahead
  <2>3. QED
    BY <2>1, <2>2
<1>4. NothingBehind'
  BY <1>1 DEF Covered, NothingBehind
<1>5. QED
  BY <1>1, <1>3, <1>4 DEF Covered

LEMMA TraktPageCovered ==
    ASSUME Shapes, Lists, Covered, TraktPage
    PROVE  Covered'
<1> DEFINE entries == Page(Listing(kind, since), page)
           read == out (+) Watches(entries)
<1>1. UNCHANGED <<connector, clock, service, state>> /\ pc = "page" /\ Reading
  BY DEF TraktPage, Reading
<1>2. ASSUME NEW t \in Titles, Kind[t] = kind
      PROVE  Found(t) \/ place[t] > Reach(page - 1)
  <2>1. ~(Kind[t] > kind)
    BY <1>2 DEF Shapes, TypeOK, Kinds
  <2>2. QED
    BY <1>1, <2>1, PassedCases DEF Covered, Ahead
<1>3. CASE entries = {} /\ NextKind(out) /\ UNCHANGED slipped
  <2>1. ASSUME NEW t \in Titles, Kind[t] = kind
        PROVE  FoundIn(t, out, slipped')
    <3>1. CASE Found(t)
      BY <1>3, <3>1 DEF Found, FoundIn
    <3>2. CASE ~Found(t)
      <4>1. Due(t) # {}
        BY <3>2 DEF Found
      <4>2. place[t] <= Reach(page - 1)
        BY <1>3, <2>1, <4>1, EmptyPageIsLast
      <4>3. QED
        BY <1>2, <2>1, <3>2, <4>1, <4>2, DueIsListed, PageEdges
    <3>3. QED
      BY <3>1, <3>2
  <2>2. QED
    BY <1>1, <1>3, <2>1, NextKindCovered
<1>4. CASE Abort
  BY <1>1, <1>4, AbortCovered
<1>5. CASE NextPage(read) /\ UNCHANGED slipped
  <2>1. entries \subseteq Titles
    BY DEF Page, Listing
  <2>2. BagToSet(read) = BagToSet(out) \cup RowsOfAll(entries)
    BY <2>1, WatchesAdd
  <2>3. ASSUME NEW t \in Titles, Kind[t] = kind, ~(place[t] > Reach(page))
        PROVE  FoundIn(t, read, slipped')
    <3>1. CASE Found(t)
      BY <1>5, <2>2, <3>1 DEF Found, FoundIn
    <3>2. CASE ~Found(t)
      <4>1. Due(t) # {}
        BY <3>2 DEF Found
      <4>2. t \in entries
        BY <1>2, <2>3, <3>2, <4>1, DueIsListed, PageEdges DEF Page
      <4>3. \A w \in Due(t) : <<t, w>> \in BagToSet(read)
        BY <2>1, <2>2, <4>2, RowsOfAllAre DEF Due
      <4>4. QED
        BY <4>3 DEF FoundIn
    <3>3. QED
      BY <3>1, <3>2
  <2> HIDE DEF read
  <2>4. BagToSet(out) \subseteq BagToSet(read)
    BY <2>2
  <2>5. QED
    BY <1>1, <1>5, <2>3, <2>4, NextPageCovered
<1>6. QED
  BY <1>3, <1>4, <1>5 DEF TraktPage

LEMMA RyotPageCovered ==
    ASSUME Shapes, Lists, Covered, RyotPage
    PROVE  Covered'
<1> DEFINE titles == Listing(kind, since)
           P == Page(titles, page)
<1>1. /\ UNCHANGED <<connector, clock, service, state, slipped>>
      /\ pc = "page" /\ Reading /\ connector.name = "ryot"
  BY DEF RyotPage, Reading
<1>2. ASSUME NEW t \in Titles, Kind[t] = kind
      PROVE  Found(t) \/ place[t] > Reach(page - 1)
  <2>1. ~(Kind[t] > kind)
    BY <1>2 DEF Shapes, TypeOK, Kinds
  <2>2. QED
    BY <1>1, <2>1, PassedCases DEF Covered, Ahead
<1>3. CASE P = {} /\ NextKind(out)
  <2>1. ASSUME NEW t \in Titles, Kind[t] = kind
        PROVE  FoundIn(t, out, slipped')
    <3>1. CASE Found(t)
      BY <1>1, <3>1 DEF Found, FoundIn
    <3>2. CASE ~Found(t)
      <4>1. Due(t) # {}
        BY <3>2 DEF Found
      <4>2. place[t] <= Reach(page - 1)
        BY <1>3, <2>1, <4>1, EmptyPageIsLast
      <4>3. QED
        BY <1>2, <2>1, <3>2, <4>1, <4>2, DueIsListed, PageEdges
    <3>3. QED
      BY <3>1, <3>2
  <2>2. QED
    BY <1>1, <1>3, <2>1, NextKindCovered
<1>4. CASE ~(P = {} /\ NextKind(out))
  <2>1. /\ pc' = "details" /\ start' = 0
        /\ ids' = [t \in P |-> place[t] - Reach(page - 1)]
        /\ more' = (\E t \in titles : place[t] > Reach(page))
        /\ UNCHANGED <<since, windowEnd, kind, page, out>>
    BY <1>4 DEF RyotPage
  <2>2. /\ rows' = rows /\ place' = place /\ connector' = connector /\ slipped' = slipped
        /\ cursor' = cursor /\ seen' = seen /\ lost' = lost
    BY <1>1 DEF service, state
  <2>3. Passed(kind)' = Reach(page)
    <3>1. Passed(kind)' = Reach(page)'
      BY <2>1 DEF Passed
    <3>2. QED
      BY <2>1, <2>2, <3>1 DEF Reach
  <2>4. ASSUME NEW t \in Titles
        PROVE  Found(t)' \/ Ahead(t)'
    <3>1. CASE Found(t)
      BY <2>1, <2>2, <3>1 DEF Found, Due
    <3>2. CASE Due(t) = {}
      BY <2>1, <2>2, <3>2 DEF Found, Due
    <3>3. CASE Kind[t] # kind /\ ~Found(t)
      <4>1. Kind[t] > kind
        BY <1>1, <3>3 DEF Covered, Ahead
      <4>2. QED
        BY <2>1, <4>1 DEF Ahead
    <3>4. CASE Kind[t] = kind /\ ~Found(t) /\ Due(t) # {}
      <4>1. t \in titles /\ place[t] \in Nat /\ place[t] > Reach(page - 1)
        BY <1>2, <3>4, DueIsListed
      <4>2. CASE place[t] > Reach(page)
        <5>1. more'
          BY <2>1, <4>1, <4>2
        <5>2. QED
          BY <2>1, <2>2, <2>3, <3>4, <4>2, <5>1 DEF Ahead
      <4>3. CASE ~(place[t] > Reach(page))
        <5>1. t \in P
          BY <4>1, <4>3, PageEdges DEF Page
        <5> HIDE DEF P
        <5>2. t \in DOMAIN ids' /\ ids'[t] > start'
          BY <2>1, <4>1, <5>1, PageEdges
        <5>3. QED
          BY <2>1, <5>2 DEF Ahead, Unread
      <4>4. QED
        BY <4>2, <4>3
    <3>5. QED
      BY <3>1, <3>2, <3>3, <3>4
  <2>5. NothingBehind'
    BY <2>2 DEF Covered, NothingBehind
  <2>6. QED
    BY <2>1, <2>4, <2>5 DEF Covered
<1>5. QED
  BY <1>3, <1>4

LEMMA ReadDetailsCovered ==
    ASSUME Shapes, Lists, Covered, ReadDetails
    PROVE  Covered'
<1>1. PICK silent \in SUBSET Chunk :
        LET read == out (+) Watches(Chunk \ silent) IN
           \/ LastChunk /\ more /\ Truncates /\ Abort
           \/ /\ slipped' = slipped \cup UNION {RowsOf(t) : t \in silent}
              /\ \/ /\ ~LastChunk
                    /\ start' = NextStart /\ out' = read
                    /\ UNCHANGED <<pc, since, windowEnd, kind, page, ids, more, arrivals>>
                 \/ LastChunk /\ more /\ ~Truncates /\ NextPage(read)
                 \/ LastChunk /\ ~more /\ NextKind(read)
  BY DEF ReadDetails
<1> DEFINE S == Chunk \ silent
           read == out (+) Watches(S)
<1>2. UNCHANGED <<connector, clock, service, state>> /\ pc = "details" /\ Reading
  BY DEF ReadDetails, Reading
<1>3. S \subseteq Titles /\ silent \subseteq Titles /\ Chunk = S \cup silent
  BY <1>1 DEF Chunk, Unread, Shapes, TypeOK
<1>4. BagToSet(read) = BagToSet(out) \cup RowsOfAll(S)
  BY <1>3, WatchesAdd
<1>5. CASE Abort
  BY <1>2, <1>5, AbortCovered
<1>6. CASE ~Abort
  <2>1. slipped' = slipped \cup RowsOfAll(silent)
    BY <1>1, <1>6 DEF RowsOfAll
  <2>2. ASSUME NEW t \in Chunk
        PROVE  FoundIn(t, read, slipped')
    BY <1>3, <1>4, <2>1, RowsOfAllAre DEF FoundIn, Due
  <2>3. ASSUME NEW t \in Titles, Found(t)
        PROVE  FoundIn(t, read, slipped')
    BY <1>4, <2>1, <2>3 DEF Found, FoundIn
  <2>4. ASSUME NEW t \in Titles, Kind[t] = kind
        PROVE  Found(t) \/ t \in Unread \/ (more /\ place[t] > Reach(page))
    <3>1. ~(Kind[t] > kind)
      BY <2>4 DEF Shapes, TypeOK, Kinds
    <3>2. QED
      BY <1>2, <3>1, PassedCases DEF Covered, Ahead
  <2>5. CASE LastChunk /\ (NextPage(read) \/ (~more /\ NextKind(read)))
    <3>1. Unread \subseteq Chunk
      BY <2>5 DEF LastChunk, NextStart, Unread, Chunk
    <3>2. BagToSet(out) \subseteq BagToSet(read) /\ slipped \subseteq slipped'
      BY <1>4, <2>1
    <3> HIDE DEF read
    <3>3. CASE NextPage(read)
      <4>1. \A t \in Titles : Kind[t] = kind => FoundIn(t, read, slipped') \/ place[t] > Reach(page)
        BY <2>2, <2>3, <2>4, <3>1
      <4>2. QED
        BY <1>2, <3>2, <3>3, <4>1, NextPageCovered
    <3>4. CASE ~more /\ NextKind(read)
      <4>1. \A t \in Titles : Kind[t] = kind => FoundIn(t, read, slipped')
        BY <2>2, <2>3, <2>4, <3>1, <3>4
      <4>2. QED
        BY <1>2, <3>2, <3>4, <4>1, NextKindCovered
    <3>5. QED
      BY <2>5, <3>3, <3>4
  <2>6. CASE /\ start' = NextStart /\ out' = read
             /\ UNCHANGED <<pc, since, windowEnd, kind, page, ids, more, arrivals>>
    <3>1. /\ rows' = rows /\ place' = place /\ connector' = connector
          /\ cursor' = cursor /\ seen' = seen /\ lost' = lost
      BY <1>2 DEF service, state
    <3>2. \A t \in Titles : FoundIn(t, read, slipped') => Found(t)'
      BY <2>6, <3>1 DEF FoundIn, Found, Due
    <3>3. Unread \subseteq Chunk \cup Unread'
      <4>1. ASSUME NEW t \in Unread, t \notin Chunk
            PROVE  t \in Unread'
        <5>1. ~(ids[t] <= start + connector.chunk) /\ t \in DOMAIN ids
          BY <4>1 DEF Unread, Chunk
        <5>2. ids[t] \in Nat /\ start \in Nat /\ connector.chunk \in Nat
          BY <5>1, PageEdges DEF Shapes, TypeOK
        <5>3. ids'[t] > start' /\ t \in DOMAIN ids'
          BY <2>6, <5>1, <5>2 DEF NextStart
        <5>4. QED
          BY <5>3 DEF Unread
      <4>2. QED
        BY <4>1
    <3>4. Passed(kind)' = Passed(kind)
      BY <2>6, <3>1 DEF Passed, Reach
    <3>5. ASSUME NEW t \in Titles, ~Found(t), t \notin Chunk
          PROVE  Ahead(t)'
      <4>1. Ahead(t)
        BY <1>2, <3>5 DEF Covered
      <4>2. CASE t \in Unread
        BY <1>2, <2>6, <3>3, <3>5, <4>2 DEF Ahead
      <4>3. CASE t \notin Unread
        BY <2>6, <3>1, <3>4, <4>1, <4>3 DEF Ahead
      <4>4. QED
        BY <4>2, <4>3
    <3>6. NothingBehind'
      BY <3>1 DEF Covered, NothingBehind
    <3>7. \A t \in Titles : Found(t)' \/ Ahead(t)'
      BY <2>2, <2>3, <3>2, <3>5
    <3>8. QED
      BY <1>2, <2>6, <3>6, <3>7 DEF Covered
  <2>7. QED
    BY <1>1, <1>6, <2>5, <2>6
<1>7. QED
  BY <1>5, <1>6

LEMMA RecordCovered ==
    ASSUME Shapes, Covered, Record
    PROVE  Covered'
<1> DEFINE window == {r \in BagToSet(out) : Keep(r[2], since)}
<1>1. pc = "record" /\ pc' = "idle" /\ rows' = rows
  BY DEF Record, Return, service
<1>2. CASE window \subseteq seen
  <2>1. UNCHANGED <<cursor, seen, lost>>
    BY <1>2 DEF Record, state
  <2>2. NothingBehind'
    BY <1>1, <2>1 DEF Covered, NothingBehind
  <2>3. QED
    BY <1>1, <2>2 DEF Covered, Reading
<1>3. CASE ~(window \subseteq seen)
  <2>1. /\ seen' = seen \cup window /\ cursor' = windowEnd
        /\ lost' = lost \cup {r \in slipped \ seen' : r[2] < windowEnd}
    BY <1>3 DEF Record, Advance
  <2>2. \A t \in Titles : Found(t)
    <3>1. out # EmptyBag
      BY <1>3, NoRows
    <3>2. QED
      BY <1>1, <3>1 DEF Covered
  <2>3. ASSUME NEW t \in Titles, NEW w \in rows[t], w < windowEnd
        PROVE  <<t, w>> \in seen' \cup lost'
    <3>1. w \in Nat /\ since \in Nat /\ since = cursor /\ <<t, w>>[2] = w
      BY <1>1 DEF Shapes, TypeOK
    <3>2. CASE w < cursor
      BY <2>1, <3>2 DEF Covered, NothingBehind
    <3>3. CASE ~(w < cursor)
      <4>1. since <= w
        BY <3>1, <3>3
      <4>2. Keep(w, since)
        BY <4>1 DEF Keep
      <4>3. <<t, w>> \in BagToSet(out) \cup slipped
        BY <2>2, <2>3, <4>1 DEF Found, Due
      <4>4. QED
        BY <2>1, <2>3, <3>1, <4>2, <4>3
    <3>4. QED
      BY <3>2, <3>3
  <2>4. NothingBehind'
    BY <1>1, <2>1, <2>3 DEF NothingBehind
  <2>5. QED
    BY <1>1, <2>4 DEF Covered, Reading
<1>4. QED
  BY <1>2, <1>3

LEMMA CoveredStep == Shapes /\ Lists /\ Covered /\ [Next]_vars => Covered'
<1> SUFFICES ASSUME Shapes, Lists, Covered, [Next]_vars
             PROVE  Covered'
  OBVIOUS
<1>1. CASE Tick \/ UNCHANGED vars
  <2>1. UNCHANGED <<connector, service, state, reader, slipped>>
    BY <1>1 DEF Tick, vars
  <2>2. /\ UNCHANGED <<pc, since, windowEnd, kind, page, ids, start, more, out>>
        /\ Unread' = Unread /\ Reading' = Reading /\ Passed(kind)' = Passed(kind)
    BY <2>1, SameReader
  <2>3. UNCHANGED <<place, rows, cursor, seen, lost, slipped>>
    BY <2>1 DEF service, state
  <2>4. \A t \in Titles : (Found(t) => Found(t)') /\ (Ahead(t) => Ahead(t)')
    BY <2>2, <2>3 DEF Found, Ahead, Due
  <2>5. NothingBehind'
    BY <2>3 DEF Covered, NothingBehind
  <2>6. QED
    BY <2>2, <2>4, <2>5 DEF Covered
<1>2. ASSUME NEW t \in Titles, Watch(t) \/ Unlist(t)
      PROVE  Covered'
  BY <1>2, WatchCovered, UnlistCovered
<1>3. CASE RequestFails
  BY <1>3, AbortCovered DEF RequestFails
<1>4. CASE Run
  BY <1>3, <1>4, OpenCovered, TraktPageCovered, RyotPageCovered, ReadDetailsCovered,
     RecordCovered DEF Run
<1>5. QED
  BY <1>1, <1>2, <1>4 DEF Next

(* For any lists, page sizes, caps and failures, what lies before the      *)
(* cursor has been recorded, or is a row that a removal moved across the   *)
(* walk, that a re-watch took out of its way, or that Ryot gave no details *)
(* of: neither the edge between two pages (trakt/client.go:151-168,        *)
(* ryot.go:391-411) or two chunks (ryot.go:489-491), nor a failing         *)
(* request, nor what arrives during the run lets the cursor pass anything  *)
(* else (engine.go:106-110).                                               *)
THEOREM NothingIsPassedOver == Spec => []NothingBehind
<1> DEFINE IInv == Shapes /\ Lists /\ Covered
<1>1. Init => IInv
  BY ShapesInit, ListsInit, CoveredInit
<1>2. IInv /\ [Next]_vars => IInv'
  BY ShapesStep, ListsStep, CoveredStep
<1>3. IInv => NothingBehind
  BY DEF Covered
<1>4. QED
  BY <1>1, <1>2, <1>3, PTL DEF Spec

-----------------------------------------------------------------------------
(* What the window lists more than once. *)

LEMMA CopiesAreNat ==
    ASSUME Shapes
    PROVE  \A r : Copies(r) \in Nat
BY DEF Shapes, TypeOK, IsABag, BagToSet, Copies

LEMMA NoCopies ==
    ASSUME out' = EmptyBag
    PROVE  \A r : Copies(r)' = 0
BY NoRows DEF Copies

LEMMA SameCopies ==
    ASSUME out' = out
    PROVE  \A r : Copies(r)' = Copies(r)
BY DEF Copies

(* Reading some titles adds at most one copy of a row, and only to theirs. *)
LEMMA CopiesAfter ==
    ASSUME Shapes, NEW S, S \subseteq Titles, out' = out (+) Watches(S)
    PROVE  \A t, w : \/ Copies(<<t, w>>)' = Copies(<<t, w>>)
                     \/ t \in S /\ Copies(<<t, w>>)' = Copies(<<t, w>>) + 1
<1> SUFFICES ASSUME NEW t, NEW w
             PROVE  \/ Copies(<<t, w>>)' = Copies(<<t, w>>)
                    \/ t \in S /\ Copies(<<t, w>>)' = Copies(<<t, w>>) + 1
  OBVIOUS
<1> DEFINE r == <<t, w>>
<1>1. Copies(r) \in Nat
  BY CopiesAreNat
<1>2. BagToSet(out') = BagToSet(out) \cup RowsOfAll(S)
  BY WatchesAdd
<1>3. r \in BagToSet(out') => out'[r] = Copies(r) + (IF r \in RowsOfAll(S) THEN 1 ELSE 0)
  BY WatchesAdd
<1>4. r \in RowsOfAll(S) => t \in S
  BY RowsOfAllAre
<1>5. CASE r \in BagToSet(out')
  <2>1. Copies(r)' = out'[r]
    BY <1>5 DEF Copies
  <2>2. QED
    BY <1>1, <1>3, <1>4, <1>5, <2>1
<1>6. CASE r \notin BagToSet(out')
  BY <1>2, <1>6 DEF Copies
<1>7. QED
  BY <1>5, <1>6

LEMMA PaidEmpty ==
    ASSUME out' = EmptyBag, arrivals' \in Nat, pc' # "details"
    PROVE  Paid'
BY NoCopies DEF Paid

LEMMA PaidInit == Init => Paid
<1> SUFFICES ASSUME Init
             PROVE  Paid
  OBVIOUS
<1>1. \A r : Copies(r) = 0
  BY NoRows DEF Init, Copies
<1>2. QED
  BY <1>1 DEF Init, Paid, Reading

LEMMA WatchPaid ==
    ASSUME Shapes, Paid, NEW t \in Titles, Watch(t)
    PROVE  Paid'
<1>1. /\ UNCHANGED <<pc, kind, out>>
      /\ Unread' = Unread /\ Reading' = Reading /\ Passed(kind)' = Passed(kind)
  BY SameReader DEF Watch
<1>2. /\ \A r : Copies(r)' = Copies(r) /\ Copies(r) \in Nat
      /\ arrivals \in Nat /\ Passed(kind) \in Nat
  BY <1>1, SameCopies, CopiesAreNat, PageEdges DEF Shapes, TypeOK
<1>3. CASE pc = "idle"
  <2>1. out' = EmptyBag /\ arrivals' \in Nat /\ pc' # "details"
    BY <1>1, <1>2, <1>3 DEF Watch, Shapes
  <2>2. QED
    BY <2>1, PaidEmpty
<1>4. CASE pc # "idle"
  <2>1. arrivals' = arrivals + 1
    BY <1>4 DEF Watch
  <2>2. \A u \in Titles : place[u] \in Nat /\ place'[u] \in Nat /\ (place'[u] = 1 \/ place'[u] <= place[u] + 1)
    BY WatchPlaces
  <2>3. ASSUME NEW u \in Titles, NEW w \in Nat
        PROVE  LET c == Copies(<<u, w>>) IN
               /\ c <= 1 + arrivals'
               /\ Reading /\ Kind[u] > kind => c = 0
               /\ Reading /\ Kind[u] = kind /\ c > 0 =>
                     place'[u] + c <= Passed(kind) + 1 + arrivals'
               /\ pc = "details" /\ u \in Unread =>
                     /\ c <= arrivals'
                     /\ place'[u] + c <= Passed(kind) + arrivals'
    <3> DEFINE c == Copies(<<u, w>>)
    <3>1. /\ c <= 1 + arrivals
          /\ Reading /\ Kind[u] > kind => c = 0
          /\ Reading /\ Kind[u] = kind /\ c > 0 =>
                place[u] + c <= Passed(kind) + 1 + arrivals
          /\ pc = "details" /\ u \in Unread =>
                /\ c <= arrivals
                /\ place[u] + c <= Passed(kind) + arrivals
      BY DEF Paid
    <3>2. c \in Nat
      BY <1>2
    <3> HIDE DEF c
    <3>3. /\ c <= 1 + arrivals'
          /\ Reading /\ Kind[u] > kind => c = 0
          /\ Reading /\ Kind[u] = kind /\ c > 0 =>
                place'[u] + c <= Passed(kind) + 1 + arrivals'
          /\ pc = "details" /\ u \in Unread =>
                /\ c <= arrivals'
                /\ place'[u] + c <= Passed(kind) + arrivals'
      BY <1>2, <2>1, <2>2, <3>1, <3>2
    <3>4. QED
      BY <3>3 DEF c
  <2>4. QED
    BY <1>1, <1>2, <2>3 DEF Paid
<1>5. QED
  BY <1>3, <1>4

LEMMA UnlistPaid ==
    ASSUME Shapes, Lists, Paid, NEW t \in Titles, Unlist(t)
    PROVE  Paid'
<1>1. /\ UNCHANGED <<pc, kind, out, arrivals>>
      /\ Unread' = Unread /\ Reading' = Reading /\ Passed(kind)' = Passed(kind)
  BY SameReader DEF Unlist
<1>2. /\ \A r : Copies(r)' = Copies(r) /\ Copies(r) \in Nat
      /\ arrivals \in Nat /\ Passed(kind) \in Nat
  BY <1>1, SameCopies, CopiesAreNat, PageEdges DEF Shapes, TypeOK
<1>3. \A u \in Titles : place[u] \in Nat /\ place'[u] \in Nat /\ place'[u] <= place[u]
  BY UnlistPlaces
<1>4. ASSUME NEW u \in Titles, NEW w \in Nat
      PROVE  LET c == Copies(<<u, w>>) IN
             /\ Reading /\ Kind[u] = kind /\ c > 0 =>
                   place'[u] + c <= Passed(kind) + 1 + arrivals
             /\ pc = "details" /\ u \in Unread =>
                   place'[u] + c <= Passed(kind) + arrivals
  <2> DEFINE c == Copies(<<u, w>>)
  <2>1. /\ Reading /\ Kind[u] = kind /\ c > 0 =>
              place[u] + c <= Passed(kind) + 1 + arrivals
        /\ pc = "details" /\ u \in Unread =>
              place[u] + c <= Passed(kind) + arrivals
    BY DEF Paid
  <2>2. c \in Nat
    BY <1>2
  <2> HIDE DEF c
  <2>3. /\ Reading /\ Kind[u] = kind /\ c > 0 =>
              place'[u] + c <= Passed(kind) + 1 + arrivals
        /\ pc = "details" /\ u \in Unread =>
              place'[u] + c <= Passed(kind) + arrivals
    BY <1>2, <1>3, <2>1, <2>2
  <2>4. QED
    BY <2>3 DEF c
<1>5. QED
  BY <1>1, <1>2, <1>4 DEF Paid

(* At the end of a list, none of the next one has been read. *)
LEMMA NextKindPaid ==
    ASSUME Shapes, Paid, NEW read, NextKind(read),
           \A t \in Titles : \A w \in Nat :
              /\ Copies(<<t, w>>)' <= 1 + arrivals
              /\ Kind[t] > kind => Copies(<<t, w>>)' = 0
    PROVE  Paid'
<1>1. \A t \in Titles : Kind[t] \in {1, 2}
  BY HistoryAssumption DEF Kinds
<1>2. arrivals' = arrivals
  BY DEF NextKind
<1>3. (kind = 1 /\ kind' = 2 /\ pc' = "page") \/ pc' = "record"
  BY DEF NextKind
<1>4. CASE pc' = "record"
  BY <1>2, <1>4 DEF Paid, Reading
<1>5. CASE kind = 1 /\ kind' = 2 /\ pc' = "page"
  <2>1. \A t \in Titles : ~(Kind[t] > kind') /\ (Kind[t] = kind' => Kind[t] > kind)
    BY <1>1, <1>5
  <2>2. \A t \in Titles : \A w \in Nat : Kind[t] = kind' => ~(Copies(<<t, w>>)' > 0)
    BY <2>1
  <2>3. QED
    BY <1>2, <1>5, <2>1, <2>2 DEF Paid
<1>6. QED
  BY <1>3, <1>4, <1>5

LEMMA NextPagePaid ==
    ASSUME Shapes, Paid, NEW read, NextPage(read), connector' = connector, place' = place,
           \A t \in Titles : \A w \in Nat :
              /\ Copies(<<t, w>>)' <= 1 + arrivals
              /\ Kind[t] > kind => Copies(<<t, w>>)' = 0
              /\ Kind[t] = kind /\ Copies(<<t, w>>)' > 0 =>
                    place[t] + Copies(<<t, w>>)' <= Reach(page) + 1 + arrivals
    PROVE  Paid'
<1>1. /\ arrivals' = arrivals /\ kind' = kind /\ pc' = "page" /\ page' = page + 1
  BY DEF NextPage
<1>2. Passed(kind)' = Reach(page)
  BY <1>1, PageEdges, PassedThen
<1>3. QED
  BY <1>1, <1>2 DEF Paid

LEMMA AbortPaid ==
    ASSUME Shapes, Abort
    PROVE  Paid'
<1>1. out' = EmptyBag /\ arrivals' \in Nat /\ pc' # "details"
  BY DEF Abort, Return, OnError, Shapes, TypeOK
<1>2. QED
  BY <1>1, PaidEmpty

(* A title still to be listed was read only as often as it was pushed back. *)
LEMMA UnreadCopies ==
    ASSUME Shapes, Paid, pc = "page", NEW t \in Titles, NEW w \in Nat,
           Kind[t] = kind, place[t] > Reach(page - 1)
    PROVE  Copies(<<t, w>>) <= arrivals
<1>1. Copies(<<t, w>>) \in Nat /\ place[t] \in Nat /\ arrivals \in Nat /\ Reach(page - 1) \in Nat
  BY CopiesAreNat, PageEdges DEF Shapes, TypeOK
<1>2. Copies(<<t, w>>) > 0 => place[t] + Copies(<<t, w>>) <= Reach(page - 1) + 1 + arrivals
  BY PassedCases DEF Paid, Reading
<1>3. QED
  BY <1>1, <1>2

LEMMA TraktPagePaid ==
    ASSUME Shapes, Paid, TraktPage
    PROVE  Paid'
<1> DEFINE entries == Page(Listing(kind, since), page)
           read == out (+) Watches(entries)
<1>1. connector' = connector /\ place' = place /\ pc = "page" /\ Reading
  BY DEF TraktPage, Reading, service
<1>2. CASE NextKind(out)
  <2>1. out' = out
    BY <1>2 DEF NextKind
  <2>2. QED
    BY <1>1, <1>2, <2>1, SameCopies, NextKindPaid DEF Paid
<1>3. CASE Abort
  BY <1>3, AbortPaid
<1>4. CASE NextPage(read)
  <2>1. out' = read
    BY <1>4 DEF NextPage
  <2>2. entries \subseteq Titles
    BY DEF Page, Listing
  <2>3. ASSUME NEW t \in Titles, NEW w \in Nat
        PROVE  /\ Copies(<<t, w>>)' <= 1 + arrivals
               /\ Kind[t] > kind => Copies(<<t, w>>)' = 0
               /\ Kind[t] = kind /\ Copies(<<t, w>>)' > 0 =>
                     place[t] + Copies(<<t, w>>)' <= Reach(page) + 1 + arrivals
    <3>1. /\ Copies(<<t, w>>) \in Nat /\ place[t] \in Nat /\ arrivals \in Nat
          /\ Reach(page - 1) \in Nat /\ Reach(page) \in Nat /\ Reach(page - 1) <= Reach(page)
          /\ kind \in Nat
      BY CopiesAreNat, PageEdges DEF Shapes, TypeOK, Kinds
    <3>2. CASE Copies(<<t, w>>)' = Copies(<<t, w>>)
      <4>1. /\ Copies(<<t, w>>) <= 1 + arrivals
            /\ Kind[t] > kind => Copies(<<t, w>>) = 0
            /\ Kind[t] = kind /\ Copies(<<t, w>>) > 0 =>
                  place[t] + Copies(<<t, w>>) <= Reach(page - 1) + 1 + arrivals
        BY <1>1, PassedCases DEF Paid
      <4>2. QED
        BY <3>1, <3>2, <4>1
    <3>3. CASE t \in entries /\ Copies(<<t, w>>)' = Copies(<<t, w>>) + 1
      <4>1. Kind[t] = kind /\ place[t] > Reach(page - 1) /\ place[t] <= Reach(page)
        BY <3>3 DEF Page, Listing
      <4>2. Copies(<<t, w>>) <= arrivals
        BY <1>1, <4>1, UnreadCopies
      <4>3. QED
        BY <3>1, <3>3, <4>1, <4>2
    <3>4. QED
      BY <2>1, <2>2, <3>2, <3>3, CopiesAfter
  <2> HIDE DEF read
  <2>4. QED
    BY <1>1, <1>4, <2>3, NextPagePaid
<1>5. QED
  BY <1>2, <1>3, <1>4 DEF TraktPage

LEMMA RyotPagePaid ==
    ASSUME Shapes, Paid, RyotPage
    PROVE  Paid'
<1> DEFINE P == Page(Listing(kind, since), page)
<1>1. connector' = connector /\ place' = place /\ pc = "page" /\ Reading
  BY DEF RyotPage, Reading, service
<1>2. CASE NextKind(out)
  <2>1. out' = out
    BY <1>2 DEF NextKind
  <2>2. QED
    BY <1>1, <1>2, <2>1, SameCopies, NextKindPaid DEF Paid
<1>3. CASE ~NextKind(out)
  <2>1. /\ pc' = "details" /\ DOMAIN ids' = P
        /\ UNCHANGED <<since, windowEnd, kind, page, out, arrivals>>
    BY <1>3 DEF RyotPage
  <2>2. Passed(kind)' = Reach(page)
    <3>1. Passed(kind)' = Reach(page)'
      BY <2>1 DEF Passed
    <3>2. QED
      BY <1>1, <2>1, <3>1 DEF Reach
  <2>3. ASSUME NEW t \in Titles, NEW w \in Nat
        PROVE  /\ Copies(<<t, w>>) <= 1 + arrivals
               /\ Kind[t] > kind => Copies(<<t, w>>) = 0
               /\ Kind[t] = kind /\ Copies(<<t, w>>) > 0 =>
                     place[t] + Copies(<<t, w>>) <= Reach(page) + 1 + arrivals
               /\ t \in P => /\ Copies(<<t, w>>) <= arrivals
                             /\ place[t] + Copies(<<t, w>>) <= Reach(page) + arrivals
    <3>1. /\ Copies(<<t, w>>) \in Nat /\ place[t] \in Nat /\ arrivals \in Nat
          /\ Reach(page - 1) \in Nat /\ Reach(page) \in Nat /\ Reach(page - 1) <= Reach(page)
      BY CopiesAreNat, PageEdges DEF Shapes, TypeOK
    <3>2. /\ Copies(<<t, w>>) <= 1 + arrivals
          /\ Kind[t] > kind => Copies(<<t, w>>) = 0
          /\ Kind[t] = kind /\ Copies(<<t, w>>) > 0 =>
                place[t] + Copies(<<t, w>>) <= Reach(page - 1) + 1 + arrivals
      BY <1>1, PassedCases DEF Paid
    <3>3. CASE t \in P
      <4>1. Kind[t] = kind /\ place[t] > Reach(page - 1) /\ place[t] <= Reach(page)
        BY <3>3 DEF Page, Listing
      <4>2. Copies(<<t, w>>) <= arrivals
        BY <1>1, <4>1, UnreadCopies
      <4> HIDE DEF P
      <4>3. QED
        BY <3>1, <3>2, <4>1, <4>2
    <3>4. CASE t \notin P
      <4> HIDE DEF P
      <4>1. QED
        BY <3>1, <3>2, <3>4
    <3>5. QED
      BY <3>3, <3>4
  <2>4. Unread' \subseteq P
    BY <2>1 DEF Unread
  <2> HIDE DEF P
  <2>5. QED
    BY <1>1, <2>1, <2>2, <2>3, <2>4, SameCopies DEF Paid
<1>4. QED
  BY <1>2, <1>3

LEMMA ReadDetailsPaid ==
    ASSUME Shapes, Paid, ReadDetails
    PROVE  Paid'
<1>1. PICK silent \in SUBSET Chunk :
        LET read == out (+) Watches(Chunk \ silent) IN
           \/ Abort
           \/ /\ ~LastChunk
              /\ start' = NextStart /\ out' = read
              /\ UNCHANGED <<pc, since, windowEnd, kind, page, ids, more, arrivals>>
           \/ NextPage(read)
           \/ NextKind(read)
  BY DEF ReadDetails
<1> DEFINE S == Chunk \ silent
           read == out (+) Watches(S)
<1>2. connector' = connector /\ place' = place /\ pc = "details" /\ Reading
  BY DEF ReadDetails, Reading, service
<1>3. S \subseteq Titles /\ S \subseteq Unread /\ \A t \in S : Kind[t] = kind
  BY DEF Chunk, Unread, Shapes, TypeOK
<1>4. ASSUME out' = read, NEW t \in Titles, NEW w \in Nat
      PROVE  /\ Copies(<<t, w>>)' <= 1 + arrivals
             /\ Kind[t] > kind => Copies(<<t, w>>)' = 0
             /\ Kind[t] = kind /\ Copies(<<t, w>>)' > 0 =>
                   place[t] + Copies(<<t, w>>)' <= Reach(page) + 1 + arrivals
             /\ t \notin S => Copies(<<t, w>>)' = Copies(<<t, w>>)
  <2>1. /\ Copies(<<t, w>>) \in Nat /\ place[t] \in Nat /\ arrivals \in Nat
        /\ Reach(page) \in Nat /\ kind \in Nat
    <3>1. Reach(page) \in Nat
      BY PageEdges
    <3>2. QED
      BY <3>1, CopiesAreNat DEF Shapes, TypeOK, Kinds
  <2>2. CASE Copies(<<t, w>>)' = Copies(<<t, w>>)
    <3>1. /\ Copies(<<t, w>>) <= 1 + arrivals
          /\ Kind[t] > kind => Copies(<<t, w>>) = 0
          /\ Kind[t] = kind /\ Copies(<<t, w>>) > 0 =>
                place[t] + Copies(<<t, w>>) <= Reach(page) + 1 + arrivals
      BY <1>2, PassedCases DEF Paid
    <3>2. QED
      BY <2>1, <2>2, <3>1
  <2>3. CASE t \in S /\ Copies(<<t, w>>)' = Copies(<<t, w>>) + 1
    <3>1. Kind[t] = kind
      BY <1>3, <2>3
    <3>2. Copies(<<t, w>>) <= arrivals /\ place[t] + Copies(<<t, w>>) <= Reach(page) + arrivals
      BY <1>2, <1>3, <2>3, PassedCases DEF Paid
    <3> HIDE DEF S
    <3>3. QED
      BY <2>1, <2>3, <3>1, <3>2
  <2>4. QED
    BY <1>3, <1>4, <2>2, <2>3, CopiesAfter
<1>5. CASE Abort
  BY <1>5, AbortPaid
<1>6. CASE NextPage(read)
  <2>1. out' = read
    BY <1>6 DEF NextPage
  <2> HIDE DEF read
  <2>2. QED
    BY <1>2, <1>4, <1>6, <2>1, NextPagePaid
<1>7. CASE NextKind(read)
  <2>1. out' = read
    BY <1>7 DEF NextKind
  <2> HIDE DEF read
  <2>2. QED
    BY <1>4, <1>7, <2>1, NextKindPaid
<1>8. CASE /\ start' = NextStart /\ out' = read
           /\ UNCHANGED <<pc, since, windowEnd, kind, page, ids, more, arrivals>>
  <2>1. Passed(kind)' = Passed(kind) /\ Passed(kind) = Reach(page)
    BY <1>2, <1>8, PassedCases DEF Passed, Reach
  <2>2. Unread' \subseteq Unread /\ \A t \in Unread' : t \notin S
    <3>1. ASSUME NEW t \in Unread'
          PROVE  t \in Unread /\ t \notin Chunk
      <4>1. t \in DOMAIN ids /\ ids[t] > start + connector.chunk
        BY <1>8 DEF Unread, NextStart
      <4>2. ids[t] \in Nat /\ start \in Nat /\ connector.chunk \in Nat
        BY <4>1, PageEdges DEF Shapes, TypeOK
      <4>3. QED
        BY <4>1, <4>2 DEF Unread, Chunk
    <3>2. QED
      BY <3>1
  <2>3. ASSUME NEW t \in Titles, NEW w \in Nat, t \in Unread'
        PROVE  /\ Copies(<<t, w>>)' <= arrivals
               /\ place[t] + Copies(<<t, w>>)' <= Reach(page) + arrivals
    <3>1. Copies(<<t, w>>)' = Copies(<<t, w>>)
      BY <1>4, <1>8, <2>2, <2>3
    <3>2. QED
      BY <1>2, <2>1, <2>2, <2>3, <3>1 DEF Paid
  <2> HIDE DEF S, read
  <2>4. QED
    BY <1>2, <1>4, <1>8, <2>1, <2>3 DEF Paid
<1>9. QED
  BY <1>1, <1>5, <1>6, <1>7, <1>8

LEMMA PaidStep == Shapes /\ Lists /\ Paid /\ [Next]_vars => Paid'
<1> SUFFICES ASSUME Shapes, Lists, Paid, [Next]_vars
             PROVE  Paid'
  OBVIOUS
<1>1. CASE Tick \/ UNCHANGED vars
  <2>1. UNCHANGED <<connector, service, reader, arrivals>>
    BY <1>1 DEF Tick, vars
  <2>2. /\ UNCHANGED <<pc, kind, out, place, arrivals>>
        /\ Unread' = Unread /\ Reading' = Reading /\ Passed(kind)' = Passed(kind)
    BY <2>1, SameReader DEF service
  <2>3. QED
    BY <2>2, SameCopies DEF Paid
<1>2. ASSUME NEW t \in Titles, Watch(t) \/ Unlist(t)
      PROVE  Paid'
  BY <1>2, WatchPaid, UnlistPaid
<1>3. CASE Open
  <2>1. out' = EmptyBag /\ arrivals' \in Nat /\ pc' # "details"
    BY <1>3 DEF Open, Shapes, TypeOK
  <2>2. QED
    BY <2>1, PaidEmpty
<1>4. CASE RequestFails
  BY <1>4, AbortPaid DEF RequestFails
<1>5. CASE Record
  <2>1. out' = EmptyBag /\ arrivals' \in Nat /\ pc' # "details"
    BY <1>5 DEF Record, Return
  <2>2. QED
    BY <2>1, PaidEmpty
<1>6. CASE Run
  BY <1>3, <1>4, <1>5, <1>6, TraktPagePaid, RyotPagePaid, ReadDetailsPaid DEF Run
<1>7. QED
  BY <1>1, <1>2, <1>6 DEF Next

(* A row appears in a window once, and once more at most for each title    *)
(* that came to the front while the window was read: whatever the user     *)
(* watches, removes and watches again, and however a page's titles are cut *)
(* into chunks, the walk itself repeats nothing (trakt/client.go:151-168,  *)
(* ryot.go:388-411 and 489-491).                                           *)
THEOREM RepetitionsArePaid == Spec => []RepeatsArePaid
<1> DEFINE IInv == Shapes /\ Lists /\ Paid
<1>1. Init => IInv
  BY ShapesInit, ListsInit, PaidInit
<1>2. IInv /\ [Next]_vars => IInv'
  BY ShapesStep, ListsStep, PaidStep
<1>3. IInv => RepeatsArePaid
  <2> SUFFICES ASSUME IInv, NEW r \in BagToSet(out)
               PROVE  out[r] <= 1 + arrivals
    BY DEF RepeatsArePaid
  <2>1. PICK t \in Titles, w \in Nat : r = <<t, w>>
    BY DEF Shapes, TypeOK, Rows
  <2>2. QED
    BY <2>1 DEF Paid, Copies
<1>4. QED
  BY <1>1, <1>2, <1>3, PTL DEF Spec
=============================================================================
