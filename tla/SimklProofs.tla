---------------------------- MODULE SimklProofs ----------------------------
(***************************************************************************)
(* The safety of SimklHistory where Simkl's timestamps are as fine as the  *)
(* clock (Resolution = 1), for any lists, changes and failures:            *)
(* WindowComplete and NothingBehind.                                       *)
(***************************************************************************)
EXTENDS SimklHistory, SequenceTheorems, WellFoundedInduction, TLAPS

-----------------------------------------------------------------------------
(* Arithmetic and sequences. *)

(* A set of naturals with a bound has a greatest element. *)
LEMMA MaxOfBounded ==
    ASSUME NEW S \in SUBSET Nat, S # {}, NEW n \in Nat, \A x \in S : x <= n
    PROVE  Max(S) \in S /\ \A x \in S : x <= Max(S)
<1> DEFINE U == {u \in Nat : \A x \in S : x <= u}
<1>1. U \subseteq Nat /\ U # {}
  OBVIOUS
<1>2. PICK u \in U : \A v \in U : ~(<<v, u>> \in OpToRel(<, Nat))
  BY <1>1, WFMin, NatLessThanWellFounded
<1>3. \A v \in U : u <= v
  <2>1. TAKE v \in U
  <2>2. v \in Nat /\ u \in Nat
    BY <1>1
  <2>3. <<v, u>> \notin OpToRel(<, Nat)
    BY <1>2
  <2>4. ~(v < u)
    BY <2>2, <2>3, Zenon DEF OpToRel
  <2> HIDE DEF U
  <2>5. QED
    BY <2>2, <2>4
<1>4. u \in S
  <2>1. SUFFICES ASSUME u \notin S
                 PROVE  FALSE
    OBVIOUS
  <2>2. \A x \in S : x < u /\ x \in Nat
    BY <2>1
  <2>3. u \in Nat /\ u > 0
    <3>1. PICK x : x \in S
      OBVIOUS
    <3>2. QED
      BY <2>2, <3>1
  <2>4. u - 1 \in U
    BY <2>2, <2>3
  <2>5. QED
    BY <1>3, <2>3, <2>4
<1>5. \E m \in S : \A x \in S : m >= x
  BY <1>4
<1>6. Max(S) \in S /\ \A x \in S : Max(S) >= x
  BY <1>5 DEF Max
<1>7. QED
  BY <1>6

(* s holds x. *)
Holds(s, x) == \E k \in DOMAIN s : s[k] = x

LEMMA ConcatHolds ==
    ASSUME NEW S, NEW s \in Seq(S), NEW t \in Seq(S), NEW x,
           Holds(s, x) \/ Holds(t, x)
    PROVE  Holds(s \o t, x)
<1>1. /\ s \o t \in Seq(S) /\ Len(s \o t) = Len(s) + Len(t)
      /\ \A k \in 1 .. Len(s \o t) :
            (s \o t)[k] = IF k <= Len(s) THEN s[k] ELSE t[k - Len(s)]
  BY ConcatProperties
<1>2. DOMAIN (s \o t) = 1 .. Len(s \o t) /\ Len(s) \in Nat /\ Len(t) \in Nat
  BY <1>1
<1>3. CASE Holds(s, x)
  <2>1. PICK k \in 1 .. Len(s) : s[k] = x
    BY <1>3 DEF Holds
  <2>2. k \in 1 .. Len(s \o t) /\ (s \o t)[k] = x
    BY <1>1, <1>2, <2>1
  <2>3. QED
    BY <1>2, <2>2 DEF Holds
<1>4. CASE Holds(t, x)
  <2>1. PICK k \in 1 .. Len(t) : t[k] = x
    BY <1>4 DEF Holds
  <2>2. Len(s) + k \in 1 .. Len(s \o t) /\ (s \o t)[Len(s) + k] = x
    BY <1>1, <1>2, <2>1
  <2>3. QED
    BY <1>2, <2>2 DEF Holds
<1>5. QED
  BY <1>3, <1>4

(* What is not at the head of a sequence is in its tail. *)
LEMMA TailHolds ==
    ASSUME NEW S, NEW s \in Seq(S), s # <<>>, NEW x, Holds(s, x), x # Head(s)
    PROVE  Holds(Tail(s), x)
<1>1. PICK k \in 1 .. Len(s) : s[k] = x
  BY DEF Holds
<1>2. Len(s) \in Nat /\ k # 1
  BY <1>1
<1>3. /\ Len(Tail(s)) = Len(s) - 1
      /\ \A j \in 1 .. Len(Tail(s)) : Tail(s)[j] = s[j + 1]
      /\ Tail(s) \in Seq(S) /\ DOMAIN Tail(s) = 1 .. Len(Tail(s))
  BY HeadTailProperties
<1>4. k - 1 \in 1 .. Len(Tail(s)) /\ Tail(s)[k - 1] = x
  BY <1>1, <1>2, <1>3
<1>5. QED
  BY <1>3, <1>4 DEF Holds

-----------------------------------------------------------------------------
(* The inductive invariant. *)

PageSet == {"movies", "shows", "anime"} \X {"completed", "watching"}

Types ==
    /\ clock \in Nat /\ cursor \in Nat /\ since \in Nat /\ windowEnd \in Nat
    /\ bucket \in [Items -> {"none", "watching", "completed"}]
    /\ changed \in [Items -> Nat]
    /\ pc \in {"idle", "activities", "fetch"}
    /\ requests \in Seq(PageSet)
    /\ \A i \in Items : Category[i] = "movies" => bucket[i] # "watching"

(* No two readings of the clock, and no change beside one, share a tick.   *)
ClockReadings ==
    /\ cursor <= clock /\ windowEnd <= clock
    /\ pc # "idle" => since = cursor
    /\ \A i \in Items :
          /\ changed[i] <= clock
          /\ bucket[i] = "none" => changed[i] = 0
          /\ bucket[i] # "none" => changed[i] > 0 /\ changed[i] # cursor /\ changed[i] # windowEnd

(* What the run must find it has found, or has yet to request the page on  *)
(* which it is listed now; what moves to another page is newer than the    *)
(* window.                                                                 *)
StillRequested ==
    pc = "fetch" =>
        \A i \in Items :
            since < changed[i] /\ changed[i] < windowEnd =>
                i \in got \cup seen \/ Holds(requests, <<Category[i], bucket[i]>>)

IInv ==
    /\ Types
    /\ ClockReadings
    /\ NothingBehind
    /\ StillRequested

LEMMA CategoryType ==
    \A i \in Items : Category[i] \in {"movies", "shows", "anime"}
BY SimklAssumption DEF Categories, ToSet

LEMMA StampIsExact ==
    ASSUME Resolution = 1, NEW t \in Nat
    PROVE  Stamp(t) = t
BY DEF Stamp

(* The activity of a category is no older than its latest change. *)
LEMMA ActivityIsLatest ==
    ASSUME Resolution = 1, Types, ClockReadings, NEW i \in Items, bucket[i] # "none"
    PROVE  Activity(Category[i]) \in Nat /\ changed[i] <= Activity(Category[i])
<1> DEFINE c == Category[i]
           S == {changed[j] : j \in Listed(c)}
<1>1. i \in Listed(c) /\ changed[i] \in S
  BY DEF Listed
<1>2. S \in SUBSET Nat /\ \A x \in S : x <= clock
  BY DEF Listed, Types, ClockReadings
<1>3. clock \in Nat
  BY DEF Types
<1> HIDE DEF S
<1>4. Max(S) \in S /\ \A x \in S : x <= Max(S)
  BY <1>1, <1>2, <1>3, MaxOfBounded
<1>5. Max(S) \in Nat /\ changed[i] <= Max(S)
  BY <1>1, <1>2, <1>4
<1>6. Activity(c) = Max(S)
  BY <1>1, <1>5, StampIsExact DEF Activity, S
<1>7. QED
  BY <1>5, <1>6

LEMMA PagesType ==
    ASSUME NEW c \in {"movies", "shows", "anime"}, NEW a
    PROVE  Pages(c, a) \in Seq(PageSet)
<1>1. CASE Unchanged(a)
  BY <1>1 DEF Pages
<1>2. CASE ~Unchanged(a) /\ c = "movies"
  <2>1. Pages(c, a) = [k \in 1 .. 1 |-> <<"movies", "completed">>]
    BY <1>2 DEF Pages, Buckets
  <2>2. QED
    BY <2>1 DEF PageSet
<1>3. CASE ~Unchanged(a) /\ c # "movies"
  <2>1. Pages(c, a) = [k \in 1 .. 2 |-> <<c, IF k = 1 THEN "completed" ELSE "watching">>]
    BY <1>3 DEF Pages, Buckets
  <2>2. QED
    BY <2>1 DEF PageSet
<1>4. QED
  BY <1>1, <1>2, <1>3

(* The pages of a category that has changed hold whatever is listed in it. *)
LEMMA PagesHold ==
    ASSUME Types, NEW i \in Items, bucket[i] # "none", NEW a, ~Unchanged(a)
    PROVE  Holds(Pages(Category[i], a), <<Category[i], bucket[i]>>)
<1>1. bucket[i] \in {"watching", "completed"}
  BY DEF Types
<1>2. Category[i] = "movies" => bucket[i] = "completed"
  BY <1>1 DEF Types
<1>3. CASE Category[i] = "movies"
  BY <1>2, <1>3 DEF Holds, Pages, Buckets
<1>4. CASE Category[i] # "movies" /\ bucket[i] = "completed"
  <2>1. 1 \in DOMAIN Pages(Category[i], a) /\ Pages(Category[i], a)[1] = <<Category[i], bucket[i]>>
    BY <1>4 DEF Pages, Buckets
  <2>2. QED
    BY <2>1 DEF Holds
<1>5. CASE Category[i] # "movies" /\ bucket[i] = "watching"
  <2>1. 2 \in DOMAIN Pages(Category[i], a) /\ Pages(Category[i], a)[2] = <<Category[i], bucket[i]>>
    BY <1>5 DEF Pages, Buckets
  <2>2. QED
    BY <2>1 DEF Holds
<1>6. QED
  BY <1>1, <1>3, <1>4, <1>5

LEMMA RequestsType ==
    ASSUME NEW activities
    PROVE  Requests(activities) \in Seq(PageSet)
BY PagesType, ConcatProperties DEF Requests

LEMMA RequestsHold ==
    ASSUME NEW activities, NEW c \in {"movies", "shows", "anime"}, NEW x,
           Holds(Pages(c, activities[c]), x)
    PROVE  Holds(Requests(activities), x)
<1> DEFINE m == Pages("movies", activities["movies"])
           s == Pages("shows", activities["shows"])
           a == Pages("anime", activities["anime"])
<1>1. m \in Seq(PageSet) /\ s \in Seq(PageSet) /\ a \in Seq(PageSet)
  BY PagesType
<1>2. Holds(m, x) \/ Holds(s, x) \/ Holds(a, x)
  OBVIOUS
<1>3. Requests(activities) = (m \o s) \o a
  BY DEF Requests
<1> HIDE DEF m, s, a
<1>4. m \o s \in Seq(PageSet)
  BY <1>1, ConcatProperties
<1>5. Holds(m, x) \/ Holds(s, x) => Holds(m \o s, x)
  BY <1>1, ConcatHolds
<1>6. QED
  <2>1. Holds(m \o s, x) \/ Holds(a, x)
    BY <1>2, <1>5
  <2> DEFINE ms == m \o s
  <2>2. ms \in Seq(PageSet) /\ (Holds(ms, x) \/ Holds(a, x))
    BY <1>4, <2>1
  <2> HIDE DEF ms
  <2>3. Holds(ms \o a, x)
    BY <1>1, <2>2, ConcatHolds
  <2>4. QED
    BY <1>3, <2>3 DEF ms

-----------------------------------------------------------------------------
(* Every step keeps the invariant. *)

LEMMA InitIInv == Init => IInv
<1> SUFFICES ASSUME Init
             PROVE  IInv
  OBVIOUS
<1>1. Types
  <2>1. requests \in Seq(PageSet)
    BY DEF Init
  <2>2. QED
    BY <2>1 DEF Init, Types
<1>2. ClockReadings /\ NothingBehind /\ StillRequested
  BY DEF Init, ClockReadings, NothingBehind, StillRequested
<1>3. QED
  BY <1>1, <1>2 DEF IInv

LEMMA ListStep ==
    ASSUME IInv, NEW i \in Items, NEW b \in {"watching", "completed"}, List(i, b)
    PROVE  IInv'
<1>1. /\ clock' = clock + 1 /\ clock \in Nat /\ clock' \in Nat
      /\ UNCHANGED <<cursor, seen, pc, since, windowEnd, requests, got>>
  BY DEF List, IInv, Types, state, locals
<1>2. /\ bucket' = [bucket EXCEPT ![i] = b] /\ changed' = [changed EXCEPT ![i] = clock']
      /\ Category[i] = "movies" => b = "completed"
  <2>1. CASE bucket[i] = "none"
    BY <2>1 DEF List
  <2>2. CASE bucket[i] # "none"
    BY <2>2 DEF List
  <2>3. QED
    BY <2>1, <2>2 DEF List
<1>3. /\ bucket' \in [Items -> {"none", "watching", "completed"}]
      /\ changed' \in [Items -> Nat]
  BY <1>1, <1>2 DEF IInv, Types
<1>4. /\ bucket'[i] = b /\ changed'[i] = clock + 1
      /\ \A j \in Items \ {i} : bucket'[j] = bucket[j] /\ changed'[j] = changed[j]
  BY <1>1, <1>2 DEF IInv, Types
<1>5. cursor \in Nat /\ since \in Nat /\ windowEnd \in Nat /\ cursor <= clock /\ windowEnd <= clock
  BY DEF IInv, Types, ClockReadings
<1>6. Types'
  <2>1. \A j \in Items : Category[j] = "movies" => bucket'[j] # "watching"
    BY <1>2, <1>4 DEF IInv, Types
  <2>2. QED
    BY <1>1, <1>3, <2>1 DEF IInv, Types
<1>7. ClockReadings'
  <2>1. ASSUME NEW j \in Items
        PROVE  /\ changed'[j] <= clock'
               /\ bucket'[j] = "none" => changed'[j] = 0
               /\ bucket'[j] # "none" =>
                     changed'[j] > 0 /\ changed'[j] # cursor /\ changed'[j] # windowEnd
    <3>1. CASE j = i
      BY <1>1, <1>4, <1>5, <3>1
    <3>2. CASE j # i
      BY <1>1, <1>4, <3>2 DEF IInv, Types, ClockReadings
    <3>3. QED
      BY <3>1, <3>2
  <2>2. QED
    BY <1>1, <1>5, <2>1 DEF IInv, ClockReadings
<1>8. NothingBehind'
  BY <1>1, <1>4, <1>5 DEF IInv, NothingBehind
<1>9. StillRequested'
  BY <1>1, <1>4, <1>5 DEF IInv, StillRequested
<1>10. QED
  BY <1>6, <1>7, <1>8, <1>9 DEF IInv

LEMMA OpenStep ==
    ASSUME IInv, Open
    PROVE  IInv'
<1>1. requests' \in Seq(PageSet)
  BY DEF Open
<1>2. Types'
  BY <1>1 DEF IInv, Types, Open, lists, state
<1>3. ClockReadings'
  BY DEF IInv, Types, ClockReadings, Open, lists, state
<1>4. NothingBehind' /\ StillRequested'
  BY DEF IInv, NothingBehind, StillRequested, Open, lists, state
<1>5. QED
  BY <1>2, <1>3, <1>4 DEF IInv

LEMMA ReadActivitiesStep ==
    ASSUME Resolution = 1, IInv, ReadActivities
    PROVE  IInv'
<1>1. /\ UNCHANGED <<clock, bucket, changed, cursor, seen, since, windowEnd, got>>
      /\ pc' = "fetch" /\ requests' = Requests(acts')
  BY DEF ReadActivities, lists, state
<1>2. Types'
  <2>1. requests' \in Seq(PageSet)
    BY <1>1, RequestsType
  <2>2. QED
    BY <1>1, <2>1 DEF IInv, Types
<1>3. ClockReadings' /\ NothingBehind'
  <2>1. since = cursor
    BY DEF IInv, ClockReadings, ReadActivities
  <2>2. QED
    BY <1>1, <2>1 DEF IInv, ClockReadings, NothingBehind
<1>4. StillRequested'
  <2>1. SUFFICES ASSUME NEW i \in Items, since < changed[i]
                 PROVE  Holds(Requests(acts'), <<Category[i], bucket[i]>>)
    BY <1>1 DEF StillRequested
  <2>2. since \in Nat /\ changed[i] \in Nat
    BY DEF IInv, Types
  <2>3. bucket[i] # "none"
    BY <2>1, <2>2 DEF IInv, ClockReadings
  <2>4. Activity(Category[i]) \in Nat /\ changed[i] <= Activity(Category[i])
    BY <2>3, ActivityIsLatest DEF IInv
  <2>5. Category[i] \in {"movies", "shows", "anime"}
    BY CategoryType
  <2>6. acts'[Category[i]] = Activity(Category[i])
    <3>1. acts' = [c \in ToSet(Categories) |-> Activity(c)]
      BY DEF ReadActivities
    <3>2. Category[i] \in ToSet(Categories)
      BY SimklAssumption
    <3>3. QED
      BY <3>1, <3>2
  <2>7. ~Unchanged(acts'[Category[i]])
    BY <2>1, <2>2, <2>4, <2>6 DEF Unchanged
  <2>8. Holds(Pages(Category[i], acts'[Category[i]]), <<Category[i], bucket[i]>>)
    BY <2>3, <2>7, PagesHold DEF IInv
  <2>9. QED
    BY <2>5, <2>8, RequestsHold
<1>5. QED
  BY <1>2, <1>3, <1>4 DEF IInv

LEMMA FetchStep ==
    ASSUME Resolution = 1, IInv, Fetch
    PROVE  IInv'
<1>1. /\ UNCHANGED <<clock, bucket, changed, cursor, seen, pc, since, windowEnd>>
      /\ got' = got \cup AllItems(Head(requests)[1], Head(requests)[2], since)
      /\ requests \in Seq(PageSet) /\ requests # <<>> /\ requests' = Tail(requests)
  BY DEF IInv, Types, Fetch, lists, state
<1>2. Types'
  <2>1. requests' \in Seq(PageSet)
    BY <1>1, HeadTailProperties
  <2>2. QED
    BY <1>1, <2>1 DEF IInv, Types
<1>3. ClockReadings' /\ NothingBehind'
  BY <1>1 DEF IInv, ClockReadings, NothingBehind
<1>4. StillRequested'
  <2>1. SUFFICES ASSUME NEW i \in Items, since < changed[i],
                        i \notin got \cup seen,
                        Holds(requests, <<Category[i], bucket[i]>>)
                 PROVE  i \in got' \/ Holds(requests', <<Category[i], bucket[i]>>)
    <3>1. pc = "fetch"
      BY DEF Fetch
    <3>2. QED
      BY <1>1, <3>1 DEF IInv, StillRequested
  <2>2. CASE Head(requests) = <<Category[i], bucket[i]>>
    <3>1. since \in Nat /\ changed[i] \in Nat /\ Stamp(changed[i]) = changed[i] /\ Stamp(since) = since
      BY StampIsExact DEF IInv, Types
    <3>2. bucket[i] # "none"
      BY <2>1, <3>1 DEF IInv, ClockReadings
    <3>3. i \in AllItems(Category[i], bucket[i], since)
      BY <2>1, <3>1, <3>2 DEF AllItems, Listed
    <3>4. QED
      BY <1>1, <2>2, <3>3
  <2>3. CASE Head(requests) # <<Category[i], bucket[i]>>
    BY <1>1, <2>1, <2>3, TailHolds
  <2>4. QED
    BY <2>2, <2>3
<1>5. QED
  BY <1>2, <1>3, <1>4 DEF IInv

(* The window of a run that has made all its requests. *)
LEMMA CompleteWindow ==
    ASSUME StillRequested
    PROVE  WindowComplete
<1>1. ASSUME NEW x
      PROVE  ~Holds(<<>>, x)
  BY DEF Holds
<1>2. QED
  BY <1>1 DEF StillRequested, WindowComplete

LEMMA RecordStep ==
    ASSUME IInv, Record
    PROVE  IInv'
<1>1. /\ UNCHANGED <<clock, bucket, changed, since, windowEnd, requests, got>>
      /\ pc' = "idle" /\ pc = "fetch" /\ requests = <<>>
  BY DEF Record, lists
<1>2. \/ cursor' = cursor /\ seen' = seen
      \/ cursor' = windowEnd /\ seen' = seen \cup got
  BY DEF Record, state, Advance
<1>3. Types'
  BY <1>1, <1>2 DEF IInv, Types
<1>4. ClockReadings'
  BY <1>1, <1>2 DEF IInv, ClockReadings
<1>5. NothingBehind'
  <2>1. CASE cursor' = cursor /\ seen' = seen
    BY <1>1, <2>1 DEF IInv, NothingBehind
  <2>2. CASE cursor' = windowEnd /\ seen' = seen \cup got
    <3>1. SUFFICES ASSUME NEW i \in Items, bucket[i] # "none", changed[i] < windowEnd
                   PROVE  i \in seen \cup got
      BY <1>1, <2>2 DEF NothingBehind
    <3>2. since \in Nat /\ changed[i] \in Nat /\ since = cursor /\ changed[i] # cursor
      BY <1>1, <3>1 DEF IInv, Types, ClockReadings
    <3>3. CASE changed[i] < cursor
      BY <3>1, <3>3 DEF IInv, NothingBehind
    <3>4. CASE since < changed[i]
      BY <1>1, <3>1, <3>4, CompleteWindow DEF IInv, WindowComplete
    <3>5. QED
      BY <3>2, <3>3, <3>4
  <2>3. QED
    BY <1>2, <2>1, <2>2
<1>6. StillRequested'
  BY <1>1 DEF StillRequested
<1>7. QED
  BY <1>3, <1>4, <1>5, <1>6 DEF IInv

LEMMA FailStep ==
    ASSUME IInv, Fail
    PROVE  IInv'
BY DEF IInv, Types, ClockReadings, NothingBehind, StillRequested, Fail, lists, state

LEMMA Inductive ==
    ASSUME Resolution = 1
    PROVE  Spec => []IInv
<1>1. Init => IInv
  BY InitIInv
<1>2. IInv /\ [Next]_vars => IInv'
  <2> SUFFICES ASSUME IInv, [Next]_vars
               PROVE  IInv'
    OBVIOUS
  <2>1. CASE \E i \in Items, b \in {"watching", "completed"} : List(i, b)
    BY <2>1, ListStep
  <2>2. CASE Open
    BY <2>2, OpenStep
  <2>3. CASE ReadActivities
    BY <2>3, ReadActivitiesStep
  <2>4. CASE Fetch
    BY <2>4, FetchStep
  <2>5. CASE Record
    BY <2>5, RecordStep
  <2>6. CASE Fail
    BY <2>6, FailStep
  <2>7. CASE UNCHANGED vars
    BY <2>7 DEF IInv, Types, ClockReadings, NothingBehind, StillRequested, vars, lists, state, locals
  <2>8. QED
    BY <2>1, <2>2, <2>3, <2>4, <2>5, <2>6, <2>7 DEF Next, Run
<1>3. QED
  BY <1>1, <1>2, PTL DEF Spec

(* A run that has made all its requests holds everything that changed      *)
(* between the cursor and its start: neither the dirty check of            *)
(* Client.History nor an entry moving between buckets loses anything.      *)
THEOREM NothingSlipsThrough ==
    ASSUME Resolution = 1
    PROVE  Spec => []WindowComplete
<1>1. IInv => WindowComplete
  BY CompleteWindow DEF IInv
<1>2. QED
  BY <1>1, Inductive, PTL

(* The cursor never passes an entry of the user's lists that is not        *)
(* recorded, whatever requests fail.                                       *)
THEOREM CursorLeavesNothing ==
    ASSUME Resolution = 1
    PROVE  Spec => []NothingBehind
<1>1. IInv => NothingBehind
  BY DEF IInv
<1>2. QED
  BY <1>1, Inductive, PTL
=============================================================================
