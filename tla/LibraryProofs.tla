--------------------------- MODULE LibraryProofs ---------------------------
(***************************************************************************)
(* Safety of the library page, for any filters, texts and numbers of       *)
(* pages: the types, what the box, the timer and the filter have to do     *)
(* with each other, and that the end of a list that has more is watched.   *)
(***************************************************************************)
EXTENDS Library, TLAPS

\* Every filter has a page, an empty one at least.
LEMMA LastType == \A f \in Filters : Last(f) \in Nat /\ Last(f) >= 1
  BY LibraryAssumption DEF Last

\* The filters are records; none has the timer's null text.
LEMMA FilterType ==
  /\ NoFilter \in Filters
  /\ \A f \in Filters : f.search \in Searches \cup {NoSearch}
  /\ \A f \in Filters, s \in Searches \cup {NoSearch} :
       [f EXCEPT !.search = s] \in Filters /\ [f EXCEPT !.search = s].search = s
  /\ \A f \in Filters, p \in Picks \cup {NoPick} :
       [f EXCEPT !.pick = p] \in Filters /\ [f EXCEPT !.pick = p].search = f.search
  BY DEF Filters, NoFilter

\* The part of TypeOK that is about one query.
QueryOK(c, f) ==
  /\ c \in Query
  /\ c.pages <= Last(f)
  /\ c.fetch = "next" => c.pages < Last(f)
  /\ c.fetch = "first" <=> c.pages = 0 /\ c.fetch # "idle"

CacheOK == cache \in [Filters -> Query] /\ \A f \in Filters : QueryOK(cache[f], f)

----------------------------------------------------------------------------
(* The observer. *)

\* However it runs, the effect leaves an observer of a sentinel that is there, and
\* an entry that tells where it is.
LEMMA ObservedOK ==
  ASSUME NEW waiting \in {"none", "in", "out"}, attached \in BOOLEAN, near' \in BOOLEAN,
         waiting = "in" => near', waiting = "out" => ~near', Observed(waiting)
  PROVE  attached' \in BOOLEAN /\ event' \in {"none", "in", "out"} /\ ObserverOK'
<1>1. \/ attached' = SentinelShown(at', cache', filter')
      \/ attached' = (attached /\ SentinelShown(at', cache', filter'))
  BY DEF Observed
<1>2. SentinelShown(at', cache', filter') \in BOOLEAN
  BY DEF SentinelShown
<1>3. attached' \in BOOLEAN /\ (attached' => SentinelShown(at', cache', filter'))
  BY <1>1, <1>2
<1>4. \/ event' = IF ~attached' THEN "none" ELSE IF near' THEN "in" ELSE "out"
      \/ event' = IF attached' THEN waiting ELSE "none"
  BY DEF Observed
<1>5. /\ event' \in {"none", "in", "out"}
      /\ event' # "none" => attached'
      /\ event' = "in" => near'
      /\ event' = "out" => ~near'
  BY <1>4
<1>6. ObserverOK' = /\ attached' => SentinelShown(at', cache', filter')
                    /\ event' # "none" => attached'
                    /\ event' = "in" => near'
                    /\ event' = "out" => ~near'
  BY DEF ObserverOK
<1> QED
  BY <1>3, <1>5, <1>6

\* A query moves on, the page stays where it is and the effect may run.
LEMMA PageStep ==
  ASSUME IInv, CacheOK', NEW waiting \in {"none", "in", "out"},
         waiting = "in" => near, waiting = "out" => ~near, Observed(waiting),
         UNCHANGED <<at, near>>, filter' \in Filters,
         input' \in Searches \cup {NoSearch}, timer' \in Searches \cup {NoSearch, NoTimer},
         SearchIsCurrent', ShownOrLoading',
         at = "away" => filter' = NoFilter /\ timer' = NoTimer /\ input' = NoSearch
  PROVE  IInv'
<1>1. attached \in BOOLEAN /\ near' \in BOOLEAN
  BY DEF IInv, TypeOK
<1>2. attached' \in BOOLEAN /\ event' \in {"none", "in", "out"} /\ ObserverOK'
  BY <1>1, ObservedOK
<1>3. TypeOK'
  BY <1>2 DEF IInv, TypeOK, CacheOK, QueryOK
<1> QED
  BY <1>2, <1>3 DEF IInv

----------------------------------------------------------------------------
(* The query. *)

\* One query of the cache moves on.
LEMMA CacheStep ==
  ASSUME IInv, NEW f \in Filters, NEW v, QueryOK(v, f), cache' = [cache EXCEPT ![f] = v]
  PROVE  CacheOK' /\ cache'[f] = v /\ \A g \in Filters \ {f} : cache'[g] = cache[g]
<1>1. cache \in [Filters -> Query] /\ \A g \in Filters : QueryOK(cache[g], g)
  BY DEF IInv, TypeOK, QueryOK
<1>2. v \in Query
  BY DEF QueryOK
<1>3. cache' \in [Filters -> Query]
  BY <1>1, <1>2
<1>4. cache'[f] = v /\ \A g \in Filters \ {f} : cache'[g] = cache[g]
  BY <1>1
<1>5. \A g \in Filters : QueryOK(cache'[g], g)
  BY <1>1, <1>4
<1>6. QueryOK(v, f) = QueryOK(v, f)'
  BY DEF QueryOK
<1> QED
  BY <1>3, <1>4, <1>5 DEF CacheOK, QueryOK

\* A filter that becomes active is loaded, loading or loaded again.
LEMMA ActiveOK ==
  ASSUME IInv, NEW f \in Filters, cache' = Active(cache, f)
  PROVE  CacheOK' /\ cache'[f].fetch # "idle"
<1>1. QueryOK(cache[f], f) /\ cache \in [Filters -> Query]
  BY DEF IInv, TypeOK, QueryOK
<1>2. CASE cache[f].fetch # "idle"
  <2>1. cache' = cache
    BY <1>2 DEF Active
  <2> QED
    BY <1>2, <2>1 DEF IInv, TypeOK, CacheOK, QueryOK
<1>3. CASE cache[f].fetch = "idle" /\ cache[f].pages = 0
  <2> DEFINE v == [pages |-> 0, err |-> FALSE, fetch |-> "first"]
  <2>1. cache' = [cache EXCEPT ![f] = v]
    BY <1>3 DEF Active
  <2>2. QueryOK(v, f) /\ v.fetch # "idle"
    BY LastType DEF QueryOK, Query
  <2> HIDE DEF v
  <2> QED
    BY <2>1, <2>2, CacheStep
<1>4. CASE cache[f].fetch = "idle" /\ cache[f].pages # 0
  <2> DEFINE v == [cache[f] EXCEPT !.fetch = "again"]
  <2>1. cache' = [cache EXCEPT ![f] = v]
    BY <1>4 DEF Active
  <2>2. QueryOK(v, f) /\ v.fetch # "idle"
    BY <1>1, <1>4 DEF QueryOK, Query
  <2> HIDE DEF v
  <2> QED
    BY <2>1, <2>2, CacheStep
<1> QED
  BY <1>2, <1>3, <1>4

\* A page arrives, and no page beyond the last.
LEMMA ArriveStep == ASSUME IInv, NEW f \in Filters, Arrive(f) PROVE IInv'
<1> DEFINE v == [pages |-> IF cache[f].fetch = "again" THEN cache[f].pages
                           ELSE cache[f].pages + 1,
                 err |-> FALSE, fetch |-> "idle"]
<1>1. QueryOK(cache[f], f) /\ cache[f].fetch # "idle"
  BY DEF IInv, TypeOK, QueryOK, Arrive
<1>2. /\ cache' = [cache EXCEPT ![f] = v]
      /\ UNCHANGED <<at, input, timer, filter, near>>
      /\ Observed(event)
  BY DEF Arrive, IInv, TypeOK
<1>3. QueryOK(v, f) /\ v.pages > 0
  BY <1>1, LastType DEF QueryOK, Query
<1> HIDE DEF v
<1>4. CacheOK' /\ cache'[f] = v /\ \A g \in Filters \ {f} : cache'[g] = cache[g]
  BY <1>2, <1>3, CacheStep
<1>5. ShownOrLoading'
  BY <1>2, <1>3, <1>4 DEF IInv, TypeOK, ShownOrLoading
<1>6. SearchIsCurrent'
  BY <1>2 DEF IInv, SearchIsCurrent
<1> QED
  BY <1>2, <1>4, <1>5, <1>6, PageStep DEF IInv, TypeOK, ObserverOK

\* A fetch fails.
LEMMA FailStep == ASSUME IInv, NEW f \in Filters, FetchFails(f) PROVE IInv'
<1> DEFINE v == [cache[f] EXCEPT !.err = TRUE, !.fetch = "idle"]
<1>1. QueryOK(cache[f], f)
  BY DEF IInv, TypeOK, QueryOK
<1>2. /\ cache' = [cache EXCEPT ![f] = v]
      /\ UNCHANGED <<at, input, timer, filter, near>>
      /\ Observed(event)
  BY DEF FetchFails, IInv, TypeOK
<1>3. QueryOK(v, f) /\ v.err
  BY <1>1 DEF QueryOK, Query
<1> HIDE DEF v
<1>4. CacheOK' /\ cache'[f] = v /\ \A g \in Filters \ {f} : cache'[g] = cache[g]
  BY <1>2, <1>3, CacheStep
<1>5. ShownOrLoading'
  BY <1>2, <1>3, <1>4 DEF IInv, TypeOK, ShownOrLoading
<1>6. SearchIsCurrent'
  BY <1>2 DEF IInv, SearchIsCurrent
<1> QED
  BY <1>2, <1>4, <1>5, <1>6, PageStep DEF IInv, TypeOK, ObserverOK

\* An entry is delivered and may start the next page.
LEMMA IntersectStep == ASSUME IInv, Intersect PROVE IInv'
<1>1. /\ UNCHANGED <<at, input, timer, filter, near>>
      /\ Observed("none")
  BY DEF Intersect
<1>2. filter \in Filters /\ QueryOK(cache[filter], filter)
  BY DEF IInv, TypeOK, QueryOK
<1>3. CacheOK' /\ ShownOrLoading'
  <2>1. CASE event = "in" /\ More(cache, filter) /\ ~FetchingNext(cache, filter)
    <3> DEFINE v == [cache[filter] EXCEPT !.fetch = "next"]
    <3>1. cache' = [cache EXCEPT ![filter] = v]
      BY <2>1 DEF Intersect, IInv, TypeOK
    <3>2. QueryOK(v, filter) /\ v.fetch # "idle"
      BY <1>2, <2>1 DEF QueryOK, Query, More
    <3> HIDE DEF v
    <3>3. CacheOK' /\ cache'[filter] = v
      BY <1>2, <3>1, <3>2, CacheStep
    <3> QED
      BY <1>1, <3>2, <3>3 DEF ShownOrLoading
  <2>2. CASE ~(event = "in" /\ More(cache, filter) /\ ~FetchingNext(cache, filter))
    <3>1. cache' = cache
      BY <2>2 DEF Intersect
    <3> QED
      BY <1>1, <3>1 DEF IInv, TypeOK, CacheOK, QueryOK, ShownOrLoading
  <2> QED
    BY <2>1, <2>2
<1>4. SearchIsCurrent'
  BY <1>1 DEF IInv, SearchIsCurrent
<1> QED
  BY <1>1, <1>2, <1>3, <1>4, PageStep DEF IInv, TypeOK, ObserverOK

----------------------------------------------------------------------------
(* The page. *)

\* Another filter is loaded, or its pages again.
LEMMA FilterStep ==
  ASSUME IInv, at = "library", NEW f \in Filters, Filter(f),
         input' \in Searches \cup {NoSearch}, timer' \in Searches \cup {NoSearch, NoTimer},
         SearchIsCurrent'
  PROVE  IInv'
<1>1. filter' = f /\ UNCHANGED <<at, near>> /\ Observed(event)
  BY DEF Filter
<1>2. CacheOK' /\ ShownOrLoading'
  <2>1. CASE f = filter
    <3>1. cache' = cache
      BY <2>1 DEF Filter
    <3> QED
      BY <1>1, <2>1, <3>1 DEF IInv, TypeOK, CacheOK, QueryOK, ShownOrLoading
  <2>2. CASE f # filter
    <3>1. cache' = Active(cache, f)
      BY <2>2 DEF Filter
    <3>2. CacheOK' /\ cache'[f].fetch # "idle"
      BY <3>1, ActiveOK
    <3> QED
      BY <1>1, <3>2 DEF ShownOrLoading
  <2> QED
    BY <2>1, <2>2
<1> QED
  BY <1>1, <1>2, PageStep DEF IInv, TypeOK, ObserverOK

\* The timer fires: its text, which is the box's, becomes the filter's.
LEMMA DebouncedStep == ASSUME IInv, Debounced PROVE IInv'
<1>1. timer \in Searches \cup {NoSearch} /\ filter \in Filters
  BY DEF IInv, TypeOK, Debounced
<1>2. PICK f \in Filters : f = [filter EXCEPT !.search = timer] /\ f.search = timer
  <2>1. /\ [filter EXCEPT !.search = timer] \in Filters
        /\ [filter EXCEPT !.search = timer].search = timer
    BY <1>1, FilterType
  <2> QED
    BY <2>1
<1>3. Filter(f) /\ timer' = NoTimer /\ input' = input
  BY <1>2 DEF Debounced
<1>4. at = "library"
  BY DEF IInv, TypeOK, Debounced
<1>5. filter' = f /\ at' = at
  BY <1>3 DEF Filter
<1>6. timer = input
  BY <1>4 DEF IInv, SearchIsCurrent, Debounced
<1>7. SearchIsCurrent'
  BY <1>2, <1>3, <1>5, <1>6 DEF SearchIsCurrent
<1> QED
  BY <1>3, <1>4, <1>7, FilterStep DEF IInv, TypeOK

\* A tag or a date is chosen.
LEMMA PickStep == ASSUME IInv, NEW p \in Picks \cup {NoPick}, Pick(p) PROVE IInv'
<1>1. filter \in Filters
  BY DEF IInv, TypeOK
<1>2. PICK f \in Filters : f = [filter EXCEPT !.pick = p] /\ f.search = filter.search
  BY <1>1, FilterType
<1>3. Filter(f) /\ at = "library" /\ UNCHANGED <<input, timer>>
  BY <1>2 DEF Pick
<1>4. filter' = f /\ at' = at
  BY <1>3 DEF Filter
<1>5. SearchIsCurrent'
  BY <1>2, <1>3, <1>4 DEF IInv, SearchIsCurrent
<1> QED
  BY <1>3, <1>5, FilterStep DEF IInv, TypeOK

\* The reader types, or scrolls.
LEMMA ReaderStep ==
  ASSUME IInv, Scroll \/ \E s \in Searches \cup {NoSearch} : Type(s)
  PROVE  IInv'
<1>1. CASE Scroll
  <2>1. /\ near \in BOOLEAN /\ near' = ~near
        /\ event' = IF ~attached THEN "none" ELSE IF near' THEN "in" ELSE "out"
        /\ UNCHANGED <<at, input, timer, filter, cache, attached>>
    BY <1>1 DEF Scroll, IInv, TypeOK
  <2>2. near' \in BOOLEAN /\ event' \in {"none", "in", "out"}
    BY <2>1
  <2>3. /\ event' # "none" => attached'
        /\ event' = "in" => near'
        /\ event' = "out" => ~near'
    BY <2>1
  <2>4. attached' => SentinelShown(at', cache', filter')
    BY <2>1 DEF IInv, ObserverOK, SentinelShown
  <2>5. ObserverOK'
    BY <2>3, <2>4 DEF ObserverOK
  <2>6. TypeOK'
    BY <2>1, <2>2 DEF IInv, TypeOK
  <2> QED
    BY <2>1, <2>5, <2>6 DEF IInv, SearchIsCurrent, ShownOrLoading
<1>2. ASSUME NEW s \in Searches \cup {NoSearch}, Type(s) PROVE IInv'
  <2>1. /\ input' = s /\ timer' = s
        /\ UNCHANGED <<at, filter, cache, attached, event, near>>
    BY <1>2 DEF Type
  <2>2. SearchIsCurrent'
    BY <2>1, LibraryAssumption DEF SearchIsCurrent
  <2>3. ObserverOK' /\ ShownOrLoading'
    BY <2>1 DEF IInv, ObserverOK, ShownOrLoading, SentinelShown
  <2>4. TypeOK'
    BY <2>1 DEF IInv, TypeOK
  <2> QED
    BY <1>2, <2>1, <2>2, <2>3, <2>4 DEF IInv, Type
<1> QED
  BY <1>1, <1>2

\* The reader leaves: only the cache remains.
LEMMA LeaveStep == ASSUME IInv, Leave PROVE IInv'
<1>1. /\ at' = "away" /\ input' = NoSearch /\ timer' = NoTimer /\ filter' = NoFilter
      /\ attached' = FALSE /\ event' = "none" /\ near' = FALSE
      /\ cache' = cache
  BY DEF Leave
<1>2. TypeOK'
  BY <1>1, FilterType DEF IInv, TypeOK
<1> QED
  BY <1>1, <1>2 DEF IInv, SearchIsCurrent, ShownOrLoading, ObserverOK

\* The reader comes back.
LEMMA ReturnStep == ASSUME IInv, Return PROVE IInv'
<1>1. /\ at' = "library" /\ timer' = NoSearch /\ cache' = Active(cache, filter)
      /\ near' \in BOOLEAN /\ UNCHANGED <<input, filter>> /\ Observed("none")
      /\ at = "away" /\ filter \in Filters
  BY DEF Return, IInv, TypeOK
<1>2. CacheOK' /\ cache'[filter].fetch # "idle"
  BY <1>1, ActiveOK
<1>3. attached' \in BOOLEAN /\ event' \in {"none", "in", "out"} /\ ObserverOK'
  <2>1. attached \in BOOLEAN
    BY DEF IInv, TypeOK
  <2> QED
    BY <1>1, <2>1, ObservedOK
<1>4. ShownOrLoading'
  BY <1>1, <1>2 DEF ShownOrLoading
<1>5. SearchIsCurrent'
  BY <1>1, LibraryAssumption DEF IInv, SearchIsCurrent
<1>6. TypeOK'
  BY <1>1, <1>2, <1>3 DEF IInv, TypeOK, CacheOK, QueryOK
<1> QED
  BY <1>1, <1>3, <1>4, <1>5, <1>6 DEF IInv

----------------------------------------------------------------------------
(* The theorems. *)

\* Before the first visit.
LEMMA InitOK == Init => IInv
<1> SUFFICES ASSUME Init PROVE IInv
  OBVIOUS
<1> DEFINE c == [pages |-> 0, err |-> FALSE, fetch |-> "idle"]
<1>1. c \in Query /\ c.pages = 0 /\ c.fetch = "idle"
  BY DEF Query
<1>2. cache = [f \in Filters |-> c]
  BY DEF Init
<1> HIDE DEF c
<1>3. CacheOK
  BY <1>1, <1>2, LastType DEF CacheOK, QueryOK
<1>4. TypeOK
  BY <1>3, FilterType DEF Init, TypeOK, CacheOK, QueryOK
<1> QED
  BY <1>4 DEF Init, IInv, SearchIsCurrent, ShownOrLoading, ObserverOK

\* Every step preserves the invariant.
LEMMA StepOK == IInv /\ [Next]_vars => IInv'
<1> SUFFICES ASSUME IInv, [Next]_vars PROVE IInv'
  OBVIOUS
<1>1. CASE UNCHANGED vars
  BY <1>1 DEF vars, IInv, TypeOK, SearchIsCurrent, ShownOrLoading, ObserverOK, SentinelShown
<1>2. CASE Scroll \/ Intersect \/ Debounced \/ Leave \/ Return
  BY <1>2, ReaderStep, IntersectStep, DebouncedStep, LeaveStep, ReturnStep
<1>3. ASSUME NEW f \in Filters, Arrive(f) \/ FetchFails(f) PROVE IInv'
  BY <1>3, ArriveStep, FailStep
<1>4. ASSUME NEW s \in Searches \cup {NoSearch}, Type(s) PROVE IInv'
  BY <1>4, ReaderStep
<1>5. ASSUME NEW p \in Picks \cup {NoPick}, Pick(p) PROVE IInv'
  BY <1>5, PickStep
<1> QED
  BY <1>1, <1>2, <1>3, <1>4, <1>5 DEF Next

\* The box, the timer and the filter agree, the page is never blank, and an entry
\* that waits is about the sentinel that is there, for any filters and pages.
THEOREM Inductive == Spec => []IInv
  BY InitOK, StepOK, PTL DEF Spec

\* Every variable keeps its type, and no filter loads a page beyond its last
\* (getNextPageParam, recordings.ts:60-77).
THEOREM TypesHold == Spec => []TypeOK
<1>1. IInv => TypeOK
  BY DEF IInv
<1> QED
  BY <1>1, Inductive, PTL

\* With the debounce over, the list is filtered by what the box says
\* (LibraryPage.tsx:16-26), whatever was typed, picked and left before.
THEOREM FilterIsCurrent == Spec => []SearchIsCurrent
<1>1. IInv => SearchIsCurrent
  BY DEF IInv
<1> QED
  BY <1>1, Inductive, PTL

\* The effect, run or not, leaves no end unwatched.
LEMMA ObservedWatches ==
  ASSUME IInv, Watched, NoneFailed', CacheOK', filter' \in Filters, UNCHANGED <<at, near>>,
         Observed(event)
  PROVE  Watched'
<1> SUFFICES ASSUME at' = "library", More(cache', filter'), ~FetchingNext(cache', filter')
             PROVE  attached' /\ (near' => event' = "in")
  BY DEF Watched
<1>1. SentinelShown(at', cache', filter')
  <2>1. cache'[filter'].pages \in Nat /\ cache'[filter'].pages > 0 /\ Last(filter') > 1
    BY LastType DEF CacheOK, Query, More
  <2>2. Size[filter'] > 0
    BY <2>1, LibraryAssumption DEF Last
  <2> QED
    BY <2>1, <2>2 DEF NoneFailed, SentinelShown
<1>2. CASE \/ at = "away"
           \/ More(cache', filter') # More(cache, filter)
           \/ FetchingNext(cache', filter') # FetchingNext(cache, filter)
  <2>1. /\ attached' = SentinelShown(at', cache', filter')
        /\ event' = IF ~attached' THEN "none" ELSE IF near' THEN "in" ELSE "out"
    BY <1>2 DEF Observed
  <2> QED
    BY <1>1, <2>1
<1>3. CASE ~(\/ at = "away"
             \/ More(cache', filter') # More(cache, filter)
             \/ FetchingNext(cache', filter') # FetchingNext(cache, filter))
  <2>1. /\ attached' = (attached /\ SentinelShown(at', cache', filter'))
        /\ event' = IF attached' THEN event ELSE "none"
    BY <1>3 DEF Observed
  <2>2. More(cache, filter) /\ ~FetchingNext(cache, filter) /\ at = "library"
    BY <1>3
  <2>3. attached /\ (near => event = "in")
    BY <2>2 DEF Watched
  <2> QED
    BY <1>1, <2>1, <2>3
<1> QED
  BY <1>2, <1>3

\* An entry that is delivered starts the next page, or the end is out of sight.
LEMMA IntersectWatches == ASSUME IInv, Watched, NoneFailed', IInv', Intersect PROVE Watched'
<1>1. UNCHANGED <<at, input, timer, filter, near>> /\ Observed("none")
  BY DEF Intersect
<1>2. filter \in Filters /\ cache \in [Filters -> Query]
  BY DEF IInv, TypeOK
<1> SUFFICES ASSUME at' = "library", More(cache', filter'), ~FetchingNext(cache', filter')
             PROVE  attached' /\ (near' => event' = "in")
  BY DEF Watched
<1>3. SentinelShown(at', cache', filter')
  <2>1. /\ cache'[filter'].pages \in Nat /\ cache'[filter'].pages > 0
        /\ Last(filter') > 1 /\ filter' \in Filters
    BY <1>1, <1>2, LastType DEF IInv, TypeOK, Query, More
  <2>2. Size[filter'] > 0
    BY <2>1, LibraryAssumption DEF Last
  <2> QED
    BY <2>1, <2>2 DEF NoneFailed, SentinelShown
<1>4. CASE cache' = cache
  <2>1. More(cache, filter) /\ ~FetchingNext(cache, filter) /\ at = "library"
    BY <1>1, <1>4
  <2>2. ~near /\ attached
    BY <1>4, <2>1 DEF Watched, Intersect, FetchingNext, IInv, TypeOK, Query
  <2>3. attached' = (attached /\ SentinelShown(at', cache', filter'))
    BY <1>1, <1>4, <2>1 DEF Observed
  <2> QED
    BY <1>1, <1>3, <2>2, <2>3
<1>5. CASE cache' = [cache EXCEPT ![filter].fetch = "next"]
  <2>1. cache'[filter].fetch = "next"
    BY <1>2, <1>5 DEF Query
  <2> QED
    BY <1>1, <2>1 DEF FetchingNext
<1> QED
  BY <1>4, <1>5 DEF Intersect

\* No step leaves an end unwatched.
LEMMA WatchedStep ==
  IInv /\ IInv' /\ Watched /\ NoneFailed /\ NoneFailed' /\ [Next]_vars => Watched'
<1> SUFFICES ASSUME IInv, IInv', Watched, NoneFailed, NoneFailed', [Next]_vars
             PROVE  Watched'
  OBVIOUS
<1>1. CacheOK' /\ filter' \in Filters
  BY DEF IInv, TypeOK, CacheOK, QueryOK
<1>2. CASE UNCHANGED vars \/ \E s \in Searches \cup {NoSearch} : Type(s)
  <2>1. UNCHANGED <<at, filter, cache, attached, event, near>>
    BY <1>2 DEF vars, Type
  <2> QED
    BY <2>1 DEF Watched, More, FetchingNext
<1>3. CASE Intersect
  BY <1>3, IntersectWatches
<1>4. CASE \/ \E f \in Filters : Arrive(f) \/ FetchFails(f)
           \/ Debounced \/ \E p \in Picks \cup {NoPick} : Pick(p)
  <2>1. UNCHANGED <<at, near>> /\ Observed(event)
    BY <1>4 DEF Arrive, FetchFails, Debounced, Pick, Filter
  <2> QED
    BY <1>1, <2>1, ObservedWatches
<1>5. CASE Scroll
  <2>1. /\ event' = IF ~attached THEN "none" ELSE IF near' THEN "in" ELSE "out"
        /\ UNCHANGED <<at, filter, cache, attached>>
    BY <1>5 DEF Scroll
  <2> QED
    BY <2>1 DEF Watched, More, FetchingNext
<1>6. CASE Leave
  BY <1>6 DEF Leave, Watched
<1>7. CASE Return
  <2>1. /\ attached' = SentinelShown(at', cache', filter')
        /\ event' = IF ~attached' THEN "none" ELSE IF near' THEN "in" ELSE "out"
        /\ at' = "library"
    BY <1>7 DEF Return, Observed
  <2>2. More(cache', filter') => SentinelShown(at', cache', filter')
    <3> SUFFICES ASSUME More(cache', filter') PROVE SentinelShown(at', cache', filter')
      OBVIOUS
    <3>1. cache'[filter'].pages \in Nat /\ cache'[filter'].pages > 0 /\ Last(filter') > 1
      BY <1>1, LastType DEF CacheOK, Query, More
    <3>2. Size[filter'] > 0
      BY <1>1, <3>1, LibraryAssumption DEF Last
    <3> QED
      BY <1>1, <2>1, <3>1, <3>2 DEF NoneFailed, SentinelShown
  <2> QED
    BY <2>1, <2>2 DEF Watched
<1> QED
  BY <1>2, <1>3, <1>4, <1>5, <1>6, <1>7 DEF Next

\* While no fetch has failed, a list with more to load has its end observed, and
\* an end in sight has the entry that loads the next page (RecordingList.tsx:35-53):
\* what AllPagesLoad needs besides fairness, for any filters and numbers of pages.
THEOREM TheEndIsWatched == Spec => EndIsWatched
<1>1. Init => Watched
  BY DEF Init, Watched
<1> QED
  BY <1>1, Inductive, WatchedStep, PTL DEF Spec, EndIsWatched

=============================================================================
