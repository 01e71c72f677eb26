------------------------------ MODULE Library ------------------------------
(***************************************************************************)
(* The library page: LibraryPage's search box and filters, RecordingList's *)
(* pages and the intersection observer that loads them, over the infinite  *)
(* query of useInfiniteRecordings.  The search is debounced; each filter   *)
(* has pages of its own in the cache; a page is loaded when an observed    *)
(* sentinel below the list comes near the view.  The browser, the server   *)
(* and TanStack Query are external.                                        *)
(***************************************************************************)
EXTENDS Integers

CONSTANTS
  Searches, NoSearch,   \* texts of the search box
  Picks, NoPick,        \* choices of tag, from and to date
  NoTimer,
  Size                  \* the pages the server has for a filter

Filters == [search : Searches \cup {NoSearch}, pick : Picks \cup {NoPick}]
NoFilter == [search |-> NoSearch, pick |-> NoPick]

ASSUME LibraryAssumption ==
  /\ Size \in [Filters -> Nat]
  /\ NoTimer \notin Searches \cup {NoSearch}

VARIABLES
  at,        \* whether LibraryPage is mounted
  input,     \* searchInput
  timer,     \* the search text of the debounce timer that runs
  filter,
  cache,     \* the query of each filter
  attached,  \* an observer watches the sentinel that is on the page
  event,     \* its entry that waits to be delivered
  near       \* the sentinel is within 200px of the view

vars == <<at, input, timer, filter, cache, attached, event, near>>

\* A filter without recordings has one empty page.
Last(f) == IF Size[f] = 0 THEN 1 ELSE Size[f]

\* first: the first page; next: fetchNextPage; again: all loaded pages.
Query == [pages : Nat, err : BOOLEAN, fetch : {"idle", "first", "next", "again"}]

\* Types; and the pages are loaded from the first to the last and no further,
\* with a fetch that knows what is loaded.
TypeOK ==
  /\ at \in {"library", "away"}
  /\ input \in Searches \cup {NoSearch}
  /\ timer \in Searches \cup {NoSearch, NoTimer}
  /\ filter \in Filters
  /\ cache \in [Filters -> Query]
  /\ \A f \in Filters :
       /\ cache[f].pages <= Last(f)
       /\ cache[f].fetch = "next" => cache[f].pages < Last(f)
       /\ cache[f].fetch = "first" <=> cache[f].pages = 0 /\ cache[f].fetch # "idle"
  /\ attached \in BOOLEAN
  /\ event \in {"none", "in", "out"}
  /\ near \in BOOLEAN

\* Bug form: the page that ends at the total is taken to have a next one.
MoreAtTotal(c, f) == c[f].pages > 0 /\ c[f].pages <= Last(f)

\* getNextPageParam; false while nothing is loaded.
More(c, f) == c[f].pages > 0 /\ c[f].pages < Last(f)

FetchingNext(c, f) == c[f].fetch = "next"

\* Neither loading, nor an error, which hides what is loaded, nor empty.
SentinelShown(a, c, f) ==
  a = "library" /\ c[f].pages > 0 /\ ~c[f].err /\ Size[f] > 0

\* A query that becomes active is fetched, as its data is stale at once; one that
\* is being fetched is joined.
Active(c, f) ==
  IF c[f].fetch # "idle" THEN c
  ELSE [c EXCEPT ![f] = IF c[f].pages = 0
                        THEN [pages |-> 0, err |-> FALSE, fetch |-> "first"]
                        ELSE [c[f] EXCEPT !.fetch = "again"]]

----------------------------------------------------------------------------
\* The observer.  After every render the effect runs again if handleIntersect
\* has changed: disconnects, and observes the sentinel if there is one, which
\* delivers an entry.

\* Bug form: the effect runs on mount only.
ObservedOnMount(waiting) ==
  IF at' = "library" /\ at = "away"
  THEN /\ attached' = SentinelShown(at', cache', filter')
       /\ event' = IF ~attached' THEN "none" ELSE IF near' THEN "in" ELSE "out"
  ELSE /\ attached' = (attached /\ SentinelShown(at', cache', filter'))
       /\ event' = IF attached' THEN waiting ELSE "none"

\* A sentinel that is taken from the page takes its observer's sight with it.
Observed(waiting) ==
  IF at' = "library"
     /\ \/ at = "away"
        \/ More(cache', filter') # More(cache, filter)
        \/ FetchingNext(cache', filter') # FetchingNext(cache, filter)
  THEN /\ attached' = SentinelShown(at', cache', filter')
       /\ event' = IF ~attached' THEN "none" ELSE IF near' THEN "in" ELSE "out"
  ELSE /\ attached' = (attached /\ SentinelShown(at', cache', filter'))
       /\ event' = IF attached' THEN waiting ELSE "none"

\* Scrolling, or what is rendered above it, moves the sentinel.  The browser
\* delivers an entry before it computes the next.
Scroll ==
  /\ at = "library" /\ event = "none"
  /\ near' = ~near
  /\ event' = IF ~attached THEN "none" ELSE IF near' THEN "in" ELSE "out"
  /\ UNCHANGED <<at, input, timer, filter, cache, attached>>

\* handleIntersect; fetchNextPage replaces a refetch in flight.
Intersect ==
  /\ event # "none"
  /\ cache' = IF event = "in" /\ More(cache, filter) /\ ~FetchingNext(cache, filter)
              THEN [cache EXCEPT ![filter].fetch = "next"] ELSE cache
  /\ UNCHANGED <<at, input, timer, filter, near>>
  /\ Observed("none")

----------------------------------------------------------------------------
\* The query.

Arrive(f) ==
  /\ cache[f].fetch # "idle"
  /\ cache' = [cache EXCEPT ![f] =
       [pages |-> IF @.fetch = "again" THEN @.pages ELSE @.pages + 1,
        err |-> FALSE, fetch |-> "idle"]]
  /\ UNCHANGED <<at, input, timer, filter, near>>
  /\ Observed(event)

\* Bound: one filter in error at a time.
FetchFails(f) ==
  /\ cache[f].fetch # "idle"
  /\ \A g \in Filters \ {f} : ~cache[g].err
  /\ cache' = [cache EXCEPT ![f].err = TRUE, ![f].fetch = "idle"]
  /\ UNCHANGED <<at, input, timer, filter, near>>
  /\ Observed(event)

----------------------------------------------------------------------------
\* LibraryPage.

Filter(f) ==
  /\ filter' = f
  /\ cache' = IF f = filter THEN cache ELSE Active(cache, f)
  /\ UNCHANGED <<at, near>>
  /\ Observed(event)

\* Bug form: a timer that runs is not replaced.
TypeOnce(s) ==
  /\ at = "library" /\ s # input
  /\ input' = s
  /\ timer' = IF timer = NoTimer THEN s ELSE timer
  /\ UNCHANGED <<at, filter, cache, attached, event, near>>

\* The effect of searchInput: the timer starts anew.
Type(s) ==
  /\ at = "library" /\ s # input
  /\ input' = s
  /\ timer' = s
  /\ UNCHANGED <<at, filter, cache, attached, event, near>>

Debounced ==
  /\ timer # NoTimer
  /\ timer' = NoTimer
  /\ Filter([filter EXCEPT !.search = timer])
  /\ UNCHANGED input

\* handleTagsChange, handleFromChange, handleToChange.
Pick(p) ==
  /\ at = "library" /\ p # filter.pick
  /\ Filter([filter EXCEPT !.pick = p])
  /\ UNCHANGED <<input, timer>>

Leave ==
  /\ at = "library"
  /\ at' = "away" /\ input' = NoSearch /\ timer' = NoTimer
  /\ filter' = NoFilter
  /\ attached' = FALSE /\ event' = "none" /\ near' = FALSE
  /\ UNCHANGED cache

Return ==
  /\ at = "away"
  /\ at' = "library"
  /\ timer' = NoSearch
  /\ cache' = Active(cache, filter)
  /\ near' \in BOOLEAN
  /\ UNCHANGED <<input, filter>>
  /\ Observed("none")

Init ==
  /\ at = "away" /\ input = NoSearch /\ timer = NoTimer
  /\ filter = NoFilter
  /\ cache = [f \in Filters |-> [pages |-> 0, err |-> FALSE, fetch |-> "idle"]]
  /\ attached = FALSE /\ event = "none" /\ near = FALSE

Next ==
  \/ Scroll \/ Intersect
  \/ \E f \in Filters : Arrive(f) \/ FetchFails(f)
  \/ \E s \in Searches \cup {NoSearch} : Type(s)
  \/ Debounced
  \/ \E p \in Picks \cup {NoPick} : Pick(p)
  \/ Leave \/ Return

Spec == Init /\ [][Next]_vars

\* Timers fire, entries are delivered and requests end.
FairSpec ==
  /\ Spec
  /\ WF_vars(Intersect) /\ WF_vars(Debounced)
  /\ \A f \in Filters : WF_vars(Arrive(f))

----------------------------------------------------------------------------
(* Safety. *)

\* Whenever no timer runs, the list is filtered by what the box says, and a timer
\* that runs has the text of the box: no text typed before waits in it
\* (LibraryPage.tsx:16-26).
SearchIsCurrent ==
  at = "library" =>
    IF timer = NoTimer THEN filter.search = input ELSE timer = input

\* The filter on the page is never blank: it is loaded, being loaded, or says that
\* it failed, whichever filters were picked or left before (recordings.ts:82-103).
ShownOrLoading ==
  at = "library" =>
    \/ cache[filter].pages > 0 \/ cache[filter].err
    \/ cache[filter].fetch # "idle"

\* An observer watches a sentinel that is on the page, and an entry that waits
\* says where the sentinel is (RecordingList.tsx:44-53).
ObserverOK ==
  /\ attached => SentinelShown(at, cache, filter)
  /\ event # "none" => attached
  /\ event = "in" => near
  /\ event = "out" => ~near

\* What every step preserves.
IInv ==
  /\ TypeOK
  /\ SearchIsCurrent
  /\ ShownOrLoading
  /\ ObserverOK
  /\ at = "away" => filter = NoFilter /\ timer = NoTimer /\ input = NoSearch

\* Where more can be loaded and is not being loaded, an observer watches the end
\* of the list, and the entry that will load more waits if the end is in sight.
Watched ==
  at = "library" /\ More(cache, filter) /\ ~FetchingNext(cache, filter) =>
    attached /\ (near => event = "in")

NoneFailed == \A f \in Filters : ~cache[f].err

\* While no fetch has failed, the end of the list is never left unwatched: after
\* every page, filter, return and refetch the effect has observed the sentinel
\* that is there now (RecordingList.tsx:35-53).
EndIsWatched == []NoneFailed => []Watched

----------------------------------------------------------------------------
(* Liveness. *)

\* While no fetch has failed: a user who stays at the end of the list gets the
\* whole of it, whichever filters, returns and refetches came before.  Nothing
\* else starts the next page, so an entry that is not delivered, or delivered to
\* an observer of a sentinel that is gone, would end the list early
\* (RecordingList.tsx:35-53).
AllPagesLoad ==
  \A f \in Filters :
    <>[](at = "library" /\ filter = f /\ near) /\ [](\A g \in Filters : ~cache[g].err)
    => <>[](cache[f].pages = Last(f))

\* The list is filtered by what the search box says, once typing has stopped,
\* and by no text that was in it before (LibraryPage.tsx:16-26).
FilterFollowsInput ==
  \A s \in Searches \cup {NoSearch} :
    <>[](at = "library" /\ input = s) => <>[](filter.search = s)

=============================================================================
