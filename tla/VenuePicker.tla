----------------------------- MODULE VenuePicker ----------------------------
(***************************************************************************)
(* The venue picker (NearbyCourtsModal) with the two hooks behind it: the  *)
(* paged search of useNearbyVenues and the location of useVenueLocation.   *)
(* SessionComposer has the screens that open it.                           *)
(*                                                                         *)
(* A render and the effects it fires are one step.  A request is answered  *)
(* or fails later; an answer counts only while its request is the newest,  *)
(* whatever has been closed, typed or chosen since.  A venue carries the   *)
(* search it was found by.                                                 *)
(***************************************************************************)
EXTENDS Integers, FiniteSets

CONSTANTS
    None,       \* null
    Sport,      \* sports
    VenueId,    \* venues of the catalog
    Placed,     \* those with finite coordinates, which have a marker
    Radius,     \* the radius chips; "near" is one of them
    Query,      \* texts that may be searched for or typed
    MaxRequests \* bound on the searches in flight at the same time

ASSUME PickerAssumption == "near" \in Radius /\ Placed \subseteq VenueId
ASSUME RequestAssumption == MaxRequests \in Nat \ {0}

VARIABLES
    isOpen,   \* the modal is visible
    sport,    \* the sport of the session, a property of the modal
    located,  \* useVenueLocation: status; the coordinates come with "granted"
    form,     \* what is chosen and typed in the modal
    hook,     \* the state of useNearbyVenues
    requests  \* the searches in flight

pickerVars == <<isOpen, located, form, hook, requests>>

VenueLocationStatus == {"idle", "loading", "granted", "denied", "unavailable"}
RadiusOption == {"near", "5", "10", "25", "wider"}
Typed == Query \cup {""}

\* What useNearbyVenues searches by; the source follows the coordinates.
NearbyVenuesQuery == [sport : Sport, coords : BOOLEAN, radiusKm : Radius, q : Typed]
Venue == [id : VenueId, for : NearbyVenuesQuery]

Form == [mode : {"list", "map"}, mapSelectedVenue : Venue \cup {None},
         radiusOption : Radius, manualText : Typed, searchText : Typed,
         debouncedSearch : Typed]
Hook == [venues : SUBSET Venue, isLoading : BOOLEAN, isLoadingMore : BOOLEAN,
         error : BOOLEAN, nextCursor : BOOLEAN]
Search == [current : BOOLEAN, isFirstPage : BOOLEAN, args : NearbyVenuesQuery]

NewForm == [mode |-> "list", mapSelectedVenue |-> None, radiusOption |-> "near",
            manualText |-> "", searchText |-> "", debouncedSearch |-> ""]
NewHook == [venues |-> {}, isLoading |-> FALSE, isLoadingMore |-> FALSE,
            error |-> FALSE, nextCursor |-> FALSE]

hasCoords == located = "granted"

\* buildParams: a radius counts only with coordinates.
Args == [sport |-> sport, coords |-> hasCoords,
         radiusKm |-> IF hasCoords THEN form.radiusOption ELSE "near",
         q |-> form.debouncedSearch]

hasMore == hook.nextCursor /\ ~hook.isLoading /\ ~hook.isLoadingMore

Ids(venues) == {v.id : v \in venues}

-----------------------------------------------------------------------------
(* What the modal offers.                                                  *)

\* The header, the search field and the chips.
HeaderOffers ==
    {"close", "search", "list", "map"} \cup (IF hasCoords THEN {"radius"} ELSE {})

Branch ==
    CASE hook.isLoading -> "spinner"
      [] ~hook.isLoading /\ hook.error -> "retry"
      [] ~hook.isLoading /\ ~hook.error /\ hook.venues = {} -> "empty"
      [] OTHER -> form.mode

\* A card of the list, and a marker of the map.
CardOffers(v) == {"use"}
MarkerOffers(v) == IF v.id \in Placed THEN {"pin"} ELSE {}

\* The results.
ResultsOffers ==
    CASE Branch = "retry" -> {"retry"}
      [] Branch = "list" -> UNION {CardOffers(v) : v \in hook.venues}
                                \cup (IF hasMore THEN {"more"} ELSE {})
      [] Branch = "map" -> UNION {MarkerOffers(v) : v \in hook.venues}
                                \cup (IF form.mapSelectedVenue # None THEN {"select"} ELSE {})
      [] OTHER -> {}

\* The footer for a name that the catalog does not have.
ManualOffers == IF form.manualText # "" THEN {"type", "useManual"} ELSE {"type"}

Offered(control) ==
    isOpen /\ control \in HeaderOffers \cup ResultsOffers \cup ManualOffers

-----------------------------------------------------------------------------
(* useNearbyVenues.                                                        *)

\* Fault: the requests of an older search are believed too.
fetchPageKept(isFirstPage) ==
    /\ requests' = requests \cup
           {[current |-> TRUE, isFirstPage |-> isFirstPage, args |-> Args']}
    /\ hook' = [hook EXCEPT !.isLoading = @ \/ isFirstPage,
                            !.isLoadingMore = @ \/ ~isFirstPage, !.error = FALSE]

\* A search is sent, and makes the ones before it stale.
fetchPage(isFirstPage) ==
    /\ Cardinality(requests) < MaxRequests
    /\ requests' = {[r EXCEPT !.current = FALSE] : r \in requests} \cup
           {[current |-> TRUE, isFirstPage |-> isFirstPage, args |-> Args']}
    /\ hook' = [hook EXCEPT !.isLoading = @ \/ isFirstPage,
                            !.isLoadingMore = @ \/ ~isFirstPage, !.error = FALSE]

\* The effect: the first page again, whenever the arguments have changed.
Refetch ==
    IF isOpen' /\ (~isOpen \/ Args' # Args) THEN fetchPage(TRUE)
    ELSE UNCHANGED <<hook, requests>>

appendDedupedVenues(venues, next) ==
    venues \cup {v \in next : v.id \notin Ids(venues)}

\* A pin whose venue is no longer among the results is dropped.
KeepPin(venues) ==
    form' = IF form.mapSelectedVenue # None
                /\ form.mapSelectedVenue.id \notin Ids(venues)
            THEN [form EXCEPT !.mapSelectedVenue = None] ELSE form

Finished(r) == [hook EXCEPT !.isLoading = @ /\ ~r.isFirstPage,
                            !.isLoadingMore = @ /\ r.isFirstPage]

PageArrived(r, ids, more) ==
    LET items == {[id |-> i, for |-> r.args] : i \in ids}
        venues == IF r.isFirstPage THEN items ELSE appendDedupedVenues(hook.venues, items)
    IN /\ r.current
       /\ hook' = [Finished(r) EXCEPT !.venues = venues, !.nextCursor = more]
       /\ KeepPin(venues)
       /\ requests' = requests \ {r}
       /\ UNCHANGED <<isOpen, sport, located>>

\* Fault: the spinner stays.
PageFailedSpinning(r) ==
    LET venues == IF r.isFirstPage THEN {} ELSE hook.venues
    IN /\ r.current
       /\ hook' = [hook EXCEPT !.error = TRUE, !.venues = venues,
                               !.nextCursor = @ /\ ~r.isFirstPage]
       /\ KeepPin(venues)
       /\ requests' = requests \ {r}
       /\ UNCHANGED <<isOpen, sport, located>>

PageFailed(r) ==
    LET venues == IF r.isFirstPage THEN {} ELSE hook.venues
    IN /\ r.current
       /\ hook' = [Finished(r) EXCEPT !.error = TRUE, !.venues = venues,
                                      !.nextCursor = @ /\ ~r.isFirstPage]
       /\ KeepPin(venues)
       /\ requests' = requests \ {r}
       /\ UNCHANGED <<isOpen, sport, located>>

\* The answer, or the failure, of an older search.
StaleAnswer(r) ==
    /\ ~r.current
    /\ requests' = requests \ {r}
    /\ UNCHANGED <<isOpen, sport, located, form, hook>>

refresh ==
    /\ Offered("retry")
    /\ UNCHANGED <<isOpen, sport, located, form>>
    /\ fetchPage(TRUE)

loadMore ==
    /\ Offered("more")
    /\ UNCHANGED <<isOpen, sport, located, form>>
    /\ fetchPage(FALSE)

-----------------------------------------------------------------------------
(* The modal.                                                              *)

\* The prompt and the position, asked for once, when the modal is first opened.
LocationResolved(status) ==
    /\ located = "loading"
    /\ located' = status
    /\ UNCHANGED <<isOpen, sport, form>>
    /\ Refetch

Opened ==
    /\ ~isOpen
    /\ isOpen' = TRUE
    /\ located' = IF located = "idle" THEN "loading" ELSE located
    /\ form' = [NewForm EXCEPT !.mode = form.mode]
    /\ UNCHANGED sport
    /\ Refetch

Closed ==
    /\ isOpen' = FALSE
    /\ form' = [NewForm EXCEPT !.mode = form.mode]
    /\ UNCHANGED <<sport, located, hook, requests>>

SetMode(mode) ==
    /\ Offered(mode)
    /\ form' = [form EXCEPT !.mode = mode]
    /\ UNCHANGED <<isOpen, sport, located, hook, requests>>

SetRadius(radius) ==
    /\ Offered("radius")
    /\ form' = [form EXCEPT !.radiusOption = radius]
    /\ UNCHANGED <<isOpen, sport, located>>
    /\ Refetch

\* An empty search counts at once, another one when typing has paused.
SetSearch(text) ==
    /\ Offered("search")
    /\ form' = [form EXCEPT !.searchText = text,
                            !.debouncedSearch = IF text = "" THEN "" ELSE @]
    /\ UNCHANGED <<isOpen, sport, located>>
    /\ Refetch

Debounced ==
    /\ isOpen /\ form.searchText # form.debouncedSearch
    /\ form' = [form EXCEPT !.debouncedSearch = form.searchText]
    /\ UNCHANGED <<isOpen, sport, located>>
    /\ Refetch

PressMarker(v) ==
    /\ Offered("pin") /\ v \in hook.venues /\ "pin" \in MarkerOffers(v)
    /\ form' = [form EXCEPT !.mapSelectedVenue = v]
    /\ UNCHANGED <<isOpen, sport, located, hook, requests>>

TypeManual(text) ==
    /\ Offered("type")
    /\ form' = [form EXCEPT !.manualText = text]
    /\ UNCHANGED <<isOpen, sport, located, hook, requests>>

\* A venue can be used: from its card, or as the selected pin.
Usable(v) ==
    \/ Offered("use") /\ v \in hook.venues
    \/ Offered("select") /\ v = form.mapSelectedVenue

PickerInit ==
    /\ isOpen = FALSE
    /\ located = "idle"
    /\ form = NewForm
    /\ hook = NewHook
    /\ requests = {}

\* What is answered or fires by itself.
SearchAnswer ==
    \E r \in requests :
        \/ \E ids \in SUBSET VenueId, more \in BOOLEAN : PageArrived(r, ids, more)
        \/ PageFailed(r)
PickerAnswer ==
    \/ SearchAnswer
    \/ \E r \in requests : StaleAnswer(r)
    \/ \E status \in {"granted", "denied", "unavailable"} : LocationResolved(status)
    \/ Debounced

PickerPress ==
    \/ refresh \/ loadMore
    \/ \E mode \in {"list", "map"} : SetMode(mode)
    \/ \E radius \in Radius : SetRadius(radius)
    \/ \E text \in Typed : SetSearch(text) \/ TypeManual(text)
    \/ \E v \in hook.venues : PressMarker(v)

-----------------------------------------------------------------------------
\* Every variable has its type.
PickerTypeOK ==
    /\ isOpen \in BOOLEAN
    /\ sport \in Sport
    /\ located \in VenueLocationStatus
    /\ form \in Form
    /\ hook \in Hook
    /\ requests \in SUBSET Search

\* The venues that can be used are those of the search the modal shows: its
\* sport, its place, its radius and its text, whatever was answered late.
ResultsMatchFilters ==
    isOpen /\ ~hook.isLoading => \A v \in hook.venues : v.for = Args

\* hasMore is "True when nextCursor is non-null AND we're not currently fetching"
\* (useNearbyVenues.ts:75).  A new search that overtakes the load of a next page
\* leaves isLoadingMore set: nothing is being fetched, and there is no more.
MoreWhenIdle == hook.nextCursor /\ requests = {} => hasMore
=============================================================================
