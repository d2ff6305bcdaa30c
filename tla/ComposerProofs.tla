----------------------------- MODULE ComposerProofs -----------------------------
(***************************************************************************)
(* Proofs about SessionComposer with its VenuePicker, for every catalog,   *)
(* any number of searches in flight, and without the restriction under     *)
(* which TLC explores the two screens: the place, the times and the        *)
(* submission interleave freely here.                                      *)
(***************************************************************************)
EXTENDS SessionComposer, NaturalsInduction, WellFoundedInduction, TLAPS

\* What an open modal relies on: the newest search is the one of its filters, and a
\* pin was found for the sport of the session.
PickerInv ==
    /\ PickerTypeOK
    /\ isOpen => \A r \in requests : r.current => r.args = Args
    /\ ResultsMatchFilters
    /\ form.mapSelectedVenue # None => isOpen /\ form.mapSelectedVenue.for.sport = sport
    /\ VenueServesSport

\* A place is a venue or a text.
PlaceInv ==
    /\ location = "" \/ selectedVenue = None
    /\ OnePlaceSent

\* While the button can be pressed, every request has been seen to fail.
PostInv ==
    /\ posted \in Nat /\ lost \in Nat
    /\ posted <= 1 + lost
    /\ (mounted /\ ~isSubmitting) => posted <= lost

\* A draft that the server would take.
Sound(d, at) ==
    /\ d.end - d.start \in MIN_SESSION_MINUTES .. MAX_SESSION_MINUTES
    /\ combineToLocalDate(d.date, d.start) >= at \/ isPastDate(d.date, at)

\* What the form says of a draft is true of the moment of its last edit.
TimeInv ==
    /\ draft \in Draft
    /\ now \in Nat /\ edited \in Nat
    /\ modal \in {"start", "end"} => wheel \in 0 .. Day - 1
    /\ checked = NoError => Sound(draft, edited)

-----------------------------------------------------------------------------
(* The searches.                                                           *)

\* The arguments of the hook are a query.
LEMMA ArgsTyped ==
    ASSUME sport \in Sport, form \in Form
    PROVE  Args \in NearbyVenuesQuery
  BY PickerAssumption DEF Args, NearbyVenuesQuery, Form, hasCoords

\* A new search is the one of the filters, and the ones before it are stale.
LEMMA FetchKeeps ==
    ASSUME PickerInv, NEW first \in BOOLEAN, fetchPage(first),
           isOpen' \in BOOLEAN, sport' = sport, located' \in VenueLocationStatus,
           form' \in Form, selectedVenue' = selectedVenue,
           form'.mapSelectedVenue # None =>
               isOpen' /\ form'.mapSelectedVenue.for.sport = sport,
           first \/ (isOpen /\ Args' = Args)
    PROVE  PickerInv'
  <1> DEFINE new == [current |-> TRUE, isFirstPage |-> first, args |-> Args']
             old == {[r EXCEPT !.current = FALSE] : r \in requests}
  <1>1. /\ requests' = old \cup {new}
        /\ hook' = [hook EXCEPT !.isLoading = @ \/ first,
                                !.isLoadingMore = @ \/ ~first, !.error = FALSE]
    BY DEF fetchPage
  <1>2. Args' \in NearbyVenuesQuery
    <2>1. sport' \in Sport
      BY DEF PickerInv, PickerTypeOK
    <2> QED
      BY <2>1, PickerAssumption DEF Args, NearbyVenuesQuery, Form, hasCoords
  <1>3. new \in Search
    BY <1>2 DEF Search
  <1>4. \A r \in old : r \in Search /\ r.current = FALSE
    BY DEF Search, PickerInv, PickerTypeOK
  <1>5. /\ hook \in Hook /\ hook' \in Hook /\ hook'.venues = hook.venues
        /\ hook'.isLoading <=> hook.isLoading \/ first
    BY <1>1 DEF Hook, PickerInv, PickerTypeOK
  <1>6. PickerTypeOK'
    BY <1>1, <1>3, <1>4, <1>5 DEF PickerInv, PickerTypeOK
  <1>7. \A r \in requests' : r.current => r.args = Args'
    BY <1>1, <1>4
  <1>8. ResultsMatchFilters'
    BY <1>5 DEF PickerInv, ResultsMatchFilters
  <1>9. VenueServesSport'
    BY DEF PickerInv, VenueServesSport
  <1> QED
    BY <1>6, <1>7, <1>8, <1>9 DEF PickerInv

\* The effect of a render.
LEMMA RefetchKeeps ==
    ASSUME PickerInv, Refetch,
           isOpen' \in BOOLEAN, sport' = sport, located' \in VenueLocationStatus,
           form' \in Form, selectedVenue' = selectedVenue,
           form'.mapSelectedVenue # None =>
               isOpen' /\ form'.mapSelectedVenue.for.sport = sport
    PROVE  PickerInv'
  <1>1. CASE isOpen' /\ (~isOpen \/ Args' # Args)
    <2>1. fetchPage(TRUE)
      BY <1>1 DEF Refetch
    <2> QED
      BY <2>1, FetchKeeps
  <1>2. CASE ~(isOpen' /\ (~isOpen \/ Args' # Args))
    <2>1. UNCHANGED <<hook, requests>> /\ (isOpen' => isOpen /\ Args' = Args)
      BY <1>2 DEF Refetch
    <2>2. PickerTypeOK'
      BY <2>1 DEF PickerInv, PickerTypeOK
    <2>3. /\ isOpen' => \A r \in requests' : r.current => r.args = Args'
          /\ ResultsMatchFilters'
      BY <2>1 DEF PickerInv, ResultsMatchFilters
    <2>4. VenueServesSport'
      BY DEF PickerInv, VenueServesSport
    <2> QED
      BY <2>2, <2>3, <2>4 DEF PickerInv
  <1> QED
    BY <1>1, <1>2

\* Steps that touch neither the filters nor the results.
LEMMA FormKeeps ==
    ASSUME PickerInv, UNCHANGED <<isOpen, sport, located, hook, requests, selectedVenue>>,
           form' \in Form,
           form'.radiusOption = form.radiusOption,
           form'.debouncedSearch = form.debouncedSearch,
           form'.mapSelectedVenue # None =>
               isOpen' /\ form'.mapSelectedVenue.for.sport = sport
    PROVE  PickerInv'
  <1>1. Args' = Args
    BY DEF Args, hasCoords
  <1>2. PickerTypeOK'
    BY DEF PickerInv, PickerTypeOK
  <1>3. /\ isOpen' => \A r \in requests' : r.current => r.args = Args'
        /\ ResultsMatchFilters'
    BY <1>1 DEF PickerInv, ResultsMatchFilters
  <1>4. VenueServesSport'
    BY DEF PickerInv, VenueServesSport
  <1> QED
    BY <1>2, <1>3, <1>4 DEF PickerInv

\* An answer changes the results, and a pin that they no longer have goes.
LEMMA ResultKeeps ==
    ASSUME PickerInv, NEW r \in requests, NEW venues,
           KeepPin(venues), requests' = requests \ {r}, hook' \in Hook,
           (isOpen /\ ~hook'.isLoading) => \A v \in hook'.venues : v.for = Args,
           UNCHANGED <<isOpen, sport, located, selectedVenue>>
    PROVE  PickerInv'
  <1>1. form \in Form /\ form' \in {form, [form EXCEPT !.mapSelectedVenue = None]}
    BY DEF KeepPin, PickerInv, PickerTypeOK
  <1>2. /\ form' \in Form
        /\ form'.radiusOption = form.radiusOption
        /\ form'.debouncedSearch = form.debouncedSearch
        /\ form'.mapSelectedVenue \in {form.mapSelectedVenue, None}
    BY <1>1 DEF Form
  <1>3. Args' = Args
    BY <1>2 DEF Args, hasCoords
  <1>4. PickerTypeOK'
    BY <1>2 DEF PickerInv, PickerTypeOK
  <1>5. /\ isOpen' => \A x \in requests' : x.current => x.args = Args'
        /\ ResultsMatchFilters'
    BY <1>3 DEF PickerInv, ResultsMatchFilters
  <1>6. form'.mapSelectedVenue # None =>
            isOpen' /\ form'.mapSelectedVenue.for.sport = sport'
    <2>1. CASE form'.mapSelectedVenue = form.mapSelectedVenue
      BY <2>1 DEF PickerInv
    <2>2. CASE form'.mapSelectedVenue = None
      BY <2>2
    <2> QED
      BY <1>2, <2>1, <2>2
  <1>7. VenueServesSport'
    BY DEF PickerInv, VenueServesSport
  <1> QED
    BY <1>4, <1>5, <1>6, <1>7 DEF PickerInv

\* The answer to the newest request carries the arguments that the hook has now.
LEMMA ArrivedStep ==
    ASSUME PickerInv, NEW r \in requests, NEW ids \in SUBSET VenueId, NEW more \in BOOLEAN,
           PageArrived(r, ids, more), UNCHANGED selectedVenue
    PROVE  PickerInv'
  <1> DEFINE items == {[id |-> i, for |-> r.args] : i \in ids}
             venues == IF r.isFirstPage THEN items ELSE appendDedupedVenues(hook.venues, items)
  <1>1. /\ r.current
        /\ hook' = [Finished(r) EXCEPT !.venues = venues, !.nextCursor = more]
        /\ KeepPin(venues)
        /\ requests' = requests \ {r}
        /\ UNCHANGED <<isOpen, sport, located>>
    BY DEF PageArrived
  <1>2. hook \in Hook /\ r \in Search
    BY DEF PickerInv, PickerTypeOK
  <1>3. items \subseteq Venue /\ \A v \in items : v.for = r.args
    BY <1>2 DEF Venue, Search
  <1> HIDE DEF items
  <1>4. /\ venues \subseteq Venue
        /\ r.isFirstPage => venues = items
        /\ venues \subseteq hook.venues \cup items
    BY <1>2, <1>3 DEF appendDedupedVenues, Hook
  <1> HIDE DEF venues
  <1>5. /\ hook' \in Hook /\ hook'.venues = venues
        /\ hook'.isLoading <=> hook.isLoading /\ ~r.isFirstPage
    BY <1>1, <1>2, <1>4 DEF Finished, Hook, Search
  <1>6. ASSUME isOpen, ~hook'.isLoading
        PROVE  \A v \in hook'.venues : v.for = Args
    <2>1. r.args = Args
      BY <1>1, <1>6 DEF PickerInv
    <2>2. CASE r.isFirstPage
      BY <1>3, <1>4, <1>5, <2>1, <2>2
    <2>3. CASE ~r.isFirstPage
      <3>1. \A v \in hook.venues : v.for = Args
        BY <1>5, <1>6, <2>3 DEF PickerInv, ResultsMatchFilters
      <3> QED
        BY <1>3, <1>4, <1>5, <2>1, <3>1
    <2> QED
      BY <2>2, <2>3
  <1> QED
    BY <1>1, <1>5, <1>6, ResultKeeps

\* A failure of the newest request shows nothing new.
LEMMA FailedStep ==
    ASSUME PickerInv, NEW r \in requests, PageFailed(r), UNCHANGED selectedVenue
    PROVE  PickerInv'
  <1> DEFINE venues == IF r.isFirstPage THEN {} ELSE hook.venues
  <1>1. /\ hook' = [Finished(r) EXCEPT !.error = TRUE, !.venues = venues,
                                       !.nextCursor = @ /\ ~r.isFirstPage]
        /\ KeepPin(venues)
        /\ requests' = requests \ {r}
        /\ UNCHANGED <<isOpen, sport, located>>
    BY DEF PageFailed
  <1>2. hook \in Hook /\ r \in Search
    BY DEF PickerInv, PickerTypeOK
  <1>3. venues \subseteq Venue /\ venues \subseteq hook.venues /\ (r.isFirstPage => venues = {})
    BY <1>2 DEF Hook
  <1> HIDE DEF venues
  <1>4. /\ hook' \in Hook /\ hook'.venues = venues
        /\ hook'.isLoading <=> hook.isLoading /\ ~r.isFirstPage
    BY <1>1, <1>2, <1>3 DEF Finished, Hook, Search
  <1>5. (isOpen /\ ~hook'.isLoading) => \A v \in hook'.venues : v.for = Args
    BY <1>2, <1>3, <1>4 DEF PickerInv, ResultsMatchFilters, Search
  <1> QED
    BY <1>1, <1>4, <1>5, ResultKeeps

\* An answer to an older request is dropped.
LEMMA StaleStep ==
    ASSUME PickerInv, NEW r \in requests, StaleAnswer(r), UNCHANGED selectedVenue
    PROVE  PickerInv'
  <1>1. requests' \subseteq requests /\ UNCHANGED <<isOpen, sport, located, form, hook>>
    BY DEF StaleAnswer
  <1>2. Args' = Args
    BY <1>1 DEF Args, hasCoords
  <1> QED
    BY <1>1, <1>2 DEF PickerInv, PickerTypeOK, ResultsMatchFilters, VenueServesSport

-----------------------------------------------------------------------------
(* The modal.                                                              *)

\* The modal opens with a form, in either mode.
LEMMA NewFormTyped ==
    ASSUME NEW mode \in {"list", "map"}
    PROVE  /\ [NewForm EXCEPT !.mode = mode] \in Form
           /\ [NewForm EXCEPT !.mode = mode].mapSelectedVenue = None
  BY PickerAssumption DEF NewForm, Form, Typed

\* The form is always one.
LEMMA PickerFormTyped ==
    ASSUME PickerInv
    PROVE  form \in Form /\ form.mode \in {"list", "map"}
  BY DEF PickerInv, PickerTypeOK, Form

\* Controls are offered in an open modal.
LEMMA OfferedOpen == \A control : Offered(control) => isOpen
  BY DEF Offered

\* Opening the modal mounts the hook, which asks at once.
LEMMA OpenStep ==
    ASSUME PickerInv, OpenPicker
    PROVE  PickerInv'
  <1>1. /\ Opened /\ UNCHANGED selectedVenue
    BY DEF OpenPicker, composerVars, place
  <1>2. /\ isOpen' = TRUE /\ sport' = sport /\ Refetch
        /\ located' = IF located = "idle" THEN "loading" ELSE located
        /\ form' = [NewForm EXCEPT !.mode = form.mode]
    BY <1>1 DEF Opened
  <1>3. form' \in Form /\ form'.mapSelectedVenue = None
    BY <1>2, PickerFormTyped, NewFormTyped
  <1>4. located' \in VenueLocationStatus
    BY <1>2 DEF PickerInv, PickerTypeOK, VenueLocationStatus
  <1> QED
    BY <1>1, <1>2, <1>3, <1>4, RefetchKeeps

\* Closing the modal, whatever is then selected.
LEMMA ClosedKeeps ==
    ASSUME PickerInv, Closed, VenueServesSport'
    PROVE  PickerInv'
  <1>1. /\ isOpen' = FALSE /\ form' = [NewForm EXCEPT !.mode = form.mode]
        /\ UNCHANGED <<sport, located, hook, requests>>
    BY DEF Closed
  <1>2. form' \in Form /\ form'.mapSelectedVenue = None
    BY <1>1, PickerFormTyped, NewFormTyped
  <1>3. PickerTypeOK'
    BY <1>1, <1>2 DEF PickerInv, PickerTypeOK
  <1>4. ResultsMatchFilters'
    BY <1>1 DEF ResultsMatchFilters
  <1> QED
    BY <1>1, <1>2, <1>3, <1>4 DEF PickerInv

\* A venue that can be used serves the sport of the session.
LEMMA UsableServes ==
    ASSUME PickerInv, NEW v, Usable(v)
    PROVE  v.for.sport = sport /\ v \in Venue
  <1>1. isOpen
    BY OfferedOpen DEF Usable
  <1>2. ASSUME Offered("use"), v \in hook.venues
        PROVE  v.for.sport = sport /\ v \in Venue
    <2>1. "use" \in ResultsOffers
      BY <1>2 DEF Offered, HeaderOffers, ManualOffers
    <2>2. ~hook.isLoading
      <3>1. ASSUME hook.isLoading
            PROVE  FALSE
        <4>1. Branch = "spinner"
          BY <3>1 DEF Branch
        <4>2. ResultsOffers = {}
          BY <4>1 DEF ResultsOffers
        <4> QED
          BY <2>1, <4>2
      <3> QED
        BY <3>1
    <2>3. v.for = Args
      BY <1>1, <1>2, <2>2 DEF PickerInv, ResultsMatchFilters
    <2> QED
      BY <1>2, <2>3 DEF Args, PickerInv, PickerTypeOK, Hook
  <1>3. ASSUME Offered("select"), v = form.mapSelectedVenue
        PROVE  v.for.sport = sport /\ v \in Venue
    <2>1. "select" \in ResultsOffers
      BY <1>3 DEF Offered, HeaderOffers, ManualOffers
    <2>2. form.mapSelectedVenue # None
      <3> DEFINE ofCards == UNION {CardOffers(x) : x \in hook.venues}
                 ofMarkers == UNION {MarkerOffers(x) : x \in hook.venues}
                 ofMore == IF hasMore THEN {"more"} ELSE {}
                 ofPin == IF form.mapSelectedVenue # None THEN {"select"} ELSE {}
      <3>1. \A x : "select" \notin MarkerOffers(x) /\ "select" \notin CardOffers(x)
        BY DEF MarkerOffers, CardOffers
      <3>2. "select" \notin ofCards /\ "select" \notin ofMarkers /\ "select" \notin ofMore
        BY <3>1
      <3>3. ResultsOffers = CASE Branch = "retry" -> {"retry"}
                              [] Branch = "list" -> ofCards \cup ofMore
                              [] Branch = "map" -> ofMarkers \cup ofPin
                              [] OTHER -> {}
        BY DEF ResultsOffers
      <3> HIDE DEF ofCards, ofMarkers, ofMore
      <3> QED
        BY <2>1, <3>2, <3>3
    <2> QED
      BY <1>3, <2>2, PickerFormTyped DEF PickerInv, Form
  <1> QED
    BY <1>2, <1>3 DEF Usable

\* What is pressed in the modal asks again when it changes the arguments, and only
\* then.
LEMMA PressSteps ==
    ASSUME PickerInv, PickerPress, UNCHANGED selectedVenue
    PROVE  PickerInv'
  <1> USE PickerFormTyped, OfferedOpen
  <1>1. ASSUME refresh \/ loadMore
        PROVE  PickerInv'
    <2>1. /\ isOpen /\ UNCHANGED <<isOpen, sport, located, form>>
          /\ fetchPage(TRUE) \/ fetchPage(FALSE)
      BY <1>1 DEF refresh, loadMore
    <2>2. Args' = Args
      BY <2>1 DEF Args, hasCoords
    <2>3. /\ isOpen' \in BOOLEAN /\ located' \in VenueLocationStatus /\ form' \in Form
          /\ form'.mapSelectedVenue # None =>
                 isOpen' /\ form'.mapSelectedVenue.for.sport = sport
      BY <2>1 DEF PickerInv, PickerTypeOK
    <2>4. CASE fetchPage(TRUE)
      BY <2>1, <2>3, <2>4, FetchKeeps
    <2>5. CASE fetchPage(FALSE)
      BY <2>1, <2>2, <2>3, <2>5, FetchKeeps
    <2> QED
      BY <2>1, <2>4, <2>5
  <1>2. ASSUME NEW mode \in {"list", "map"}, SetMode(mode)
        PROVE  PickerInv'
    <2>1. /\ form' = [form EXCEPT !.mode = mode]
          /\ UNCHANGED <<isOpen, sport, located, hook, requests>>
      BY <1>2 DEF SetMode
    <2>2. /\ form' \in Form /\ form'.radiusOption = form.radiusOption
          /\ form'.debouncedSearch = form.debouncedSearch
          /\ form'.mapSelectedVenue = form.mapSelectedVenue
      BY <2>1 DEF Form
    <2> QED
      BY <2>1, <2>2, FormKeeps DEF PickerInv
  <1>3. ASSUME NEW radius \in Radius, SetRadius(radius)
        PROVE  PickerInv'
    <2>1. /\ form' = [form EXCEPT !.radiusOption = radius]
          /\ UNCHANGED <<isOpen, sport, located>> /\ Refetch
      BY <1>3 DEF SetRadius
    <2>2. form' \in Form /\ form'.mapSelectedVenue = form.mapSelectedVenue
      BY <2>1 DEF Form
    <2> QED
      BY <2>1, <2>2, RefetchKeeps DEF PickerInv, PickerTypeOK
  <1>4. ASSUME NEW text \in Typed, SetSearch(text)
        PROVE  PickerInv'
    <2>1. /\ form' = [form EXCEPT !.searchText = text,
                                  !.debouncedSearch = IF text = "" THEN "" ELSE @]
          /\ UNCHANGED <<isOpen, sport, located>> /\ Refetch
      BY <1>4 DEF SetSearch
    <2>2. form' \in Form /\ form'.mapSelectedVenue = form.mapSelectedVenue
      BY <2>1 DEF Form, Typed
    <2> QED
      BY <2>1, <2>2, RefetchKeeps DEF PickerInv, PickerTypeOK
  <1>5. ASSUME NEW text \in Typed, TypeManual(text)
        PROVE  PickerInv'
    <2>1. /\ form' = [form EXCEPT !.manualText = text]
          /\ UNCHANGED <<isOpen, sport, located, hook, requests>>
      BY <1>5 DEF TypeManual
    <2>2. /\ form' \in Form /\ form'.radiusOption = form.radiusOption
          /\ form'.debouncedSearch = form.debouncedSearch
          /\ form'.mapSelectedVenue = form.mapSelectedVenue
      BY <2>1 DEF Form
    <2> QED
      BY <2>1, <2>2, FormKeeps DEF PickerInv
  <1>6. ASSUME NEW v \in hook.venues, PressMarker(v)
        PROVE  PickerInv'
    <2>1. /\ isOpen /\ form' = [form EXCEPT !.mapSelectedVenue = v]
          /\ UNCHANGED <<isOpen, sport, located, hook, requests>>
      BY <1>6 DEF PressMarker
    <2>2. ~hook.isLoading
      <3>1. "pin" \in ResultsOffers
        BY <1>6 DEF PressMarker, Offered, HeaderOffers, ManualOffers
      <3>2. ASSUME hook.isLoading
            PROVE  FALSE
        <4>1. Branch = "spinner"
          BY <3>2 DEF Branch
        <4>2. ResultsOffers = {}
          BY <4>1 DEF ResultsOffers
        <4> QED
          BY <3>1, <4>2
      <3> QED
        BY <3>2
    <2>3. v \in Venue /\ v.for.sport = sport
      BY <2>1, <2>2 DEF PickerInv, PickerTypeOK, Hook, ResultsMatchFilters, Args
    <2>4. /\ form' \in Form /\ form'.radiusOption = form.radiusOption
          /\ form'.debouncedSearch = form.debouncedSearch
          /\ form'.mapSelectedVenue = v
      BY <2>1, <2>3 DEF Form
    <2> QED
      BY <2>1, <2>3, <2>4, FormKeeps
  <1> QED
    BY <1>1, <1>2, <1>3, <1>4, <1>5, <1>6 DEF PickerPress

\* No answer breaks the promise.
LEMMA AnswerSteps ==
    ASSUME PickerInv, PickerAnswer, UNCHANGED selectedVenue
    PROVE  PickerInv'
  <1>1. CASE SearchAnswer
    BY <1>1, ArrivedStep, FailedStep DEF SearchAnswer
  <1>2. CASE \E r \in requests : StaleAnswer(r)
    BY <1>2, StaleStep
  <1>3. ASSUME NEW status \in {"granted", "denied", "unavailable"}, LocationResolved(status)
        PROVE  PickerInv'
    <2>1. located' = status /\ UNCHANGED <<isOpen, sport, form>> /\ Refetch
      BY <1>3 DEF LocationResolved
    <2>2. located' \in VenueLocationStatus
      BY <2>1 DEF VenueLocationStatus
    <2> QED
      BY <2>1, <2>2, RefetchKeeps DEF PickerInv, PickerTypeOK
  <1>4. CASE Debounced
    <2>1. /\ form' = [form EXCEPT !.debouncedSearch = form.searchText]
          /\ UNCHANGED <<isOpen, sport, located>> /\ Refetch
      BY <1>4 DEF Debounced
    <2>2. form' \in Form /\ form'.mapSelectedVenue = form.mapSelectedVenue
      BY <2>1, PickerFormTyped DEF Form
    <2> QED
      BY <2>1, <2>2, RefetchKeeps DEF PickerInv, PickerTypeOK
  <1> QED
    BY <1>1, <1>2, <1>3, <1>4 DEF PickerAnswer

\* Steps of the form that leave the picker and the venue alone.
LEMMA PickerIdle ==
    ASSUME PickerInv, UNCHANGED <<sport, pickerVars, selectedVenue>>
    PROVE  PickerInv'
  <1>1. UNCHANGED <<isOpen, sport, located, form, hook, requests, selectedVenue>>
    BY DEF pickerVars
  <1> QED
    BY <1>1, FormKeeps DEF PickerInv, PickerTypeOK

\* Another sport takes the venue of the former one away.
LEMMA SportStep ==
    ASSUME PickerInv, NEW s \in Sport, onSelectSport(s)
    PROVE  PickerInv'
  <1>1. /\ ~isOpen /\ sport' = s /\ selectedVenue' = None
        /\ UNCHANGED <<isOpen, located, form, hook, requests>>
    BY DEF onSelectSport, Shown, pickerVars
  <1>2. form.mapSelectedVenue = None
    BY <1>1 DEF PickerInv
  <1> QED
    BY <1>1, <1>2 DEF PickerInv, PickerTypeOK, ResultsMatchFilters, VenueServesSport

\* Every step of the place keeps the picker's invariant.
LEMMA PlaceSteps ==
    ASSUME PickerInv, Place
    PROVE  PickerInv'
  <1>1. CASE OpenPicker
    BY <1>1, OpenStep
  <1>2. CASE ClosePicker
    <2>1. Closed /\ UNCHANGED <<selectedVenue, sport>>
      BY <1>2 DEF ClosePicker, Closed, composerVars, place
    <2>2. VenueServesSport'
      BY <2>1 DEF PickerInv, VenueServesSport
    <2> QED
      BY <2>1, <2>2, ClosedKeeps
  <1>3. CASE UseManual
    <2>1. Closed /\ selectedVenue' = None
      BY <1>3 DEF UseManual
    <2> QED
      BY <2>1, ClosedKeeps DEF VenueServesSport
  <1>4. CASE ClearVenue
    <2>1. selectedVenue' = None /\ UNCHANGED <<isOpen, sport, located, form, hook, requests>>
      BY <1>4 DEF ClearVenue, pickerVars
    <2>2. Args' = Args
      BY <2>1 DEF Args, hasCoords
    <2> QED
      BY <2>1, <2>2 DEF PickerInv, PickerTypeOK, ResultsMatchFilters, VenueServesSport
  <1>5. CASE mounted /\ PickerPress /\ UNCHANGED composerVars
    BY <1>5, PressSteps DEF composerVars, place
  <1>6. ASSUME NEW v \in hook.venues \cup {form.mapSelectedVenue}, UseVenue(v)
        PROVE  PickerInv'
    <2>1. /\ Usable(v) /\ Closed
          /\ selectedVenue' = [id |-> v.id, sport |-> v.for.sport]
      BY <1>6 DEF UseVenue
    <2>2. v.for.sport = sport /\ sport' = sport
      BY <2>1, UsableServes DEF Closed
    <2>3. VenueServesSport'
      BY <2>1, <2>2 DEF VenueServesSport
    <2> QED
      BY <2>1, <2>3, ClosedKeeps
  <1>7. CASE \E text \in Typed : TypeLocation(text)
    BY <1>7, PickerIdle DEF TypeLocation
  <1>8. CASE \E s \in Sport : onSelectSport(s)
    BY <1>8, SportStep
  <1>9. CASE \E title, capacity, when \in BOOLEAN : SetFields(title, capacity, when)
    BY <1>9, PickerIdle DEF SetFields, place
  <1> QED
    BY <1>1, <1>2, <1>3, <1>4, <1>5, <1>6, <1>7, <1>8, <1>9 DEF Place

\* Times, the submission and the clock.
LEMMA TimeIdle ==
    ASSUME Time
    PROVE  UNCHANGED <<sport, pickerVars, place, kind, mounted, isSubmitting, sent, server>>
  BY DEF Time, OpenCalendar, CloseCalendar, TurnMonth, PickDate, OpenWheel, CloseWheel,
         TurnWheel, Timing

\* And every step of the screen.
LEMMA PickerNext ==
    ASSUME PickerInv, [Next]_vars
    PROVE  PickerInv'
  <1>1. CASE Answer
    <2>1. CASE mounted /\ PickerAnswer /\ UNCHANGED composerVars
      BY <2>1, AnswerSteps DEF composerVars, place
    <2>2. CASE SubmitAnswer
      BY <2>2, PickerIdle DEF SubmitAnswer, SubmitAnswered, SubmitFailed, Submitting, place
    <2> QED
      BY <1>1, <2>1, <2>2 DEF Answer
  <1>2. CASE Place
    BY <1>2, PlaceSteps
  <1>3. CASE Time
    BY <1>3, TimeIdle, PickerIdle DEF place
  <1>4. CASE handleSubmit \/ GoBack \/ \E moment \in Moments : Tick(moment)
    BY <1>4, PickerIdle DEF handleSubmit, GoBack, Tick, place
  <1>5. CASE UNCHANGED vars
    BY <1>5, PickerIdle DEF vars, composerVars, place
  <1> QED
    BY <1>1, <1>2, <1>3, <1>4, <1>5 DEF Next

\* In the beginning the modal is closed.
LEMMA PickerStarts == Init => PickerInv
  <1> SUFFICES ASSUME Init
               PROVE  PickerInv
    OBVIOUS
  <1>1. /\ isOpen = FALSE /\ located = "idle" /\ form = NewForm /\ hook = NewHook
        /\ requests = {} /\ sport \in Sport /\ selectedVenue = None
    BY DEF Init, PickerInit
  <1>2. form \in Form /\ form.mapSelectedVenue = None
    BY <1>1, PickerAssumption DEF NewForm, Form, Typed
  <1>3. hook \in Hook
    BY <1>1 DEF NewHook, Hook
  <1> QED
    BY <1>1, <1>2, <1>3
    DEF PickerInv, PickerTypeOK, ResultsMatchFilters, VenueServesSport, VenueLocationStatus

-----------------------------------------------------------------------------
(* The place and the requests.                                             *)

\* A venue and a text take each other's place.
LEMMA PlaceNext ==
    ASSUME PlaceInv, [Next]_vars
    PROVE  PlaceInv'
  <1>1. CASE SubmitAnswer
    BY <1>1 DEF SubmitAnswer, SubmitAnswered, SubmitFailed, Submitting, place, PlaceInv, OnePlaceSent
  <1>2. CASE \/ mounted /\ PickerAnswer /\ UNCHANGED composerVars
             \/ mounted /\ PickerPress /\ UNCHANGED composerVars
             \/ OpenPicker \/ ClosePicker \/ GoBack
             \/ \E moment \in Moments : Tick(moment)
             \/ \E title, capacity, when \in BOOLEAN : SetFields(title, capacity, when)
             \/ UNCHANGED vars
    <2>1. UNCHANGED <<location, selectedVenue, sent>>
      BY <1>2 DEF OpenPicker, ClosePicker, GoBack, Tick, SetFields, vars, composerVars, place
    <2> QED
      BY <2>1 DEF PlaceInv, OnePlaceSent
  <1>3. CASE UseManual \/ ClearVenue
    <2>1. selectedVenue' = None /\ UNCHANGED sent
      BY <1>3 DEF UseManual, ClearVenue, Placing, Apart
    <2> QED
      BY <2>1 DEF PlaceInv, OnePlaceSent
  <1>4. CASE \E v \in hook.venues \cup {form.mapSelectedVenue} : UseVenue(v)
    <2>1. location' = "" /\ UNCHANGED sent
      BY <1>4 DEF UseVenue, Placing, Apart
    <2> QED
      BY <2>1 DEF PlaceInv, OnePlaceSent
  <1>5. ASSUME NEW text \in Typed, TypeLocation(text)
        PROVE  PlaceInv'
    <2>1. selectedVenue' = selectedVenue /\ UNCHANGED sent
      BY <1>5 DEF TypeLocation, Placing, Apart
    <2>2. selectedVenue = None
      BY <1>5 DEF TypeLocation, Shown, BookingOffers, BattleOffers, BattleFieldOffers, PlaceOffers
    <2> QED
      BY <2>1, <2>2 DEF PlaceInv, OnePlaceSent
  <1>6. ASSUME NEW s \in Sport, onSelectSport(s)
        PROVE  PlaceInv'
    <2>1. selectedVenue' = None /\ UNCHANGED sent
      BY <1>6 DEF onSelectSport, Apart
    <2> QED
      BY <2>1 DEF PlaceInv, OnePlaceSent
  <1>7. CASE Time
    BY <1>7, TimeIdle DEF place, PlaceInv, OnePlaceSent
  <1>8. CASE handleSubmit
    <2>1. sent' = PayloadNow /\ UNCHANGED <<location, selectedVenue>>
      BY <1>8 DEF handleSubmit, place
    <2>2. sent'.location = location /\ sent'.venue = selectedVenue
      BY <2>1 DEF PayloadNow
    <2> QED
      BY <2>1, <2>2 DEF PlaceInv, OnePlaceSent
  <1> QED
    BY <1>1, <1>2, <1>3, <1>4, <1>5, <1>6, <1>7, <1>8 DEF Next, Answer, Place

\* Only these steps touch the button and the requests.
LEMMA PostIdle ==
    ASSUME [Next]_vars, ~handleSubmit, ~SubmitAnswer, ~GoBack
    PROVE  UNCHANGED <<mounted, isSubmitting, posted, lost>>
  <1>1. CASE Answer
    BY <1>1 DEF Answer, composerVars, server
  <1>2. CASE Place
    BY <1>2 DEF Place, OpenPicker, ClosePicker, UseManual, ClearVenue, UseVenue, TypeLocation,
                onSelectSport, SetFields, Placing, Apart, composerVars, server
  <1>3. CASE Time
    BY <1>3, TimeIdle DEF server
  <1>4. CASE \E moment \in Moments : Tick(moment)
    BY <1>4 DEF Tick, server
  <1>5. CASE UNCHANGED vars
    BY <1>5 DEF vars, composerVars, server
  <1> QED
    BY <1>1, <1>2, <1>3, <1>4, <1>5 DEF Next

\* A request is sent when every earlier one has been seen to fail.
LEMMA PostNext ==
    ASSUME PostInv, [Next]_vars
    PROVE  PostInv'
  <1>1. CASE handleSubmit
    <2>1. mounted /\ ~isSubmitting
      BY <1>1 DEF handleSubmit, Shown, BookingOffers, BattleOffers, BattleFieldOffers,
                  PlaceOffers, canSubmit
    <2>2. isSubmitting' = TRUE /\ posted' = posted + 1 /\ lost' = lost
      BY <1>1 DEF handleSubmit
    <2> QED
      BY <2>1, <2>2 DEF PostInv
  <1>2. CASE SubmitAnswered
    BY <1>2 DEF SubmitAnswered, server, PostInv
  <1>3. CASE SubmitFailed
    BY <1>3 DEF SubmitFailed, PostInv
  <1>4. CASE GoBack
    BY <1>4 DEF GoBack, server, PostInv
  <1>5. CASE ~handleSubmit /\ ~SubmitAnswer /\ ~GoBack
    BY <1>5, PostIdle DEF PostInv
  <1> QED
    BY <1>1, <1>2, <1>3, <1>4, <1>5 DEF SubmitAnswer

-----------------------------------------------------------------------------
(* The times of a booking.                                                 *)

\* The smaller of two numbers.
LEMMA MinOfTwo ==
    ASSUME NEW a \in Int, NEW b \in Int
    PROVE  Min({a, b}) = IF a <= b THEN a ELSE b
  BY DEF Min

\* An hour later, or the last slot of the day.
LEMMA HourIs ==
    ASSUME NEW time \in Int
    PROVE  plusOneHour(time) = IF time <= 1365 THEN time + 60 ELSE 1425
  <1> DEFINE a == time + 60
             b == 23 * 60 + 45
  <1>1. a \in Int /\ b \in Int /\ b = 1425
    OBVIOUS
  <1>2. plusOneHour(time) = Min({a, b})
    BY DEF plusOneHour
  <1>3. (a <= b) <=> (time <= 1365)
    OBVIOUS
  <1> HIDE DEF b
  <1>4. Min({a, b}) = IF a <= b THEN a ELSE b
    BY <1>1, MinOfTwo
  <1> QED
    BY <1>1, <1>2, <1>3, <1>4

\* The hour after a time is on the same day.
LEMMA HourAfter ==
    ASSUME NEW time \in 0 .. Day - 1
    PROVE  plusOneHour(time) \in 0 .. Day - 1
  BY HourIs DEF Day

\* Nothing to say of a draft means that it is sound at that moment.
LEMMA NoErrorSound ==
    ASSUME NEW d \in Draft, NEW at \in Nat, computeValidationError(d, at) = NoError
    PROVE  Sound(d, at)
  <1>1. d.date \in Nat /\ d.start \in Nat /\ d.end \in Nat
    BY DEF Draft
  <1> DEFINE minutes == d.end - d.start
             gone == d.date = Today(at) /\ combineToLocalDate(d.date, d.start) < at
  <1>2. /\ minutes \in Int
        /\ MIN_SESSION_MINUTES = 30 /\ MAX_SESSION_MINUTES = 240
    BY <1>1 DEF MIN_SESSION_MINUTES, MAX_SESSION_MINUTES
  <1>3. computeValidationError(d, at) =
          CASE minutes <= 0 -> "endBeforeStart"
            [] minutes > 0 /\ minutes < MIN_SESSION_MINUTES -> "tooShort"
            [] minutes > MAX_SESSION_MINUTES -> "tooLong"
            [] minutes \in MIN_SESSION_MINUTES .. MAX_SESSION_MINUTES /\ gone -> "past"
            [] OTHER -> "none"
    BY DEF computeValidationError, NoError
  <1> HIDE DEF minutes, gone
  <1>4. minutes \in MIN_SESSION_MINUTES .. MAX_SESSION_MINUTES /\ ~gone
    <2>1. ~(minutes <= 0)
      BY <1>2, <1>3 DEF NoError
    <2>2. ~(minutes < MIN_SESSION_MINUTES)
      BY <1>2, <1>3, <2>1 DEF NoError
    <2>3. ~(minutes > MAX_SESSION_MINUTES)
      BY <1>2, <1>3, <2>2 DEF NoError
    <2>4. minutes \in MIN_SESSION_MINUTES .. MAX_SESSION_MINUTES
      BY <1>2, <2>2, <2>3
    <2>5. ~gone
      BY <1>2, <1>3, <2>4 DEF NoError
    <2> QED
      BY <2>4, <2>5
  <1>5. Today(at) \in Nat /\ at < Today(at) * 1440 + 1440
    BY DEF Today, Day
  <1>6. combineToLocalDate(d.date, d.start) = d.date * 1440 + d.start
    BY <1>1 DEF combineToLocalDate, Day
  <1>7. CASE d.date < Today(at)
    BY <1>4, <1>7 DEF Sound, isPastDate, minutes
  <1>8. CASE d.date = Today(at)
    <2>1. ~(combineToLocalDate(d.date, d.start) < at)
      BY <1>4, <1>8 DEF gone
    <2>2. combineToLocalDate(d.date, d.start) >= at
      BY <1>1, <1>6, <2>1
    <2> QED
      BY <1>4, <2>2 DEF Sound, minutes
  <1>9. CASE d.date > Today(at)
    <2>1. d.date >= Today(at) + 1 /\ d.date * 1440 >= (Today(at) + 1) * 1440
      BY <1>1, <1>5, <1>9
    <2>2. d.date * 1440 + d.start >= at
      BY <1>1, <1>5, <2>1
    <2> QED
      BY <1>4, <1>6, <2>2 DEF Sound, minutes
  <1> QED
    BY <1>1, <1>5, <1>7, <1>8, <1>9

\* An edit computes the error of the draft it makes.
LEMMA EditKeeps ==
    ASSUME TimeInv, NEW new \in Draft, Edit(new), now' = now,
           modal' = "none"
    PROVE  TimeInv'
  <1>1. CASE new = draft
    BY <1>1 DEF Edit, TimeInv
  <1>2. CASE new # draft
    <2>1. /\ draft' = new /\ checked' = computeValidationError(new, now) /\ edited' = now
      BY <1>2 DEF Edit
    <2>2. checked' = NoError => Sound(new, now)
      BY <2>1, NoErrorSound DEF TimeInv
    <2> QED
      BY <2>1, <2>2 DEF TimeInv
  <1> QED
    BY <1>1, <1>2

\* What is validated is the draft as of its last edit.
LEMMA TimeSteps ==
    ASSUME TimeInv, Time
    PROVE  TimeInv'
  <1>1. draft \in Draft /\ now' = now
    BY DEF TimeInv, Time, OpenCalendar, CloseCalendar, TurnMonth, PickDate, OpenWheel,
           CloseWheel, TurnWheel, Timing
  <1>2. CASE OpenCalendar \/ CloseCalendar \/ TurnMonth("prev", -1) \/ TurnMonth("next", 1)
    <2>1. modal' \in {"date", "none"} /\ UNCHANGED <<draft, checked, edited>>
      BY <1>2 DEF OpenCalendar, CloseCalendar, TurnMonth
    <2> QED
      BY <1>1, <2>1 DEF TimeInv
  <1>3. ASSUME NEW date \in Dates, PickDate(date)
        PROVE  TimeInv'
    <2>1. [draft EXCEPT !.date = date] \in Draft
      BY <1>1, ComposerAssumption DEF Draft
    <2> QED
      BY <1>1, <1>3, <2>1, EditKeeps DEF PickDate
  <1>4. ASSUME NEW which \in {"start", "end"}, OpenWheel(which)
        PROVE  TimeInv'
    <2>1. wheel' = draft[which] /\ UNCHANGED <<draft, checked, edited>>
      BY <1>4 DEF OpenWheel
    <2>2. wheel' \in 0 .. Day - 1
      BY <1>1, <2>1 DEF Draft
    <2> QED
      BY <1>1, <2>1, <2>2 DEF TimeInv
  <1>5. CASE CloseWheel
    <2>1. modal \in {"start", "end"} /\ wheel \in 0 .. Day - 1
      BY <1>5 DEF CloseWheel, TimeInv
    <2>2. handlePickStartTime(wheel) \in Draft
      BY <1>1, <2>1, HourAfter DEF handlePickStartTime, Draft
    <2>3. [draft EXCEPT !.end = wheel] \in Draft
      BY <1>1, <2>1 DEF Draft
    <2> QED
      BY <1>1, <1>5, <2>2, <2>3, EditKeeps DEF CloseWheel
  <1>6. ASSUME NEW h \in HOUR_OPTIONS, NEW m \in MINUTE_OPTIONS_15, TurnWheel(joinTime(h, m))
        PROVE  TimeInv'
    <2>1. wheel' = joinTime(h, m) /\ UNCHANGED <<draft, checked, edited>>
      BY <1>6 DEF TurnWheel
    <2>2. wheel' \in 0 .. Day - 1
      BY <2>1 DEF joinTime, HOUR_OPTIONS, MINUTE_OPTIONS_15, Day
    <2> QED
      BY <1>1, <2>1, <2>2 DEF TimeInv
  <1> QED
    BY <1>2, <1>3, <1>4, <1>5, <1>6 DEF Time

\* Every step keeps the invariant of the times.
LEMMA TimeNext ==
    ASSUME TimeInv, [Next]_vars
    PROVE  TimeInv'
  <1>1. CASE Time
    BY <1>1, TimeSteps
  <1>2. ASSUME NEW moment \in Moments, Tick(moment)
        PROVE  TimeInv'
    BY <1>2, ComposerAssumption DEF Tick, times, TimeInv
  <1>3. CASE Answer \/ handleSubmit \/ GoBack \/ UNCHANGED vars
    <2>1. UNCHANGED <<times, now>>
      BY <1>3 DEF Answer, SubmitAnswer, SubmitAnswered, SubmitFailed, Submitting, handleSubmit,
                  GoBack, vars, composerVars
    <2> QED
      BY <2>1 DEF times, TimeInv
  <1>4. CASE Place
    <2>1. UNCHANGED <<times, now>>
      BY <1>4 DEF Place, OpenPicker, ClosePicker, UseManual, ClearVenue, UseVenue,
                  TypeLocation, onSelectSport, SetFields, Placing, Apart, composerVars
    <2> QED
      BY <2>1 DEF times, TimeInv
  <1> QED
    BY <1>1, <1>2, <1>3, <1>4 DEF Next

\* In the beginning there is no venue, no request and a valid draft.
LEMMA OthersStart == Init => PlaceInv /\ PostInv /\ TimeInv
  <1> SUFFICES ASSUME Init
               PROVE  PlaceInv /\ PostInv /\ TimeInv
    OBVIOUS
  <1>1. PlaceInv /\ PostInv
    <2>1. sent = None /\ location = "" /\ posted = 0 /\ lost = 0
      BY DEF Init
    <2>2. PlaceInv
      BY <2>1 DEF PlaceInv, OnePlaceSent
    <2>3. 0 \in Nat /\ 0 <= 1 + 0 /\ 0 <= 0
      OBVIOUS
    <2>4. PostInv
      BY <2>1, <2>3 DEF PostInv
    <2> QED
      BY <2>2, <2>4
  <1>2. now \in Nat
    BY ComposerAssumption DEF Init
  <1>3. Today(now) + 1 \in Nat /\ now < (Today(now) + 1) * Day
    BY <1>2 DEF Today, Day
  <1>4. draft.date = Today(now) + 1 /\ draft.start = 540 /\ draft.end = 600 /\ draft \in Draft
    <2>1. defaultStartTime = 540 /\ plusOneHour(540) = 600
      BY HourIs DEF defaultStartTime
    <2>2. draft = [date |-> Today(now) + 1, start |-> 540, end |-> 600]
      BY <2>1 DEF Init, InitialDraft, defaultDate
    <2> QED
      BY <1>3, <2>2 DEF Draft, Day
  <1>5. Sound(draft, now)
    BY <1>2, <1>3, <1>4
    DEF Sound, combineToLocalDate, MIN_SESSION_MINUTES, MAX_SESSION_MINUTES, Day
  <1>6. TimeInv
    BY <1>2, <1>4, <1>5 DEF Init, TimeInv
  <1> QED
    BY <1>1, <1>6

-----------------------------------------------------------------------------
(* The calendar.                                                           *)

\* A set of natural numbers that is not empty has a least one.
LEMMA Least ==
    ASSUME NEW T, T \subseteq Nat, T # {}
    PROVE  \E x \in T : \A y \in T : x <= y
  <1>1. IsWellFoundedOn(OpToRel(<, Nat), Nat)
    BY NatLessThanWellFounded
  <1>2. PICK x \in T : \A y \in T : ~ (<<y, x>> \in OpToRel(<, Nat))
    BY <1>1, WFMin
  <1>3. \A y \in T : ~(y < x)
    BY <1>2, Zenon DEF OpToRel
  <1>4. \A y \in T : y \in Nat
    OBVIOUS
  <1>5. ASSUME NEW y \in T
        PROVE  x <= y
    <2>1. y \in Nat /\ x \in Nat /\ ~(y < x)
      BY <1>3, <1>4
    <2> QED
      BY <2>1, SMT
  <1> QED
    BY <1>5

\* What holds of 0, and of n + 1 when it holds of n, holds of every number up to N.
LEMMA UpTo ==
    ASSUME NEW N \in Nat, NEW T, 0 \in T, \A n \in 0 .. N - 1 : n \in T => n + 1 \in T
    PROVE  0 .. N \subseteq T
  <1> SUFFICES ASSUME NEW k \in 0 .. N, k \notin T
               PROVE  FALSE
    OBVIOUS
  <1> DEFINE rest == {n \in 0 .. N : n \notin T}
  <1>1. PICK n \in rest : \A m \in rest : n <= m
    <2>1. rest \subseteq Nat /\ rest # {}
      OBVIOUS
    <2> HIDE DEF rest
    <2> QED
      BY <2>1, Least
  <1>2. n # 0 /\ n - 1 \in 0 .. N - 1
    BY <1>1
  <1>3. n - 1 \in T
    BY <1>1, <1>2
  <1>4. (n - 1) + 1 = n
    BY <1>1
  <1> QED
    BY <1>1, <1>2, <1>3, <1>4

\* A running sum exists.
LEMMA SumExists ==
    ASSUME NEW d \in [Nat -> Nat]
    PROVE  \E f \in [Nat -> Nat] : f[0] = 0 /\ \A n \in Nat : f[n + 1] = f[n] + d[n]
  <1> DEFINE Sums(f, n) == /\ f \in [0 .. n -> Nat] /\ f[0] = 0
                           /\ \A i \in 0 .. n - 1 : f[i + 1] = f[i] + d[i]
  <1>1. ASSUME NEW n \in Nat
        PROVE  \E f : Sums(f, n)
    <2> DEFINE T == {m \in Nat : \E f : Sums(f, m)}
    <2>1. 0 \in T
      <3>1. Sums([i \in 0 .. 0 |-> 0], 0)
        OBVIOUS
      <3> QED
        BY <3>1
    <2>2. ASSUME NEW m \in Nat, m \in T
          PROVE  m + 1 \in T
      <3>1. PICK f : Sums(f, m)
        BY <2>2
      <3>2. PICK v \in Nat : v = f[m] + d[m]
        BY <3>1
      <3>3. PICK g : g = [i \in 0 .. m + 1 |-> IF i = m + 1 THEN v ELSE f[i]]
        OBVIOUS
      <3>4. /\ g[m + 1] = v /\ \A i \in 0 .. m : g[i] = f[i]
        BY <3>3
      <3>5. g \in [0 .. m + 1 -> Nat]
        <4>1. \A i \in 0 .. m + 1 : i = m + 1 \/ i \in 0 .. m
          OBVIOUS
        <4>2. \A i \in 0 .. m : f[i] \in Nat
          BY <3>1
        <4>3. \A i \in 0 .. m + 1 : (IF i = m + 1 THEN v ELSE f[i]) \in Nat
          BY <3>2, <4>1, <4>2
        <4> QED
          BY <3>3, <4>3
      <3>6. g[0] = 0
        <4>1. 0 \in 0 .. m /\ f[0] = 0
          BY <3>1
        <4> QED
          BY <3>4, <4>1
      <3>7. ASSUME NEW i \in 0 .. (m + 1) - 1
            PROVE  g[i + 1] = g[i] + d[i]
        <4>1. CASE i = m
          BY <3>2, <3>4, <4>1
        <4>2. CASE i # m
          <5>1. i \in 0 .. m - 1 /\ i + 1 \in 0 .. m /\ i \in 0 .. m
            BY <4>2
          <5> QED
            BY <3>1, <3>4, <5>1
        <4> QED
          BY <4>1, <4>2
      <3>8. Sums(g, m + 1)
        BY <3>5, <3>6, <3>7
      <3> HIDE DEF Sums
      <3> QED
        BY <3>8
    <2>3. \A m \in 0 .. n - 1 : m \in T => m + 1 \in T
      BY <2>2
    <2> HIDE DEF T
    <2>4. 0 .. n \subseteq T
      BY <2>1, <2>3, UpTo
    <2>5. n \in T
      BY <2>4
    <2> QED
      BY <2>5 DEF T
  <1>2. ASSUME NEW n \in Nat, NEW f, NEW g, Sums(f, n), Sums(g, n + 1)
        PROVE  f[n] = g[n]
    <2> DEFINE T == {m \in Nat : m <= n => f[m] = g[m]}
    <2>1. 0 \in T
      BY <1>2
    <2>2. ASSUME NEW m \in 0 .. n - 1, m \in T
          PROVE  m + 1 \in T
      <3>1. f[m] = g[m] /\ f[m + 1] = f[m] + d[m] /\ g[m + 1] = g[m] + d[m]
        BY <1>2, <2>2
      <3> QED
        BY <3>1
    <2>3. \A m \in 0 .. n - 1 : m \in T => m + 1 \in T
      BY <2>2
    <2> HIDE DEF T
    <2>4. 0 .. n \subseteq T
      BY <2>1, <2>3, UpTo
    <2>5. n \in T
      BY <2>4
    <2> QED
      BY <2>5 DEF T
  <1> DEFINE Pick(n) == CHOOSE f : Sums(f, n)
             total == [n \in Nat |-> Pick(n)[n]]
  <1>3. \A n \in Nat : Sums(Pick(n), n)
    <2> HIDE DEF Sums
    <2> QED
      BY <1>1
  <1> HIDE DEF Pick
  <1>4. ASSUME NEW n \in Nat
        PROVE  /\ total[n] \in Nat
               /\ total[n + 1] = total[n] + d[n]
    <2>1. PICK f : f = Pick(n)
      OBVIOUS
    <2>2. PICK g : g = Pick(n + 1)
      OBVIOUS
    <2>3. Sums(f, n) /\ Sums(g, n + 1)
      <3> HIDE DEF Sums
      <3> QED
        BY <1>3, <2>1, <2>2
    <2>4. total[n] = f[n] /\ total[n + 1] = g[n + 1]
      BY <2>1, <2>2
    <2>5. f[n] = g[n]
      BY <1>2, <2>3
    <2>6. f[n] \in Nat /\ g[n + 1] = g[n] + d[n]
      BY <2>3
    <2> QED
      BY <2>4, <2>5, <2>6
  <1>5. total[0] = 0
    <2>1. Sums(Pick(0), 0)
      BY <1>3
    <2> QED
      BY <2>1
  <1>6. total \in [Nat -> Nat]
    BY <1>4
  <1> HIDE DEF total
  <1> QED
    BY <1>4, <1>5, <1>6

\* A month has 28 to 31 days.
LEMMA MonthLength ==
    ASSUME NEW m \in Nat
    PROVE  daysInMonth(m) \in 28 .. 31
  <1>1. PICK k : k = m % 12
    OBVIOUS
  <1>2. CASE k = 1
    BY <1>1, <1>2 DEF daysInMonth
  <1>3. CASE k \in {3, 5, 8, 10}
    BY <1>1, <1>3 DEF daysInMonth
  <1>4. CASE k # 1 /\ k \notin {3, 5, 8, 10}
    BY <1>1, <1>4 DEF daysInMonth
  <1> QED
    BY <1>2, <1>3, <1>4

\* The months follow one another.
LEMMA MonthsFollow ==
    /\ FirstOf \in [Nat -> Nat] /\ FirstOf[0] = 0
    /\ \A m \in Nat : /\ FirstOf[m + 1] = FirstOf[m] + daysInMonth(m)
                      /\ LastOf(m) = FirstOf[m + 1] - 1
                      /\ FirstOf[m] + 27 <= LastOf(m) /\ LastOf(m) \in Nat
  <1> DEFINE Follows(f) == f = [month \in Nat |->
                IF month = 0 THEN 0 ELSE f[month - 1] + daysInMonth(month - 1)]
             d == [m \in Nat |-> daysInMonth(m)]
  <1>1. d \in [Nat -> Nat] /\ \A m \in Nat : d[m] = daysInMonth(m)
    BY MonthLength
  <1> HIDE DEF d
  <1>2. PICK f \in [Nat -> Nat] : f[0] = 0 /\ \A n \in Nat : f[n + 1] = f[n] + d[n]
    BY <1>1, SumExists
  <1>3. Follows(f)
    <2>1. ASSUME NEW m \in Nat
          PROVE  f[m] = IF m = 0 THEN 0 ELSE f[m - 1] + daysInMonth(m - 1)
      <3>1. CASE m = 0
        BY <1>2, <3>1
      <3>2. CASE m # 0
        <4>1. m - 1 \in Nat /\ (m - 1) + 1 = m
          BY <3>2
        <4>2. f[(m - 1) + 1] = f[m - 1] + daysInMonth(m - 1)
          BY <1>1, <1>2, <4>1
        <4> QED
          BY <3>2, <4>1, <4>2
      <3> QED
        BY <3>1, <3>2
    <2>2. f = [m \in Nat |-> f[m]]
      BY <1>2
    <2> QED
      BY <2>1, <2>2
  <1>4. Follows(FirstOf)
    <2>1. FirstOf = CHOOSE g : Follows(g)
      BY DEF FirstOf
    <2> HIDE DEF Follows
    <2> QED
      BY <1>3, <2>1
  <1>5. \A m \in Nat : FirstOf[m] = IF m = 0 THEN 0 ELSE FirstOf[m - 1] + daysInMonth(m - 1)
    BY <1>4
  <1>6. FirstOf[0] = 0
    BY <1>5
  <1>7. ASSUME NEW m \in Nat
        PROVE  FirstOf[m + 1] = FirstOf[m] + daysInMonth(m)
    <2>1. m + 1 \in Nat /\ m + 1 # 0 /\ (m + 1) - 1 = m
      OBVIOUS
    <2> QED
      BY <1>5, <2>1
  <1>8. ASSUME NEW m \in Nat
        PROVE  FirstOf[m] \in Nat
    <2> DEFINE T == {n \in Nat : FirstOf[n] \in Nat}
    <2>1. 0 \in T
      BY <1>6
    <2>2. \A n \in 0 .. m - 1 : n \in T => n + 1 \in T
      <3> SUFFICES ASSUME NEW n \in 0 .. m - 1, n \in T
                   PROVE  n + 1 \in T
        OBVIOUS
      <3>1. n \in Nat /\ FirstOf[n] \in Nat /\ daysInMonth(n) \in Nat
        BY MonthLength
      <3>2. FirstOf[n + 1] = FirstOf[n] + daysInMonth(n)
        BY <1>7, <3>1
      <3> QED
        BY <3>1, <3>2
    <2> HIDE DEF T
    <2>3. 0 .. m \subseteq T
      BY <2>1, <2>2, UpTo
    <2>4. m \in T
      BY <2>3
    <2> QED
      BY <2>4 DEF T
  <1>9. FirstOf = [m \in Nat |-> FirstOf[m]]
    BY <1>4
  <1>10. FirstOf \in [Nat -> Nat]
    BY <1>8, <1>9
  <1>11. ASSUME NEW m \in Nat
         PROVE  /\ LastOf(m) = FirstOf[m + 1] - 1
                /\ FirstOf[m] + 27 <= LastOf(m) /\ LastOf(m) \in Nat
    <2>1. daysInMonth(m) \in 28 .. 31 /\ FirstOf[m] \in Nat
      BY <1>8, MonthLength
    <2>2. FirstOf[m + 1] = FirstOf[m] + daysInMonth(m)
      BY <1>7
    <2> QED
      BY <2>1, <2>2 DEF LastOf
  <1> QED
    BY <1>6, <1>7, <1>10, <1>11

\* A later month begins after an earlier one has ended.
LEMMA LaterMonth ==
    ASSUME NEW m \in Nat, NEW k \in Nat, m < k
    PROVE  LastOf(m) < FirstOf[k]
  <1> DEFINE T == {n \in Nat : LastOf(m) < FirstOf[m + 1 + n]}
             N == k - (m + 1)
  <1>1. N \in Nat /\ m + 1 + N = k
    OBVIOUS
  <1> HIDE DEF N
  <1>2. 0 \in T
    BY MonthsFollow
  <1>3. \A n \in 0 .. N - 1 : n \in T => n + 1 \in T
    <2> SUFFICES ASSUME NEW n \in 0 .. N - 1, n \in T
                 PROVE  n + 1 \in T
      OBVIOUS
    <2>1. PICK j \in Nat : j = m + 1 + n
      BY <1>1
    <2>2. LastOf(m) < FirstOf[j] /\ FirstOf[j] \in Nat /\ LastOf(m) \in Nat
      BY <2>1, MonthsFollow
    <2>3. FirstOf[j + 1] = FirstOf[j] + daysInMonth(j) /\ daysInMonth(j) \in Nat
      <3>1. FirstOf[j + 1] = FirstOf[j] + daysInMonth(j)
        BY MonthsFollow
      <3>2. daysInMonth(j) \in 28 .. 31
        BY MonthLength
      <3> QED
        BY <3>1, <3>2
    <2>4. j + 1 = m + 1 + (n + 1)
      BY <2>1
    <2> QED
      BY <2>2, <2>3, <2>4
  <1> HIDE DEF T
  <1>4. 0 .. N \subseteq T
    BY <1>1, <1>2, <1>3, UpTo
  <1>5. N \in T
    BY <1>1, <1>4
  <1> QED
    BY <1>1, <1>5 DEF T

\* The months before a month have a day each, at least.
LEMMA MonthBegins ==
    ASSUME NEW m \in Nat
    PROVE  m <= FirstOf[m]
  <1> DEFINE T == {n \in Nat : n <= FirstOf[n]}
  <1>1. 0 \in T
    BY MonthsFollow
  <1>2. \A n \in 0 .. m - 1 : n \in T => n + 1 \in T
    <2> SUFFICES ASSUME NEW n \in 0 .. m - 1, n \in T
                 PROVE  n + 1 \in T
      OBVIOUS
    <2>1. n \in Nat /\ n <= FirstOf[n] /\ FirstOf[n] \in Nat /\ daysInMonth(n) \in 28 .. 31
      BY MonthsFollow, MonthLength
    <2>2. FirstOf[n + 1] = FirstOf[n] + daysInMonth(n)
      BY <2>1, MonthsFollow
    <2> QED
      BY <2>1, <2>2
  <1> HIDE DEF T
  <1>3. 0 .. m \subseteq T
    BY <1>1, <1>2, UpTo
  <1>4. m \in T
    BY <1>3
  <1> QED
    BY <1>4 DEF T

\* A day is in one month.
LEMMA MonthIs ==
    ASSUME NEW m \in Nat, NEW date \in FirstOf[m] .. LastOf(m)
    PROVE  MonthOf(date) = m
  <1>1. FirstOf[m] \in Nat /\ LastOf(m) \in Nat /\ date \in Nat
    BY MonthsFollow
  <1>2. m \in 0 .. date
    BY <1>1, MonthBegins
  <1>3. ASSUME NEW k \in 0 .. date, FirstOf[k] <= date, date <= LastOf(k)
        PROVE  k = m
    <2>1. k \in Nat /\ FirstOf[k] \in Nat /\ LastOf(k) \in Nat
      BY <1>1, MonthsFollow
    <2>2. ~(k < m)
      BY <1>1, <1>3, <2>1, LaterMonth
    <2>3. ~(m < k)
      BY <1>1, <1>3, <2>1, LaterMonth
    <2> QED
      BY <2>1, <2>2, <2>3
  <1>4. FirstOf[m] <= date /\ date <= LastOf(m)
    BY <1>1
  <1>5. (CHOOSE k \in 0 .. date : FirstOf[k] <= date /\ date <= LastOf(k)) = m
    BY <1>2, <1>3, <1>4
  <1> QED
    BY <1>5 DEF MonthOf

\* Every date is in a month.
LEMMA MonthExists ==
    ASSUME NEW date \in Nat
    PROVE  MonthOf(date) \in Nat
  <1> DEFINE T == {m \in Nat : date <= LastOf(m)}
  <1>1. date \in T
    BY MonthBegins, MonthsFollow
  <1>2. PICK m \in T : \A k \in T : m <= k
    <2>1. T \subseteq Nat /\ T # {}
      BY <1>1
    <2> HIDE DEF T
    <2> QED
      BY <2>1, Least
  <1>3. m \in Nat /\ date <= LastOf(m) /\ FirstOf[m] \in Nat /\ LastOf(m) \in Nat
    BY <1>2, MonthsFollow
  <1>4. FirstOf[m] <= date
    <2>1. CASE m = 0
      BY <2>1, MonthsFollow
    <2>2. CASE m # 0
      <3>1. PICK k \in Nat : k + 1 = m
        BY <1>3, <2>2
      <3>2. k \notin T
        BY <1>2, <3>1
      <3>3. LastOf(k) < date /\ LastOf(k) = FirstOf[m] - 1
        BY <3>1, <3>2, MonthsFollow
      <3> QED
        BY <1>3, <3>3
    <2> QED
      BY <2>1, <2>2
  <1>5. date \in FirstOf[m] .. LastOf(m)
    BY <1>3, <1>4
  <1> QED
    BY <1>3, <1>5, MonthIs

\* A column further is a day further.
LEMMA InColumn ==
    ASSUME NEW n \in Nat, NEW j \in Int
    PROVE  (n + j - (n % 7)) % 7 = j % 7
  OBVIOUS

\* The rows of a month.
LEMMA GridHolds ==
    ASSUME NEW m \in Nat, NEW grid, grid = buildMonthGrid(m),
           NEW days, days = {i \in DOMAIN grid : grid[i] # Blank}
    PROVE  /\ Len(grid) % 7 = 0
           /\ {grid[i] : i \in days} = FirstOf[m] .. LastOf(m)
           /\ \A i \in days : Weekday(grid[i]) = (i - 1) % 7 /\ MonthOf(grid[i]) = m
           /\ \A i, j \in days : i < j => grid[i] < grid[j]
           /\ \A row \in 0 .. Len(grid) \div 7 - 1 :
                  \E column \in 1 .. 7 : 7 * row + column \in days
  <1>1. PICK first, length, lead, rows :
            /\ first = FirstOf[m] /\ length = daysInMonth(m)
            /\ lead = Weekday(first) /\ rows = (lead + length + 6) \div 7
    OBVIOUS
  <1>2. /\ first \in Nat /\ length \in 28 .. 31 /\ LastOf(m) = first + length - 1
    BY <1>1, MonthsFollow, MonthLength DEF LastOf
  <1>3. lead \in 0 .. 6 /\ lead = (first + 1) % 7
    BY <1>1, <1>2 DEF Weekday
  <1>4. rows \in Nat \ {0} /\ 7 * rows >= lead + length /\ 7 * (rows - 1) < lead + length
    BY <1>1, <1>2, <1>3
  <1>5. grid = [i \in 1 .. 7 * rows |->
                  IF i \in lead + 1 .. lead + length THEN first + i - lead - 1 ELSE Blank]
    BY <1>1 DEF buildMonthGrid, firstWeekdayOfMonth
  <1>6. DOMAIN grid = 1 .. 7 * rows /\ Len(grid) = 7 * rows
    <2>1. \A i \in 1 .. 7 * rows :
             (IF i \in lead + 1 .. lead + length THEN first + i - lead - 1 ELSE Blank) \in Int
      BY <1>2, <1>3, <1>4 DEF Blank
    <2>2. grid \in [1 .. 7 * rows -> Int]
      BY <1>5, <2>1
    <2>3. 7 * rows \in Nat
      BY <1>4
    <2> QED
      BY <2>2, <2>3
  <1>7. \A i \in lead + 1 .. lead + length : i \in DOMAIN grid /\ grid[i] = first + i - lead - 1
    BY <1>2, <1>3, <1>4, <1>5, <1>6
  <1>8. days = lead + 1 .. lead + length
    <2>1. ASSUME NEW i \in days
          PROVE  i \in lead + 1 .. lead + length
      <3>1. i \in 1 .. 7 * rows /\ grid[i] # Blank
        BY <1>6
      <3> QED
        BY <1>5, <3>1
    <2>2. ASSUME NEW i \in lead + 1 .. lead + length
          PROVE  i \in days
      <3>1. first + i - lead - 1 # Blank
        BY <1>2, <1>3 DEF Blank
      <3> QED
        BY <1>7, <3>1
    <2> QED
      BY <2>1, <2>2
  <1>9. Len(grid) % 7 = 0
    BY <1>4, <1>6
  <1>10. {grid[i] : i \in days} = first .. LastOf(m)
    <2>1. ASSUME NEW i \in days
          PROVE  grid[i] \in first .. LastOf(m)
      BY <1>2, <1>3, <1>7, <1>8
    <2>2. ASSUME NEW date \in first .. LastOf(m)
          PROVE  \E i \in days : grid[i] = date
      <3>1. date - first + lead + 1 \in lead + 1 .. lead + length
        BY <1>2, <1>3
      <3>2. PICK i : i = date - first + lead + 1
        OBVIOUS
      <3>3. grid[i] = first + i - lead - 1 /\ i \in days
        BY <1>7, <1>8, <3>1, <3>2
      <3>4. grid[i] = date
        BY <1>2, <1>3, <3>2, <3>3
      <3> QED
        BY <3>3, <3>4
    <2> QED
      BY <2>1, <2>2
  <1>11. ASSUME NEW i \in days
         PROVE  Weekday(grid[i]) = (i - 1) % 7 /\ MonthOf(grid[i]) = m
    <2>1. grid[i] = first + i - lead - 1 /\ i \in Int /\ i >= lead + 1
      BY <1>2, <1>3, <1>7, <1>8
    <2>2. (first + i - lead) % 7 = (i - 1) % 7
      <3>1. PICK n \in Nat, j \in Int : n = first + 1 /\ j = i - 1
        BY <1>2, <2>1
      <3>2. lead = n % 7
        BY <1>3, <3>1
      <3>3. (n + j - lead) % 7 = j % 7
        BY <3>2, InColumn
      <3>4. n + j - lead = first + i - lead
        BY <1>2, <1>3, <2>1, <3>1
      <3> QED
        BY <3>1, <3>3, <3>4
    <2>3. grid[i] + 1 = first + i - lead
      BY <1>2, <1>3, <2>1
    <2>4. grid[i] \in FirstOf[m] .. LastOf(m)
      BY <1>1, <1>10
    <2> QED
      BY <2>2, <2>3, <2>4, MonthIs DEF Weekday
  <1>12. \A i, j \in days : i < j => grid[i] < grid[j]
    <2> SUFFICES ASSUME NEW i \in days, NEW j \in days, i < j
                 PROVE  grid[i] < grid[j]
      OBVIOUS
    <2>1. grid[i] = first + i - lead - 1 /\ i \in Int
      BY <1>3, <1>7, <1>8
    <2>2. grid[j] = first + j - lead - 1 /\ j \in Int
      BY <1>3, <1>7, <1>8
    <2> QED
      BY <1>2, <1>3, <2>1, <2>2
  <1>13. ASSUME NEW row \in 0 .. Len(grid) \div 7 - 1
         PROVE  \E column \in 1 .. 7 : 7 * row + column \in days
    <2>1. row \in 0 .. rows - 1
      <3>1. (7 * rows) \div 7 = rows
        BY <1>4
      <3> QED
        BY <1>6, <3>1
    <2>2. CASE row = 0
      <3>1. 7 * row + 7 \in lead + 1 .. lead + length
        BY <1>2, <1>3, <2>2
      <3> QED
        BY <1>8, <3>1
    <2>3. CASE row # 0
      <3>1. 7 * row + 1 \in lead + 1 .. lead + length
        BY <1>2, <1>3, <1>4, <2>1, <2>3
      <3> QED
        BY <1>8, <3>1
    <2> QED
      BY <2>2, <2>3
  <1> QED
    BY <1>1, <1>9, <1>10, <1>11, <1>12, <1>13

\* The calendar shows a month.
MonthInv == visibleMonth = Blank \/ visibleMonth \in Nat

\* The calendar only ever shows a month that exists.
LEMMA MonthStep ==
    ASSUME MonthInv, TimeInv, [Next]_vars
    PROVE  MonthInv'
  <1>1. CASE OpenCalendar
    <2>1. visibleMonth' = MonthOf(draft.date) /\ draft.date \in Nat
      BY <1>1 DEF OpenCalendar, TimeInv, Draft
    <2> QED
      BY <2>1, MonthExists DEF MonthInv
  <1>2. CASE TurnMonth("prev", -1) \/ TurnMonth("next", 1)
    <2>1. visibleMonth' \in 0 .. MaxMonth
      BY <1>2 DEF TurnMonth
    <2> QED
      BY <2>1 DEF MonthInv
  <1>3. CASE CloseCalendar \/ CloseWheel \/ \E date \in Dates : PickDate(date)
    BY <1>3 DEF CloseCalendar, CloseWheel, PickDate, MonthInv
  <1>4. CASE \/ OpenWheel("start") \/ OpenWheel("end")
             \/ \E h \in HOUR_OPTIONS, n \in MINUTE_OPTIONS_15 : TurnWheel(joinTime(h, n))
    BY <1>4 DEF OpenWheel, TurnWheel, MonthInv
  <1>5. CASE Answer \/ handleSubmit \/ GoBack \/ UNCHANGED vars
    <2>1. UNCHANGED times
      BY <1>5 DEF Answer, SubmitAnswer, SubmitAnswered, SubmitFailed, Submitting, handleSubmit,
                  GoBack, vars, composerVars
    <2> QED
      BY <2>1 DEF times, MonthInv
  <1>6. CASE Place
    <2>1. UNCHANGED times
      BY <1>6 DEF Place, OpenPicker, ClosePicker, UseManual, ClearVenue, UseVenue,
                  TypeLocation, onSelectSport, SetFields, Placing, Apart, composerVars
    <2> QED
      BY <2>1 DEF times, MonthInv
  <1>7. CASE \E moment \in Moments : Tick(moment)
    BY <1>7 DEF Tick, times, MonthInv
  <1> QED
    BY <1>1, <1>2, <1>3, <1>4, <1>5, <1>6, <1>7 DEF Next, Time

-----------------------------------------------------------------------------
(* The theorems.                                                           *)

\* The strengthening holds in every reachable state.
THEOREM Invariance == Spec => [](PickerInv /\ PlaceInv /\ PostInv /\ TimeInv)
<1>1. Spec => []PickerInv
  BY PickerStarts, PickerNext, PTL DEF Spec
<1>2. Spec => []PlaceInv
  BY OthersStart, PlaceNext, PTL DEF Spec
<1>3. Spec => []PostInv
  BY OthersStart, PostNext, PTL DEF Spec
<1>4. Spec => []TimeInv
  BY OthersStart, TimeNext, PTL DEF Spec
<1> QED
  BY <1>1, <1>2, <1>3, <1>4, PTL

\* The results that can be used are those of the filters on the screen, however
\* many searches are in flight and in whatever order they end (useNearbyVenues).
THEOREM ResultsCurrent == Spec => []ResultsMatchFilters
<1>1. PickerInv => ResultsMatchFilters
  BY DEF PickerInv
<1> QED
  BY <1>1, Invariance, PTL

\* The venue of a session serves its sport, chosen from a card or from a pin.
THEOREM VenuesServe == Spec => []VenueServesSport
<1>1. PickerInv => VenueServesSport
  BY DEF PickerInv
<1> QED
  BY <1>1, Invariance, PTL

\* A create request names a venue or a text, never both.
THEOREM OnePlace == Spec => []OnePlaceSent
<1>1. PlaceInv => OnePlaceSent
  BY DEF PlaceInv
<1> QED
  BY <1>1, Invariance, PTL

\* The place of a session can be played at and is one place.
THEOREM PlacesSound == Spec => []PlaceIsSound
BY VenuesServe, OnePlace, PTL DEF PlaceIsSound

\* A screen asks for one session, and once more for each request that seemed to
\* have failed.
THEOREM Posts == Spec => []PostedOnce
<1>1. PostInv => PostedOnce
  BY DEF PostInv, PostedOnce
<1> QED
  BY <1>1, Invariance, PTL

\* A session is asked for once; and what is proposed is sound at the moment of its
\* last edit, for every clock, date and time: the validation is never that of an
\* older draft.
THEOREM RequestsSound == Spec => RequestIsSound
<1> DEFINE Request == PostedOnce' /\ (sent = None /\ sent' # None => ProposalSound)
<1>1. ASSUME TimeInv, PostedOnce', [Next]_vars
      PROVE  Request
  <2> SUFFICES ASSUME sent = None, sent' # None, kind = "booking"
               PROVE  ProposalSound
    BY <1>1 DEF ProposalSound
  <2>1. handleSubmit
    <3>1. CASE Answer
      BY <3>1 DEF Answer, composerVars, SubmitAnswer, SubmitAnswered, SubmitFailed
    <3>2. CASE Place
      BY <3>2 DEF Place, OpenPicker, ClosePicker, UseManual, ClearVenue, UseVenue,
                  TypeLocation, onSelectSport, SetFields, Placing, Apart, composerVars
    <3>3. CASE Time
      BY <3>3, TimeIdle
    <3>4. CASE GoBack \/ \E moment \in Moments : Tick(moment)
      BY <3>4 DEF GoBack, Tick
    <3>5. CASE UNCHANGED vars
      BY <3>5 DEF vars, composerVars
    <3> QED
      BY <1>1, <3>1, <3>2, <3>3, <3>4, <3>5 DEF Next
  <2>2. checked = NoError
    BY <2>1 DEF handleSubmit, Shown, BookingOffers, PlaceOffers, canSubmit
  <2>3. sent'.draft = draft
    BY <2>1 DEF handleSubmit, PayloadNow
  <2>4. Sound(draft, edited)
    BY <1>1, <2>2 DEF TimeInv
  <2> QED
    BY <2>3, <2>4 DEF Sound, ProposalSound
<1> HIDE DEF Request
<1>2. Spec => [][Request]_vars
  BY <1>1, Invariance, Posts, PTL DEF Spec
<1> QED
  BY <1>2 DEF Request, RequestIsSound

\* The calendar shows every day of its month in the column of its weekday, whichever
\* month it is: buildMonthGrid, for every month that MonthOf and shiftMonth lead to.
THEOREM CalendarIsMonth == Spec => []GridIsMonth
<1>1. Init => MonthInv
  BY DEF Init, MonthInv
<1>2. MonthInv /\ TimeInv /\ [Next]_vars => MonthInv'
  BY MonthStep
<1>3. MonthInv => GridIsMonth
  BY GridHolds DEF MonthInv, GridIsMonth
<1>4. Spec => []MonthInv
  BY <1>1, <1>2, Invariance, PTL DEF Spec
<1> QED
  BY <1>3, <1>4, PTL
=============================================================================
