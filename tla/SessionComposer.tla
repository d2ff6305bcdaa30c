--------------------------- MODULE SessionComposer --------------------------
(***************************************************************************)
(* The two screens that create a session with a place: BookingComposer,    *)
(* which proposes one to a partner, and CreateBattle, which hosts a game.  *)
(* Both open the venue picker; the booking has a calendar and time wheels  *)
(* (CalendarPicker, TimeWheelPicker), the game has typed fields.           *)
(*                                                                         *)
(* Only one modal is open at a time, and it covers the form.  The clock    *)
(* goes on meanwhile.                                                      *)
(***************************************************************************)
EXTENDS VenuePicker, SessionTime

CONSTANTS
    Hours,    \* bound: the hours and minutes that the wheels are turned to
    Minutes,
    Dates,    \* bound: the dates that are pressed in the calendar
    Moments,  \* bound: the moments at which something happens
    MaxMonth, \* bound on how far the calendar is turned
    MaxLost   \* bound on the create requests that fail

ASSUME ComposerAssumption ==
    /\ Hours \subseteq HOUR_OPTIONS /\ Minutes \subseteq MINUTE_OPTIONS_15
    /\ Dates \subseteq Nat /\ Moments \subseteq Nat
    /\ \E first \in Moments : \A moment \in Moments : first <= moment

VARIABLES
    kind,         \* which of the two screens it is
    mounted,      \* the screen is there
    location,     \* the text typed for the place
    selectedVenue,
    draft,        \* booking: date, startTime and endTime
    checked,      \* booking: validationError, as it was last computed
    modal,        \* booking: the calendar or a time wheel
    visibleMonth, \* the month in the calendar, Blank when it is closed
    wheel,        \* the draft in the time wheel, Blank when it is closed
    now,
    fields,       \* game: title, capacity, and date and time, are filled in well
    isSubmitting,
    sent,         \* the create request in flight
    posted,       \* history variable: the create requests sent
    lost,         \* history variable: those that seemed to fail
    edited        \* history variable: when the draft was last changed

times == <<draft, checked, modal, visibleMonth, wheel, edited>>
place == <<location, selectedVenue>>
server == <<posted, lost>>
composerVars == <<kind, mounted, place, times, now, fields, isSubmitting, sent, server>>
vars == <<sport, pickerVars, composerVars>>

Draft == [date : Nat, start : 0 .. Day - 1, end : 0 .. Day - 1]
\* Of the selected venue what it is and the sport it was found for.
Choice == [id : VenueId, sport : Sport]
Payload == [location : Typed, venue : Choice \cup {None}, draft : Draft]

-----------------------------------------------------------------------------
(* What the screens offer.                                                 *)

hasLocation == location # "" \/ selectedVenue # None

\* Fault: the button stays on while a request is in flight.
canSubmitTwice ==
    IF kind = "booking" THEN checked = NoError
    ELSE fields.title /\ fields.capacity /\ hasLocation
canSubmit ==
    /\ ~isSubmitting
    /\ IF kind = "booking" THEN checked = NoError
       ELSE fields.title /\ fields.capacity /\ hasLocation

\* The venue that is selected, or the two ways to name a place.
PlaceOffers == IF selectedVenue # None THEN {"change"} ELSE {"find", "typeLocation"}

BookingOffers ==
    {"back", "date", "start", "end"} \cup PlaceOffers
        \cup (IF canSubmit THEN {"submit"} ELSE {})
BattleFieldOffers == {"back", "sport", "fields"}
BattleOffers ==
    BattleFieldOffers \cup PlaceOffers
        \cup (IF canSubmit THEN {"submit"} ELSE {})

Shown(control) ==
    /\ mounted /\ ~isOpen /\ modal = "none"
    /\ control \in IF kind = "booking" THEN BookingOffers ELSE BattleOffers

\* The calendar: a month whose last day is not in the future has no way back.
prevDisabled == LastOf(visibleMonth) <= Today(now)
CalendarOffers == IF prevDisabled THEN {"next"} ELSE {"prev", "next"}

\* The days that can be pressed: those of the month that have not gone by.
DayOffers == {date \in FirstOf[visibleMonth] .. LastOf(visibleMonth) : ~isPastDate(date, now)}

-----------------------------------------------------------------------------
(* The place.                                                              *)

OpenPicker ==
    /\ Shown("find") /\ Opened
    /\ UNCHANGED composerVars

ClosePicker ==
    /\ Offered("close") /\ Closed
    /\ UNCHANGED composerVars

Apart == UNCHANGED <<kind, mounted, times, now, isSubmitting, sent, server>>
Placing == Apart /\ UNCHANGED fields

\* Fault: the typed text stays and wins.
UseVenueKeepText(v) ==
    /\ mounted /\ Usable(v) /\ Closed
    /\ selectedVenue' = [id |-> v.id, sport |-> v.for.sport]
    /\ UNCHANGED location
    /\ Placing

\* handleUse: a venue takes the place of what was typed, and the other way round.
UseVenue(v) ==
    /\ mounted /\ Usable(v) /\ Closed
    /\ selectedVenue' = [id |-> v.id, sport |-> v.for.sport]
    /\ location' = ""
    /\ Placing

UseManual ==
    /\ mounted /\ Offered("useManual") /\ Closed
    /\ selectedVenue' = None
    /\ location' = form.manualText
    /\ Placing

ClearVenue ==
    /\ Shown("change")
    /\ selectedVenue' = None
    /\ UNCHANGED <<location, sport, pickerVars>>
    /\ Placing

TypeLocation(text) ==
    /\ Shown("typeLocation")
    /\ location' = text
    /\ UNCHANGED <<selectedVenue, sport, pickerVars>>
    /\ Placing

\* Fault: the venue stays when the sport changes.
onSelectSportKept(s) ==
    /\ Shown("sport")
    /\ sport' = s
    /\ fields' = [fields EXCEPT !.capacity = TRUE]
    /\ UNCHANGED <<place, pickerVars>>
    /\ Apart

\* The capacity is filled in with that of the sport, and the venue goes.
onSelectSport(s) ==
    /\ Shown("sport")
    /\ sport' = s
    /\ fields' = [fields EXCEPT !.capacity = TRUE]
    /\ selectedVenue' = None
    /\ UNCHANGED <<location, pickerVars>>
    /\ Apart

SetFields(title, capacity, when) ==
    /\ Shown("fields")
    /\ fields' = [title |-> title, capacity |-> capacity, when |-> when]
    /\ UNCHANGED <<sport, pickerVars, kind, mounted, place, times, now, isSubmitting,
                   sent, server>>

-----------------------------------------------------------------------------
(* The times of a booking.                                                 *)

Timing == UNCHANGED <<sport, pickerVars, kind, mounted, place, now, fields, isSubmitting,
                      sent, server>>

\* The draft changes, and with it the validation.
Edit(new) ==
    /\ draft' = new
    /\ checked' = IF new = draft THEN checked ELSE computeValidationError(new, now)
    /\ edited' = IF new = draft THEN edited ELSE now

\* The calendar opens on the month of the date.
OpenCalendar ==
    /\ Shown("date")
    /\ modal' = "date"
    /\ visibleMonth' = MonthOf(draft.date)
    /\ UNCHANGED <<draft, checked, wheel, edited>>
    /\ Timing

TurnMonth(control, step) ==
    /\ modal = "date" /\ control \in CalendarOffers
    /\ shiftMonth(visibleMonth, step) \in 0 .. MaxMonth
    /\ visibleMonth' = shiftMonth(visibleMonth, step)
    /\ UNCHANGED <<draft, checked, modal, wheel, edited>>
    /\ Timing

PickDate(date) ==
    /\ modal = "date" /\ date \in DayOffers
    /\ Edit([draft EXCEPT !.date = date])
    /\ modal' = "none" /\ visibleMonth' = Blank
    /\ UNCHANGED wheel
    /\ Timing

CloseCalendar ==
    /\ modal = "date"
    /\ modal' = "none" /\ visibleMonth' = Blank
    /\ UNCHANGED <<draft, checked, wheel, edited>>
    /\ Timing

\* The wheel begins with the time of the form, and keeps its own until Done.
OpenWheel(which) ==
    /\ Shown(which)
    /\ modal' = which
    /\ wheel' = draft[which]
    /\ UNCHANGED <<draft, checked, visibleMonth, edited>>
    /\ Timing

\* The two columns: another hour, or another minute.
TimeWheelOffers ==
    {joinTime(h, snapMinuteTo15(wheel % 60)) : h \in Hours}
        \cup {joinTime(wheel \div 60, m) : m \in Minutes}

\* One of the columns comes to rest elsewhere, or a row is pressed (WheelPicker).
TurnWheel(time) ==
    /\ modal \in {"start", "end"}
    /\ time \in TimeWheelOffers
    /\ time # wheel
    /\ wheel' = time
    /\ UNCHANGED <<draft, checked, modal, visibleMonth, edited>>
    /\ Timing

handlePickStartTime(start) ==
    [draft EXCEPT !.start = start,
                  !.end = IF @ <= start THEN plusOneHour(start) ELSE @]

\* Done, which closing the modal does too.
CloseWheel ==
    /\ modal \in {"start", "end"}
    /\ Edit(IF modal = "start" THEN handlePickStartTime(wheel)
            ELSE [draft EXCEPT !.end = wheel])
    /\ modal' = "none" /\ wheel' = Blank
    /\ UNCHANGED visibleMonth
    /\ Timing

-----------------------------------------------------------------------------
(* Submitting.                                                             *)

\* A game is not sent when its date or time is malformed.
combineLocalDateTime == kind = "battle" => fields.when

\* Typed text wins, and a game has the venue in its text only.
PayloadNow == [location |-> location, venue |-> selectedVenue, draft |-> draft]

\* handleSubmit up to its await.
handleSubmit ==
    /\ Shown("submit")
    /\ combineLocalDateTime
    /\ isSubmitting' = TRUE
    /\ sent' = PayloadNow
    /\ posted' = posted + 1
    /\ UNCHANGED <<sport, pickerVars, kind, mounted, place, times, now, fields, lost>>

Submitting == UNCHANGED <<sport, pickerVars, kind, place, times, now, fields>>

\* The session is created and its screen replaces this one.
SubmitAnswered ==
    /\ sent # None
    /\ mounted' = FALSE
    /\ sent' = None
    /\ isSubmitting' = (isSubmitting /\ kind = "booking")
    /\ UNCHANGED server
    /\ Submitting

\* Fault: the error is shown and the button stays off.
SubmitFailedStuck ==
    /\ sent # None /\ lost < MaxLost
    /\ lost' = lost + 1
    /\ sent' = None
    /\ UNCHANGED <<mounted, isSubmitting, posted>>
    /\ Submitting

\* The request is refused, or it is not answered in time.
SubmitFailed ==
    /\ sent # None /\ lost < MaxLost
    /\ lost' = lost + 1
    /\ sent' = None
    /\ isSubmitting' = FALSE
    /\ UNCHANGED <<mounted, posted>>
    /\ Submitting

GoBack ==
    /\ Shown("back")
    /\ mounted' = FALSE
    /\ UNCHANGED <<sport, pickerVars, kind, place, times, now, fields, isSubmitting,
                   sent, server>>

Tick(moment) ==
    /\ moment > now
    /\ now' = moment
    /\ UNCHANGED <<sport, pickerVars, kind, mounted, place, times, fields, isSubmitting,
                   sent, server>>

-----------------------------------------------------------------------------
InitialDraft(at) ==
    [date |-> defaultDate(at), start |-> defaultStartTime,
     end |-> plusOneHour(defaultStartTime)]

Init ==
    /\ PickerInit
    /\ sport \in Sport
    /\ kind \in {"booking", "battle"}
    /\ mounted = TRUE
    /\ location = "" /\ selectedVenue = None
    /\ now = CHOOSE m \in Moments : \A n \in Moments : m <= n
    /\ draft = InitialDraft(now)
    /\ checked = NoError /\ edited = now
    /\ modal = "none" /\ visibleMonth = Blank /\ wheel = Blank
    /\ fields = [title |-> FALSE, capacity |-> TRUE, when |-> TRUE]
    /\ isSubmitting = FALSE /\ sent = None
    /\ posted = 0 /\ lost = 0

SubmitAnswer == SubmitAnswered \/ SubmitFailed
Answer ==
    \/ mounted /\ PickerAnswer /\ UNCHANGED composerVars
    \/ SubmitAnswer

Place ==
    \/ OpenPicker \/ ClosePicker \/ UseManual \/ ClearVenue
    \/ mounted /\ PickerPress /\ UNCHANGED composerVars
    \/ \E v \in hook.venues \cup {form.mapSelectedVenue} : UseVenue(v)
    \/ \E text \in Typed : TypeLocation(text)
    \/ \E s \in Sport : onSelectSport(s)
    \/ \E title, capacity, when \in BOOLEAN : SetFields(title, capacity, when)

Time ==
    \/ OpenCalendar \/ CloseCalendar \/ TurnMonth("prev", -1) \/ TurnMonth("next", 1)
    \/ \E date \in Dates : PickDate(date)
    \/ OpenWheel("start") \/ OpenWheel("end") \/ CloseWheel
    \/ \E h \in HOUR_OPTIONS, m \in MINUTE_OPTIONS_15 : TurnWheel(joinTime(h, m))

Next ==
    \/ Answer \/ Place \/ Time \/ handleSubmit \/ GoBack
    \/ \E moment \in Moments : Tick(moment)

Spec == Init /\ [][Next]_vars

\* Every request is answered or times out, also one that later ones overtake.
Fairness ==
    /\ WF_vars(SubmitAnswer)
    /\ WF_vars(mounted /\ SearchAnswer /\ UNCHANGED composerVars)
FairSpec == Spec /\ Fairness

-----------------------------------------------------------------------------
(* Properties.                                                             *)

\* Every variable has its type.
TypeOK ==
    /\ PickerTypeOK
    /\ kind \in {"booking", "battle"}
    /\ mounted \in BOOLEAN
    /\ location \in Typed /\ selectedVenue \in Choice \cup {None}
    /\ draft \in Draft
    /\ {draft.start, draft.end} \subseteq timeOptions(TIME_INCREMENT_MINUTES)
    /\ checked \in {NoError, "endBeforeStart", "tooShort", "tooLong", "past"}
    /\ modal \in {"none", "date", "start", "end"}
    /\ visibleMonth \in (0 .. MaxMonth) \cup {Blank}
    /\ wheel \in timeOptions(TIME_INCREMENT_MINUTES) \cup {Blank}
    /\ now \in Moments /\ edited \in Moments
    /\ fields \in [title : BOOLEAN, capacity : BOOLEAN, when : BOOLEAN]
    /\ isSubmitting \in BOOLEAN
    /\ sent \in Payload \cup {None}
    /\ posted \in Nat /\ lost \in 0 .. MaxLost

\* The venue of a session serves its sport, also when the sport was changed after
\* it was chosen or while its search was in flight.
VenueServesSport == selectedVenue # None => selectedVenue.sport = sport

\* A request names one place: never a venue, and a text that is not that venue's.
OnePlaceSent == sent # None => sent.location = "" \/ sent.venue = None

\* The place of a session can be played at and is one place.
PlaceIsSound ==
    /\ VenueServesSport
    /\ OnePlaceSent

\* A proposal lasts from half an hour to four hours, whichever picker was used
\* last, and starts after it was last edited unless its date had gone by.
ProposalSound ==
    kind = "booking" =>
        LET session == sent'.draft
        IN /\ session.end - session.start \in MIN_SESSION_MINUTES .. MAX_SESSION_MINUTES
           /\ \/ combineToLocalDate(session.date, session.start) >= edited
              \/ isPastDate(session.date, edited)

\* A screen asks for one session, and for another only after a request that
\* seemed to have failed.
PostedOnce == posted <= 1 + lost

\* What is asked of the server is asked once, and is a session that it accepts.
RequestIsSound ==
    [][PostedOnce' /\ (sent = None /\ sent' # None => ProposalSound)]_vars

\* The calendar has every day of its month once and in order, in the column of its
\* weekday, and no row without a day.
GridIsMonth ==
    visibleMonth # Blank =>
        LET grid == buildMonthGrid(visibleMonth)
            days == {i \in DOMAIN grid : grid[i] # Blank}
        IN /\ Len(grid) % 7 = 0
           /\ {grid[i] : i \in days} = FirstOf[visibleMonth] .. LastOf(visibleMonth)
           /\ \A i \in days :
                  Weekday(grid[i]) = (i - 1) % 7 /\ MonthOf(grid[i]) = visibleMonth
           /\ \A i, j \in days : i < j => grid[i] < grid[j]
           /\ \A row \in 0 .. Len(grid) \div 7 - 1 :
                  \E column \in 1 .. 7 : 7 * row + column \in days

\* The search ends, unless its arguments are changed for ever.
LoadingStops ==
    <>[][Args' = Args]_vars => (hook.isLoading ~> (~hook.isLoading \/ ~mounted))

\* The search for the next page ends with its answer or its failure, unless the
\* modal searches anew while it is in flight: then isLoadingMore stays set, as
\* MoreWhenIdle tells.
LoadingMoreStops ==
    LET Newest(isFirstPage) ==
            \E r \in requests : r.current /\ r.isFirstPage = isFirstPage
    IN (hook.isLoadingMore /\ Newest(FALSE))
           ~> (~hook.isLoadingMore \/ Newest(TRUE) \/ ~mounted)

\* The submission ends, or its screen has been left.
SubmittingStops == isSubmitting ~> (~isSubmitting \/ ~mounted)

\* Neither the first page, nor the next one unless a new search overtakes it, nor
\* the submission keeps its spinner.
NothingHangs ==
    /\ LoadingStops
    /\ LoadingMoreStops
    /\ SubmittingStops
=============================================================================
