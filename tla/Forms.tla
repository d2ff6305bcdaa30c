--------------------------------- MODULE Forms -------------------------------
(***************************************************************************)
(* The forms of the app: steps 2, 3 and 4 of the onboarding (photos,       *)
(* preferences and sports), Edit Profile with its Select, and Report.  A   *)
(* behaviour opens one of them and leaves it when it has been saved.       *)
(*                                                                         *)
(* A form is saved by calls to the server: one after the other (photos,    *)
(* then the profile, then what is shown again), or all at once (one for    *)
(* each sport).  The system's photo picker takes its time; meanwhile the   *)
(* form can be touched.                                                    *)
(***************************************************************************)
EXTENDS Naturals, FiniteSets, Screens

CONSTANTS
    Form,          \* the forms that may be opened
    MIN_PHOTOS, MAX_PHOTOS,
    AGE_MIN_LIMIT, AGE_MAX_LIMIT, DEFAULT_AGE_MAX,
    Gender,        \* the options next to "any"
    Sport,
    Level,         \* what the fields of a sport may say
    DEFAULT_LEVEL,
    Suburb,
    MaxPicks,      \* bound on the photo pickers open at the same time
    MaxAttempts    \* bound on the attempts to save

AllForms == {"photos", "preferences", "sports", "edit", "report"}

ASSUME FormAssumption == Form \subseteq AllForms /\ None \notin Suburb \cup Level
\* None is no form.
ASSUME NoFormAssumption == None \notin AllForms \cup {"left"}
ASSUME LimitAssumption ==
    /\ {MIN_PHOTOS, MAX_PHOTOS, MaxPicks, MaxAttempts} \subseteq Nat
    /\ MIN_PHOTOS \leq MAX_PHOTOS
    /\ {AGE_MIN_LIMIT, DEFAULT_AGE_MAX, AGE_MAX_LIMIT} \subseteq Nat \ {0}
    /\ AGE_MIN_LIMIT \leq DEFAULT_AGE_MAX /\ DEFAULT_AGE_MAX \leq AGE_MAX_LIMIT
    /\ "any" \notin Gender /\ DEFAULT_LEVEL \in Level

VARIABLES
    form,
    photos,       \* how many photos are picked (photos, newPhotos)
    picks,        \* how many pickers are open
    replaceMode,
    filled,       \* the text fields that say something
    select,       \* the Select: whether it is open, the options that match the query, the value
    wish,         \* openTo, ageMin, ageMax, and the handle that is dragged
    sports,       \* the level of each selected sport
    levels,       \* the fields of all sports
    reason,
    attempt,      \* how often the form was submitted
    isSubmitting,
    calls,        \* the calls in flight
    formError,
    sent,         \* history variable: the levels of the sports at the last press
    submitted,    \* the attempt that was carried through, or 0
    named,        \* the profile store has a profile with a name
    photoUris,    \* the photos the profile store has
    stored,       \* server: what it has saved
    savedBy,      \* history variable: the latest attempt that each sport was saved by
    outrun,       \* history variable: the sports that an earlier attempt saved after it
    unheard       \* history variable: the attempts whose photos or report were saved,
                  \* and whose answer was lost

textVars == <<filled, select, wish, sports, levels, reason>>
photoVars == <<photos, picks, replaceMode>>
storeVars == <<named, photoUris>>
historyVars == <<sent, savedBy, outrun, unheard>>
callVars == <<attempt, isSubmitting, calls, submitted, storeVars, stored, historyVars>>
formVars == <<form, textVars, photoVars, callVars, formError>>

GenderPreference == Gender \cup {"any"}
SelectState == [open : BOOLEAN, matching : SUBSET Suburb, value : Suburb \cup {None}]
Wish == [openTo : SUBSET GenderPreference, ageMin : AGE_MIN_LIMIT .. AGE_MAX_LIMIT,
         ageMax : AGE_MIN_LIMIT .. AGE_MAX_LIMIT, handle : {"min", "max", None}]
\* A call knows what it was made for, the attempt it belongs to, what it says and
\* whether the server has carried it out.
FormCall == [what : {"upload", "profile", "show", "preferences", "sport", "report"},
             attempt : 1 .. MaxAttempts, sport : Sport \cup {None},
             level : Level \cup {None}, photos : 0 .. MAX_PHOTOS, done : BOOLEAN]
\* The set of photos the user had when the form was opened, or the one of an attempt.
PhotoSet == 0 .. MaxAttempts
Stored == [photos : PhotoSet, sports : [Sport -> Level \cup {None}], reports : Nat]

-----------------------------------------------------------------------------
(* What the forms offer.                                                   *)

\* PhotoSlot: a filled slot is emptied, the first empty one is filled.
PhotoSlotOffers ==
    (IF photos > 0 THEN {"remove"} ELSE {}) \cup (IF photos < MAX_PHOTOS THEN {"add"} ELSE {})

\* Fault: the button is there all the time.
SubmitOffersAlways == {"submit"}

\* The button that submits shows a spinner while it works.
SubmitOffers == IF isSubmitting THEN {} ELSE {"submit"}

PhotosOffers == PhotoSlotOffers \cup {"text"} \cup SubmitOffers

\* StepperRow: a stepper stops at the limit and at the other end of the range.
StepperOffers ==
    {c \in {"decMin", "incMin", "decMax", "incMax"} :
        CASE c = "decMin" -> wish.ageMin > AGE_MIN_LIMIT
          [] c = "incMin" -> wish.ageMin < wish.ageMax
          [] c = "decMax" -> wish.ageMax > wish.ageMin
          [] OTHER -> wish.ageMax < AGE_MAX_LIMIT}

\* AgeRangeSelector: the bar with its two handles, and two rows of steppers.
AgeRangeOffers == {"bar"} \cup StepperOffers

PreferencesOffers == {"gender"} \cup AgeRangeOffers \cup SubmitOffers

\* SportFields: the fields of the selected sports.
SportFieldsOffers == IF DOMAIN sports = {} THEN {} ELSE {"fields"}

SportsOffers == {"sport"} \cup SportFieldsOffers \cup SubmitOffers

\* Select: the modal covers the form.
SelectOffers == IF select.open THEN {"query", "option", "backdrop"} ELSE {"trigger"}

EditPhotosOffers ==
    IF replaceMode THEN PhotoSlotOffers \cup (IF isSubmitting THEN {} ELSE {"keep"})
    ELSE IF isSubmitting THEN {} ELSE {"replace"}

EditOffers ==
    IF select.open THEN SelectOffers
    ELSE SelectOffers \cup EditPhotosOffers \cup {"text"}
            \cup (IF isSubmitting THEN {} ELSE {"back"}) \cup SubmitOffers

ReportFormOffers ==
    {"back"} \cup
    IF submitted # 0 THEN {}
    ELSE {"reason"} \cup IF reason THEN SubmitOffers ELSE {}

FormOffers ==
    CASE form = "photos" -> PhotosOffers
      [] form = "preferences" -> PreferencesOffers
      [] form = "sports" -> SportsOffers
      [] form = "edit" -> EditOffers
      [] form = "report" -> ReportFormOffers
      [] OTHER -> {}

-----------------------------------------------------------------------------
(* Photos.                                                                 *)

\* pickPhoto: the length is looked at before the permission and the library are
\* waited for.
PickPhoto ==
    /\ "add" \in FormOffers /\ picks < MaxPicks
    /\ formError' = FALSE
    /\ picks' = picks + 1
    /\ UNCHANGED <<form, photos, replaceMode, textVars, callVars>>

\* Fault: the length is not looked at again.
PhotoPickedUnchecked ==
    /\ picks > 0
    /\ picks' = picks - 1
    /\ photos' \in {photos, photos + 1}
    /\ UNCHANGED <<form, replaceMode, textVars, callVars, formError>>

\* The picker is closed, with a photo or without: no permission, or cancelled.
PhotoPicked ==
    /\ picks > 0
    /\ picks' = picks - 1
    /\ photos' \in {photos, IF photos < MAX_PHOTOS THEN photos + 1 ELSE photos}
    /\ UNCHANGED <<form, replaceMode, textVars, callVars, formError>>

\* removePhoto and removeNewPhoto.
RemovePhoto ==
    /\ "remove" \in FormOffers
    /\ photos' = photos - 1
    /\ UNCHANGED <<form, picks, replaceMode, textVars, callVars, formError>>

\* "Replace photos" does not touch newPhotos; cancelReplaceMode empties it, though a
\* picker may still be open.
SetReplaceMode(on) ==
    /\ (IF on THEN "replace" ELSE "keep") \in FormOffers
    /\ replaceMode' = on
    /\ photos' = IF on THEN photos ELSE 0
    /\ formError' = FALSE
    /\ UNCHANGED <<form, picks, textVars, callVars>>

-----------------------------------------------------------------------------
(* Text, the Select, preferences, sports and reasons.                      *)

Edited == UNCHANGED <<form, photoVars, callVars, formError>>

\* A text field is typed into, or cleared.
TypeText ==
    /\ "text" \in FormOffers
    /\ filled' = ~filled
    /\ UNCHANGED <<select, wish, sports, levels, reason>>
    /\ Edited

\* Select: an empty query matches every option; the backdrop keeps the query.
UseSelect ==
    /\ \/ "trigger" \in FormOffers /\ select' = [select EXCEPT !.open = TRUE]
       \/ "backdrop" \in FormOffers /\ select' = [select EXCEPT !.open = FALSE]
       \/ /\ "query" \in FormOffers
          /\ \E found \in SUBSET Suburb : select' = [select EXCEPT !.matching = found]
       \/ /\ "option" \in FormOffers
          /\ \E s \in select.matching :
                select' = [open |-> FALSE, matching |-> Suburb, value |-> s]
    /\ UNCHANGED <<filled, wish, sports, levels, reason>>
    /\ Edited

\* Fault: "any" stays when another option is added.
ToggledKeepingAny(openTo, g) ==
    IF g = "any" THEN {"any"}
    ELSE IF g \in openTo THEN (IF openTo = {g} THEN {"any"} ELSE openTo \ {g})
    ELSE openTo \cup {g}

\* toggleOpenTo.
Toggled(openTo, g) ==
    IF g = "any" THEN {"any"}
    ELSE LET withoutAny == openTo \ {"any"}
         IN IF g \notin withoutAny THEN withoutAny \cup {g}
            ELSE IF withoutAny = {g} THEN {"any"} ELSE withoutAny \ {g}

ToggleOpenTo(g) ==
    /\ "gender" \in FormOffers
    /\ wish' = [wish EXCEPT !.openTo = Toggled(@, g)]
    /\ UNCHANGED <<filled, select, sports, levels, reason>>
    /\ Edited

Between(low, x, high) == IF x < low THEN low ELSE IF x > high THEN high ELSE x
Apart(x, y) == IF x < y THEN y - x ELSE x - y

\* pickHandle: the nearer handle; at the same distance the one on that side.
PickHandle(x) ==
    CASE Apart(x, wish.ageMin) < Apart(x, wish.ageMax) -> "min"
      [] Apart(x, wish.ageMax) < Apart(x, wish.ageMin) -> "max"
      [] OTHER -> IF x < wish.ageMin THEN "min" ELSE "max"

\* applyToHandle with xToAge: a handle stops at the limit and at the other handle.
ApplyToHandle(x, target) ==
    LET age == Between(AGE_MIN_LIMIT, x, AGE_MAX_LIMIT)
    IN IF target = "min"
       THEN [wish EXCEPT !.handle = target, !.ageMin = Between(AGE_MIN_LIMIT, age, wish.ageMax)]
       ELSE [wish EXCEPT !.handle = target, !.ageMax = Between(wish.ageMin, age, AGE_MAX_LIMIT)]

\* handleGrant, handleMove and handleRelease, for a touch at the position of age x.
TouchBar(x) ==
    /\ "bar" \in FormOffers
    /\ \/ wish.handle = None /\ wish' = ApplyToHandle(x, PickHandle(x))
       \/ wish.handle # None /\ wish' = ApplyToHandle(x, wish.handle)
       \/ wish.handle # None /\ wish' = [wish EXCEPT !.handle = None]
    /\ UNCHANGED <<filled, select, sports, levels, reason>>
    /\ Edited

\* decMin, incMin, decMax and incMax.
StepAge(control) ==
    /\ control \in FormOffers
    /\ wish' = CASE control = "decMin" -> [wish EXCEPT !.ageMin = @ - 1]
                 [] control = "incMin" -> [wish EXCEPT !.ageMin = @ + 1]
                 [] control = "decMax" -> [wish EXCEPT !.ageMax = @ - 1]
                 [] OTHER -> [wish EXCEPT !.ageMax = @ + 1]
    /\ UNCHANGED <<filled, select, sports, levels, reason>>
    /\ Edited

Selected(chosen, of) == [s \in chosen |-> of[s]]

\* toggleSport: what was filled in for a sport is kept.
ToggleSport(s) ==
    /\ "sport" \in FormOffers
    /\ LET on == IF s \in DOMAIN sports THEN DOMAIN sports \ {s} ELSE DOMAIN sports \cup {s}
       IN sports' = Selected(on, levels)
    /\ UNCHANGED <<filled, select, wish, levels, reason>>
    /\ Edited

\* updateSportState and toggleTime.
UpdateSportState(s, level) ==
    /\ "fields" \in FormOffers /\ s \in DOMAIN sports
    /\ levels' = [levels EXCEPT ![s] = level]
    /\ sports' = Selected(DOMAIN sports, levels')
    /\ UNCHANGED <<filled, select, wish, reason>>
    /\ Edited

ChooseReason ==
    /\ "reason" \in FormOffers
    /\ reason' = TRUE
    /\ UNCHANGED <<filled, select, wish, sports, levels>>
    /\ Edited

-----------------------------------------------------------------------------
(* Submitting.                                                             *)

Call(what) == [what |-> what, attempt |-> attempt', sport |-> None, level |-> None,
               photos |-> photos, done |-> FALSE]

\* What handleContinue, handleSave, handleFinish and handleSubmit ask of the draft.
DraftValid ==
    CASE form = "photos" -> photos \in MIN_PHOTOS .. MAX_PHOTOS /\ filled /\ named
      [] form = "preferences" ->
            /\ AGE_MIN_LIMIT \leq wish.ageMin /\ wish.ageMin \leq wish.ageMax
            /\ wish.ageMax \leq AGE_MAX_LIMIT
      [] form = "sports" -> DOMAIN sports # {}
      [] form = "edit" ->
            /\ filled /\ select.value # None
            /\ replaceMode => photos \in MIN_PHOTOS .. MAX_PHOTOS
      [] OTHER -> reason

\* Fault: a further attempt leaves out the sports that have been saved.
FirstCallsRest ==
    CASE form = "photos" -> {Call("upload")}
      [] form = "preferences" -> {Call("preferences")}
      [] form = "sports" ->
            {[Call("sport") EXCEPT !.sport = s, !.level = sports[s]] :
                s \in {q \in DOMAIN sports : stored.sports[q] = None}}
      [] form = "edit" -> {Call(IF replaceMode THEN "upload" ELSE "profile")}
      [] OTHER -> {Call("report")}

\* The calls that are made at once; the others follow their answers.
FirstCalls ==
    CASE form = "photos" -> {Call("upload")}
      [] form = "preferences" -> {Call("preferences")}
      [] form = "sports" ->
            {[Call("sport") EXCEPT !.sport = s, !.level = sports[s]] : s \in DOMAIN sports}
      [] form = "edit" -> {Call(IF replaceMode THEN "upload" ELSE "profile")}
      [] OTHER -> {Call("report")}

Submit ==
    /\ "submit" \in FormOffers /\ attempt < MaxAttempts
    /\ IF DraftValid
       THEN /\ attempt' = attempt + 1
            /\ isSubmitting' = TRUE
            /\ calls' = calls \cup FirstCalls
            /\ formError' = FALSE
            /\ sent' = sports
       ELSE /\ formError' = (form # "report")
            /\ UNCHANGED <<attempt, isSubmitting, calls, sent>>
    /\ UNCHANGED <<form, textVars, photoVars, submitted, storeVars, stored, savedBy, outrun,
                   unheard>>

\* The server carries a call out.
CallServed(c) ==
    /\ ~c.done
    /\ calls' = (calls \ {c}) \cup {[c EXCEPT !.done = TRUE]}
    /\ stored' = CASE c.what = "upload" -> [stored EXCEPT !.photos = c.attempt]
                   [] c.what = "sport" -> [stored EXCEPT !.sports[c.sport] = c.level]
                   [] c.what = "report" -> [stored EXCEPT !.reports = @ + 1]
                   [] OTHER -> stored
    /\ IF c.what = "sport"
       THEN /\ savedBy' = [savedBy EXCEPT ![c.sport] = IF @ < c.attempt THEN c.attempt ELSE @]
            /\ outrun' = IF c.attempt < savedBy[c.sport] THEN outrun \cup {c.sport}
                         ELSE outrun \ {c.sport}
       ELSE UNCHANGED <<savedBy, outrun>>
    /\ UNCHANGED <<form, textVars, photoVars, attempt, isSubmitting, sent, submitted, storeVars,
                   unheard, formError>>

\* The call that follows: handleContinue and handleSave are sequential.
NextCall(c) ==
    CASE c.what = "upload" -> {[c EXCEPT !.what = "profile", !.done = FALSE]}
      [] c.what = "profile" /\ form = "edit" -> {[c EXCEPT !.what = "show", !.done = FALSE]}
      [] OTHER -> {}

\* Whether the attempt is still the one that is waited for.
Waited(c) == isSubmitting /\ c.attempt = attempt

\* Fault: the first answer of several ends the attempt.
CarriedThroughByFirst(c) == Waited(c) /\ NextCall(c) = {}

\* Promise.all: the attempt has succeeded with its last answer.
CarriedThrough(c) ==
    /\ Waited(c) /\ NextCall(c) = {}
    /\ \A d \in calls \ {c} : d.attempt # c.attempt

\* Fault: the store learns of the photos when the profile is fetched only.
UrisAfterFetch(c) == IF c.what = "show" THEN stored.photos ELSE photoUris

\* uploadProfilePhotos and fetchProfile bring the photos of the server.
UrisAfter(c) == CASE c.what = "upload" -> c.attempt
                  [] c.what = "show" -> stored.photos
                  [] OTHER -> photoUris

\* The last answer leads to the next screen, or to the thanks of Report.  A later
\* answer of an attempt that has failed changes nothing on the screen.
CallAnsweredForm(c) ==
    /\ c.done
    /\ calls' = (calls \ {c}) \cup NextCall(c)
    /\ photoUris' = UrisAfter(c)
    /\ IF CarriedThrough(c)
       THEN /\ isSubmitting' = FALSE
            /\ submitted' = c.attempt
            /\ form' = IF form = "report" THEN form ELSE "left"
       ELSE UNCHANGED <<isSubmitting, submitted, form>>
    /\ UNCHANGED <<textVars, photoVars, attempt, named, stored, historyVars, formError>>

\* Fault: the spinner stays.
CallFailedSpinning(c) ==
    /\ calls' = calls \ {c}
    /\ unheard' = IF c.done /\ c.what \in {"upload", "report"} THEN unheard \cup {c.attempt}
                  ELSE unheard
    /\ formError' = TRUE
    /\ UNCHANGED <<form, textVars, photoVars, attempt, isSubmitting, sent, submitted, storeVars,
                   stored, savedBy, outrun>>

\* A call is refused, or its answer is lost.  The other calls of the attempt go on.
CallFailedForm(c) ==
    /\ calls' = calls \ {c}
    /\ unheard' = IF c.done /\ c.what \in {"upload", "report"} THEN unheard \cup {c.attempt}
                  ELSE unheard
    /\ IF Waited(c) THEN isSubmitting' = FALSE /\ formError' = TRUE
       ELSE UNCHANGED <<isSubmitting, formError>>
    /\ UNCHANGED <<form, textVars, photoVars, attempt, sent, submitted, storeVars, stored, savedBy,
                   outrun>>

FormCallEnds ==
    \E c \in calls : CallServed(c) \/ CallAnsweredForm(c) \/ CallFailedForm(c)

\* Cancel of Edit Profile, back and "Done" of Report.
LeaveForm ==
    /\ "back" \in FormOffers
    /\ form' = "left"
    /\ UNCHANGED <<textVars, photoVars, callVars, formError>>

-----------------------------------------------------------------------------
\* The defaults of the forms.  Edit Profile starts with what the profile has.
DefaultWish == [openTo |-> {"any"}, ageMin |-> AGE_MIN_LIMIT, ageMax |-> DEFAULT_AGE_MAX,
                handle |-> None]
NoSports == [s \in {} |-> DEFAULT_LEVEL]

FormInit ==
    /\ form = None
    /\ photos = 0 /\ picks = 0 /\ replaceMode = FALSE /\ filled = FALSE
    /\ select = [open |-> FALSE, matching |-> Suburb, value |-> None]
    /\ wish = DefaultWish
    /\ sports = NoSports /\ levels = [s \in Sport |-> DEFAULT_LEVEL]
    /\ reason = FALSE
    /\ attempt = 0 /\ isSubmitting = FALSE /\ calls = {} /\ formError = FALSE
    /\ sent = NoSports /\ submitted = 0
    /\ named = TRUE /\ photoUris = 0
    /\ stored = [photos |-> 0, sports |-> [s \in Sport |-> None], reports |-> 0]
    /\ savedBy = [s \in Sport |-> 0] /\ outrun = {} /\ unheard = {}

\* A form is opened, with the text and the suburb the profile has; step 2 starts with
\* the photos the store has, and may find no profile from step 1.
OpenForm(f) ==
    /\ form = None
    /\ form' = f
    /\ filled' \in IF f \in {"photos", "edit"} THEN BOOLEAN ELSE {FALSE}
    /\ select' \in {[select EXCEPT !.value = v] :
                        v \in IF f = "edit" THEN Suburb \cup {None} ELSE {None}}
    /\ photos' \in IF f = "photos" THEN 0 .. MAX_PHOTOS ELSE {0}
    /\ named' \in IF f = "photos" THEN BOOLEAN ELSE {TRUE}
    /\ UNCHANGED <<picks, replaceMode, wish, sports, levels, reason, attempt, isSubmitting, calls,
                   submitted, photoUris, stored, historyVars, formError>>

FormNext ==
    \/ \E f \in Form : OpenForm(f)
    \/ PickPhoto \/ PhotoPicked \/ RemovePhoto
    \/ \E on \in BOOLEAN : SetReplaceMode(on)
    \/ TypeText \/ UseSelect
    \/ \E g \in GenderPreference : ToggleOpenTo(g)
    \/ \E x \in AGE_MIN_LIMIT - 1 .. AGE_MAX_LIMIT + 1 : TouchBar(x)
    \/ \E control \in {"decMin", "incMin", "decMax", "incMax"} : StepAge(control)
    \/ \E s \in Sport : ToggleSport(s) \/ \E level \in Level : UpdateSportState(s, level)
    \/ ChooseReason
    \/ Submit \/ FormCallEnds \/ LeaveForm

\* Every call is answered, refused or given up after its timeout.
FormFairness == WF_formVars(FormCallEnds)
FormSpec == FormInit /\ [][FormNext]_formVars /\ FormFairness

-----------------------------------------------------------------------------
(* Properties.                                                             *)

\* Every variable has its type; in particular no set of photos is too large, whatever
\* pickers are open at the same time.
FormTypeOK ==
    /\ form \in Form \cup {None, "left"}
    /\ photos \in 0 .. MAX_PHOTOS /\ picks \in 0 .. MaxPicks
    /\ replaceMode \in BOOLEAN /\ filled \in BOOLEAN /\ reason \in BOOLEAN
    /\ select \in SelectState /\ wish \in Wish
    /\ DOMAIN sports \cup DOMAIN sent \subseteq Sport /\ levels \in [Sport -> Level]
    /\ attempt \in 0 .. MaxAttempts /\ submitted \in 0 .. MaxAttempts
    /\ isSubmitting \in BOOLEAN /\ formError \in BOOLEAN /\ named \in BOOLEAN
    /\ calls \in SUBSET FormCall
    /\ photoUris \in PhotoSet /\ stored \in Stored
    /\ savedBy \in [Sport -> 0 .. MaxAttempts] /\ outrun \in SUBSET Sport
    /\ unheard \in SUBSET (1 .. MaxAttempts)

\* However the bar is dragged, the steppers are pressed and the options are toggled,
\* the preferences are ones that can be saved: the ages are in order and within the
\* limits, and "any" stands alone.
PreferencesValid ==
    /\ AGE_MIN_LIMIT \leq wish.ageMin /\ wish.ageMin \leq wish.ageMax
    /\ wish.ageMax \leq AGE_MAX_LIMIT
    /\ wish.openTo # {}
    /\ "any" \in wish.openTo => wish.openTo = {"any"}

\* The photos the app shows are those of the server, also after an attempt that
\* replaced them and then failed, and after further attempts.  The exception: the
\* server's photos are those of an upload whose answer was lost.
PhotosShownAreStored ==
    (\A c \in calls : c.what # "upload") /\ photoUris # stored.photos =>
        stored.photos \in unheard

\* When the onboarding ends, after however many attempts some of whose calls failed,
\* the last attempt has saved every sport, and each is as it was filled in at the last
\* press.  The exception: a call of an earlier attempt, still under way, came after it.
SportsSaved ==
    submitted # 0 =>
        \A s \in DOMAIN sent :
            /\ savedBy[s] = submitted
            /\ s \notin outrun => stored.sports[s] = sent[s]

\* A user is reported once, however often the report was refused and sent again, and
\* once more for each report whose answer was lost.  Thanks are said of a report that
\* the server has.
ReportedOnce ==
    /\ stored.reports \leq Cardinality(unheard) + 1
    /\ form = "report" /\ submitted # 0 => stored.reports = Cardinality(unheard) + 1

\* What a form shows as saved is what the server has, and has once.
FormsAreSaved ==
    /\ PhotosShownAreStored
    /\ SportsSaved
    /\ ReportedOnce

\* Every attempt ends, and the form can be used again or is left.
FormSettles == isSubmitting ~> ~isSubmitting
=============================================================================
