-------------------------------- MODULE Details ------------------------------
(***************************************************************************)
(* The screens of one thing that several people act on: BookingDetail,     *)
(* BattleDetail, AttendanceCheck, ChallengeDetail, TournamentDetail and    *)
(* PublicProfile.  A behaviour opens one of them, in one role.             *)
(*                                                                         *)
(* The screen offers buttons by the copy that it has, the server decides   *)
(* by the original, and the other side and the clock change the original   *)
(* meanwhile.  What the server accepts is modelled in full by the modules  *)
(* of the API; here it is the table of who may do what in which status.    *)
(***************************************************************************)
EXTENDS Naturals, Screens

CONSTANT Page \* the screens that may be opened

AllPages == {"booking", "event", "attendance", "challenge", "tournament", "profile"}

ASSUME PageAssumption == Page \subseteq AllPages /\ None \notin AllPages

VARIABLES
    page,      \* the screen that is open
    role,      \* of its user: the one that made the thing, or the other one
    object,    \* server: the thing
    started,   \* the game has begun
    detail,    \* the copy of the screen
    data,      \* AttendanceCheck: its copy of the participant's row
    errors,    \* the hooks that show an error
    loads,     \* the fetch of each hook
    calls,     \* the request behind each busy flag
    said,      \* selfReportSaved, submittedLocally
    got,       \* history variable: the reports and results of the user that were accepted
    stale      \* history variable: what is shown although another has changed it since,
               \* or the answer that would have brought it was lost

historyVars == <<got, stale>>
detailVars == <<page, role, object, started, detail, data, errors, loads, calls, said,
                historyVars>>

\* The statuses of the shared types.
SessionStatus == {"proposed", "confirmed", "declined", "cancelled", "completed", "no_show"}
EventStatus == {"open", "full", "cancelled", "completed"}
ChallengeStatus == {"pending", "accepted", "declined", "cancelled", "verified", "disputed"}
TournamentStatus == {"open", "full", "closed", "completed", "cancelled"}
SelfAttendanceStatus == {"attended", "excused"}
AttendanceStatus == SelfAttendanceStatus \cup {"pending", "no_show"}
WinnerChoice == {"me", "opponent"}

StatusOf ==
    [p \in AllPages |->
        CASE p = "booking" -> SessionStatus
          [] p \in {"event", "attendance"} -> EventStatus
          [] p = "challenge" -> ChallengeStatus
          [] p = "tournament" -> TournamentStatus
          [] OTHER -> {"visible", "blocked"}]

Mark == AttendanceStatus \cup WinnerChoice

\* joined: the user is in the game or the tournament; on AttendanceCheck, the
\* participant is.  mine: the user's, or that participant's, attendance, or the
\* winner that the user named; theirs: the winner that the other one named.
Thing == [status : UNION {StatusOf[p] : p \in AllPages}, joined : BOOLEAN,
          mine : Mark, theirs : Mark]
Copy == [status : UNION {StatusOf[p] : p \in AllPages}, joined : BOOLEAN]
RowCopy == [joined : BOOLEAN, mine : Mark]

Role == {"maker", "other"}
OtherRole == [r \in Role |-> IF r = "maker" THEN "other" ELSE "maker"]
Hook == {"detail", "data"}
\* What a screen shows of the thing: its copies, and what it says was saved.
Displayed == Hook \cup {"said"}
Flag == {"isActing", "lifecycleBusy", "selfReportSaving"}

\* The requests that the handlers of each screen send, with their argument.
Do(name) == [name |-> name, arg |-> "pending"]
BookingCalls == {Do(n) : n \in {"confirm", "decline", "cancel", "complete", "noShow"}}
GameCalls == {Do("join"), Do("leave")}
LifecycleCalls == {Do("cancel"), Do("complete")}
ReportCalls == [name : {"report"}, arg : SelfAttendanceStatus]
MarkCalls == [name : {"pick"}, arg : AttendanceStatus \ {"pending"}]
ChallengeCalls ==
    {Do("accept"), Do("decline"), Do("cancel")} \cup [name : {"result"}, arg : WinnerChoice]
TournamentCalls == {Do("join"), Do("leave")}
ProfileCalls == {Do("block")}

CallsOf ==
    [p \in AllPages |->
        CASE p = "booking" -> BookingCalls
          [] p = "event" -> GameCalls \cup LifecycleCalls \cup ReportCalls
          [] p = "attendance" -> MarkCalls
          [] p = "challenge" -> ChallengeCalls
          [] p = "tournament" -> TournamentCalls
          [] OTHER -> ProfileCalls]
Op == UNION {CallsOf[p] : p \in AllPages}

Seen(o) == [status |-> o.status, joined |-> o.joined]
SeenRow(o) == [joined |-> o.joined, mine |-> o.mine]
Blank == [status |-> "open", joined |-> FALSE, mine |-> "pending", theirs |-> "pending"]

\* A call goes from sent to accepted or refused; a change of the game's life
\* cycle is over when the page has been loaded again.  late is history: what another
\* has changed since the server read it.
CallRow == [op : Op, phase : {"sent", "accepted", "refused", "refresh"}, copy : Copy,
            row : RowCopy, late : SUBSET Displayed]
Load == [read : BOOLEAN, copy : Copy, row : RowCopy, late : SUBSET Displayed]

\* None is no copy and no request.
ASSUME NoDetailAssumption ==
    None \notin Copy \cup RowCopy \cup Load \cup CallRow \cup {"left"}

-----------------------------------------------------------------------------
(* What the server accepts.                                                *)

\* _TRANSITIONS of services/bookings.py.
BookingAccepts(op, who, o) ==
    \/ op.name \in {"confirm", "decline"} /\ o.status = "proposed" /\ who = "other"
    \/ op.name = "cancel" /\ o.status = "proposed" /\ who = "maker"
    \/ op.name \in {"cancel", "complete", "noShow"} /\ o.status = "confirmed"

attendanceIsOpen(o) ==
    o.status = "completed" \/ (o.status \in {"open", "full"} /\ started)

\* services/events.py; cancelling and completing twice do nothing.
EventAccepts(op, who, o) ==
    \/ op.name = "join" /\ o.status = "open" /\ ~o.joined
    \/ op.name = "leave" /\ o.status \in {"open", "full"} /\ o.joined /\ who = "other"
    \/ op.name = "cancel" /\ who = "maker" /\ o.status # "completed"
    \/ /\ op.name = "complete" /\ who = "maker" /\ o.status # "cancelled"
       /\ o.status = "completed" \/ started
    \/ op.name = "report" /\ op.arg \in SelfAttendanceStatus
           /\ o.joined /\ attendanceIsOpen(o)
    \/ op.name = "pick" /\ who = "maker" /\ o.joined /\ attendanceIsOpen(o)

\* services/challenges.py.
ChallengeAccepts(op, who, o) ==
    \/ op.name \in {"accept", "decline"} /\ o.status = "pending" /\ who = "other"
    \/ op.name = "cancel" /\ o.status = "pending" /\ who = "maker"
    \/ op.name = "result" /\ o.status = "accepted"
           /\ (IF who = role THEN o.mine ELSE o.theirs) = "pending"

\* services/tournaments.py.
TournamentAccepts(op, who, o) ==
    \/ op.name = "join" /\ o.status = "open" /\ ~o.joined
    \/ op.name = "leave" /\ o.joined /\ o.status \in {"open", "full", "closed"}

Accepts(op, who, o) ==
    CASE page = "booking" -> BookingAccepts(op, who, o)
      [] page \in {"event", "attendance"} -> EventAccepts(op, who, o)
      [] page = "challenge" -> ChallengeAccepts(op, who, o)
      [] page = "tournament" -> TournamentAccepts(op, who, o)
      [] OTHER -> op.name = "block"

After == [confirm |-> "confirmed", decline |-> "declined", cancel |-> "cancelled",
          complete |-> "completed", noShow |-> "no_show", accept |-> "accepted",
          block |-> "blocked"]

\* What an accepted operation may make of the thing.
Made(op, who, o) ==
    CASE op.name = "join" ->
           {[o EXCEPT !.joined = TRUE, !.status = s] : s \in {"open", "full"}}
      [] op.name = "leave" ->
           {[o EXCEPT !.joined = FALSE, !.status = IF @ = "full" THEN "open" ELSE @]}
      [] op.name \in {"report", "pick"} -> {[o EXCEPT !.mine = op.arg]}
      [] op.name = "result" ->
           LET both == IF who = role THEN [o EXCEPT !.mine = op.arg]
                       ELSE [o EXCEPT !.theirs = op.arg]
           IN {IF both.mine = "pending" \/ both.theirs = "pending" THEN both
               ELSE [both EXCEPT !.status =
                        IF both.mine = both.theirs THEN "verified" ELSE "disputed"]}
      [] OTHER -> {[o EXCEPT !.status = After[op.name]]}

-----------------------------------------------------------------------------
(* What the screens offer.                                                 *)

isLoading(hook) == loads[hook] # None
Busy(flag) == calls[flag] # None

\* BookingDetailScreen: all buttons go while one is at work.
BookingOffers ==
    IF isLoading("detail") \/ "detail" \in errors \/ detail = None \/ Busy("isActing") THEN {}
    ELSE CASE detail.status = "proposed" ->
                  IF role = "maker" THEN {Do("cancel")}
                  ELSE {Do("confirm"), Do("decline"), Do("cancel")}
           [] detail.status = "confirmed" -> {Do("complete"), Do("noShow"), Do("cancel")}
           [] OTHER -> {}

\* BattleDetailScreen: the state of its one big button.
ctaState ==
    CASE detail.status \in {"cancelled", "completed"} -> "disabled"
      [] detail.status \notin {"cancelled", "completed"} /\ detail.joined -> "joined"
      [] detail.status = "full" /\ ~detail.joined -> "full"
      [] OTHER -> "join"

CtaOffers ==
    IF Busy("isActing") \/ ctaState \in {"full", "disabled"} THEN {}
    ELSE {Do(IF ctaState = "joined" THEN "leave" ELSE "join")}

HostOffers ==
    IF role # "maker" \/ detail.status \in {"cancelled", "completed"}
       \/ Busy("lifecycleBusy") THEN {}
    ELSE {Do("cancel")} \cup (IF started THEN {Do("complete")} ELSE {})

attendanceOpen ==
    detail.status # "cancelled" /\ (detail.status = "completed" \/ started)

ReportOffers ==
    IF role = "other" /\ detail.joined /\ attendanceOpen /\ ~Busy("selfReportSaving")
    THEN ReportCalls ELSE {}

BattleOffers == IF detail = None THEN {} ELSE CtaOffers \cup HostOffers \cup ReportOffers

\* AttendanceCheckScreen: until the game is known it counts as begun, and the row
\* names the host.  "Not sure" does nothing.
markable == role = "maker" /\ (detail = None \/ attendanceOpen)
ParticipantRowOffers == IF Busy("isActing") THEN {} ELSE MarkCalls
AttendanceOffers ==
    IF data = None \/ "data" \in errors \/ ~markable \/ ~data.joined THEN {}
    ELSE ParticipantRowOffers

\* ChallengeDetailScreen and its ResultForm: one of two pills, and a button.
ResultFormOffers == [name : {"result"}, arg : WinnerChoice]
ChallengeOffers ==
    IF detail = None \/ Busy("isActing") THEN {}
    ELSE CASE detail.status = "pending" ->
                  IF role = "other" THEN {Do("accept"), Do("decline")} ELSE {Do("cancel")}
           [] detail.status = "accepted" /\ said = "pending" -> ResultFormOffers
           [] OTHER -> {}

\* TournamentDetailScreen.
isJoinable == detail.status = "open" /\ ~detail.joined

\* Fault: the status is not looked at.
canLeaveAlways == detail.joined

canLeave == detail.joined /\ detail.status \notin {"completed", "cancelled"}
TournamentOffers ==
    IF detail = None \/ "detail" \in errors \/ Busy("isActing") THEN {}
    ELSE (IF isJoinable THEN {Do("join")} ELSE {}) \cup
         (IF canLeave THEN {Do("leave")} ELSE {})

\* PublicProfileScreen, for another user.
ProfileOffers == IF Busy("isActing") THEN {} ELSE {Do("block")}

DetailOffers ==
    CASE page = "booking" -> BookingOffers
      [] page = "event" -> BattleOffers
      [] page = "attendance" -> AttendanceOffers
      [] page = "challenge" -> ChallengeOffers
      [] page = "tournament" -> TournamentOffers
      [] page = "profile" -> ProfileOffers
      [] OTHER -> {}

\* "Try again"; a booking has none, and AttendanceCheck loads its rows only.
RetryHook == IF page = "attendance" THEN "data" ELSE "detail"
RetryOffered ==
    /\ page \notin {"booking", "profile", None}
    /\ RetryHook \in errors /\ ~isLoading(RetryHook)
    /\ page \in {"event", "challenge"} => detail = None

-----------------------------------------------------------------------------
(* Loading.                                                                *)

NewLoad == [read |-> FALSE, copy |-> Seen(Blank), row |-> SeenRow(Blank), late |-> {}]

\* What the hook asks for: the rows, or the thing.
ReadOf(hook) ==
    IF hook = "data" THEN [NewLoad EXCEPT !.read = TRUE, !.row = SeenRow(object)]
    ELSE [NewLoad EXCEPT !.read = TRUE, !.copy = Seen(object)]

OpenDetail(p, who, o, begun) ==
    /\ page = None
    /\ begun => p \in {"event", "attendance"}
    /\ page' = p /\ role' = who /\ object' = o /\ started' = begun
    /\ detail' = IF p = "profile" THEN Seen(o) ELSE None
    /\ loads' = [h \in Hook |-> IF p = "profile" \/ (h = "data" /\ p # "attendance") THEN None
                 ELSE NewLoad]
    /\ UNCHANGED <<data, errors, calls, said, historyVars>>

Retry ==
    /\ RetryOffered
    /\ loads' = [loads EXCEPT ![RetryHook] = NewLoad]
    /\ errors' = errors \ {RetryHook}
    /\ UNCHANGED <<page, role, object, started, detail, data, calls, said, historyVars>>

LoadRead(hook) ==
    /\ loads[hook] # None /\ ~loads[hook].read
    /\ loads' = [loads EXCEPT ![hook] = ReadOf(hook)]
    /\ UNCHANGED <<page, role, object, started, detail, data, errors, calls, said,
                   historyVars>>

\* A load that a change of the life cycle waits for ends its flag.
Loaded(hook) ==
    /\ loads' = [loads EXCEPT ![hook] = None]
    /\ calls' = [f \in Flag |-> IF calls[f] # None /\ calls[f].phase = "refresh" THEN None
                                ELSE calls[f]]
    /\ UNCHANGED <<page, role, object, started, said, got>>

\* What an answer has brought is stale when another has changed it meanwhile.
Brought(answered, late) == stale' = (stale \ answered) \cup (late \cap answered)

LoadAnswered(hook) ==
    /\ loads[hook] # None /\ loads[hook].read
    /\ IF hook = "detail" THEN detail' = loads[hook].copy /\ UNCHANGED data
       ELSE data' = loads[hook].row /\ UNCHANGED detail
    /\ Brought({hook}, loads[hook].late)
    /\ UNCHANGED errors
    /\ Loaded(hook)

\* The copy that there was stays.
LoadFailed(hook) ==
    /\ loads[hook] # None
    /\ errors' = errors \cup {hook}
    /\ stale' = stale \cup {hook}
    /\ UNCHANGED <<detail, data>>
    /\ Loaded(hook)

-----------------------------------------------------------------------------
(* Acting.                                                                 *)

FlagOf(op) ==
    CASE page = "event" /\ op \in LifecycleCalls -> "lifecycleBusy"
      [] op \in ReportCalls -> "selfReportSaving"
      [] OTHER -> "isActing"

\* What the answer of a call brings.
Answers(flag) ==
    CASE page = "attendance" -> {"data"}
      [] page # "attendance" /\ flag = "isActing" ->
            {"detail"} \cup IF calls[flag].op.name = "result" THEN {"said"} ELSE {}
      [] page # "attendance" /\ flag = "selfReportSaving" -> {"said"}
      [] OTHER -> {}

NewCall(op) == [op |-> op, phase |-> "sent", copy |-> Seen(Blank), row |-> SeenRow(Blank),
                late |-> {}]

\* Fault: the page says that it is saved before it is.
PressSaid(op) ==
    /\ op \in DetailOffers
    /\ calls' = [calls EXCEPT ![FlagOf(op)] = NewCall(op)]
    /\ said' = IF op.name \in {"report", "result"} THEN op.arg ELSE said
    /\ UNCHANGED <<page, role, object, started, detail, data, errors, loads, historyVars>>

\* A button, with the question that some of them ask first: the busy flag goes up.
Press(op) ==
    /\ op \in DetailOffers
    /\ calls' = [calls EXCEPT ![FlagOf(op)] = NewCall(op)]
    /\ UNCHANGED <<page, role, object, started, detail, data, errors, loads, said,
                   historyVars>>

CallServed(flag) ==
    LET c == calls[flag]
    IN /\ c # None /\ c.phase = "sent"
       /\ IF Accepts(c.op, role, object)
          THEN /\ \E o \in Made(c.op, role, object) :
                     /\ object' = o
                     /\ calls' = [calls EXCEPT ![flag] =
                           IF page = "attendance"
                           THEN [c EXCEPT !.phase = "accepted", !.row = SeenRow(o)]
                           ELSE [c EXCEPT !.phase = "accepted",
                                          !.copy = IF flag = "isActing" THEN Seen(o) ELSE @]]
               /\ got' = IF c.op.name \in {"report", "result"} THEN got \cup {c.op.arg} ELSE got
          ELSE /\ calls' = [calls EXCEPT ![flag].phase = "refused"]
               /\ UNCHANGED <<object, got>>
       /\ UNCHANGED <<page, role, started, detail, data, errors, loads, said, stale>>

\* Fault: the page is not loaded again.
CallAnsweredOnly(flag) ==
    LET c == calls[flag]
    IN /\ c # None /\ c.phase = "accepted"
       /\ IF c.op.name = "block" THEN page' = "left" ELSE UNCHANGED page
       /\ calls' = [calls EXCEPT ![flag] = None]
       /\ detail' = IF page = "attendance" \/ flag # "isActing" THEN detail ELSE c.copy
       /\ data' = IF page = "attendance" /\ data # None THEN c.row ELSE data
       /\ said' = IF c.op.name \in {"report", "result"} THEN c.op.arg ELSE said
       /\ Brought(Answers(flag), c.late)
       /\ UNCHANGED <<role, object, started, errors, loads, got>>

\* The answer is the new copy; a change of the life cycle loads the page again,
\* a report is only remembered, a mark replaces its row, and a block goes back.
CallAnswered(flag) ==
    LET c == calls[flag]
    IN /\ c # None /\ c.phase = "accepted"
       /\ IF c.op.name = "block" THEN page' = "left" ELSE UNCHANGED page
       /\ IF flag = "lifecycleBusy"
          THEN /\ ~isLoading("detail")
               /\ calls' = [calls EXCEPT ![flag].phase = "refresh"]
               /\ loads' = [loads EXCEPT !["detail"] = NewLoad]
               /\ errors' = errors \ {"detail"}
          ELSE /\ calls' = [calls EXCEPT ![flag] = None]
               /\ UNCHANGED <<loads, errors>>
       /\ detail' = IF page = "attendance" \/ flag # "isActing" THEN detail ELSE c.copy
       /\ data' = IF page = "attendance" /\ data # None THEN c.row ELSE data
       /\ said' = IF c.op.name \in {"report", "result"} THEN c.op.arg ELSE said
       /\ Brought(Answers(flag), c.late)
       /\ UNCHANGED <<role, object, started, got>>

\* The answer that is lost would have brought something, at least after a reload.
Missed(flag) ==
    stale' = IF calls[flag].phase # "accepted" THEN stale
             ELSE stale \cup IF flag = "lifecycleBusy" THEN {"detail"} ELSE Answers(flag)

\* Fault: a refusal leaves the flag up.
CallFailedBusy(flag) ==
    /\ calls[flag] # None /\ calls[flag].phase = "sent"
    /\ calls' = [calls EXCEPT ![flag] = None]
    /\ UNCHANGED <<page, role, object, started, detail, data, errors, loads, said,
                   historyVars>>

\* The call is refused, or it is lost with or without having been served.
CallFailed(flag) ==
    /\ calls[flag] # None /\ calls[flag].phase # "refresh"
    /\ calls' = [calls EXCEPT ![flag] = None]
    /\ Missed(flag)
    /\ UNCHANGED <<page, role, object, started, detail, data, errors, loads, said, got>>

-----------------------------------------------------------------------------
(* The others.                                                             *)

View(x, o) == CASE x = "detail" -> Seen(o) [] x = "data" -> SeenRow(o) [] OTHER -> o.mine
\* What the page shows, and the step changes.
Overwritten ==
    {x \in Displayed :
        /\ View(x, object') # View(x, object)
        /\ x = "data" => page = "attendance"
        /\ x = "said" => page = "event"}

\* What is shown, and what the server has read and is on its way, is out of date.
OthersSaw ==
    /\ stale' = stale \cup Overwritten
    /\ loads' = [h \in Hook |-> IF loads[h] # None /\ loads[h].read
                                THEN [loads[h] EXCEPT !.late = @ \cup (Overwritten \cap {h})]
                                ELSE loads[h]]
    /\ calls' = [f \in Flag |-> IF calls[f] # None /\ calls[f].phase = "accepted"
                                THEN [calls[f] EXCEPT !.late = @ \cup (Overwritten \cap Answers(f))]
                                ELSE calls[f]]
Aside == UNCHANGED <<page, role, detail, data, errors, said, got>>

\* The other side acts on the thing.
OtherActs(op) ==
    /\ op \notin GameCalls \cup ReportCalls \cup MarkCalls
    /\ page \in {"booking", "event", "challenge"} /\ Accepts(op, OtherRole[role], object)
    /\ object' \in Made(op, OtherRole[role], object)
    /\ object' # object
    /\ UNCHANGED started /\ OthersSaw /\ Aside

\* Others join and leave, the host marks, the participant leaves or reports, an
\* administrator closes a tournament.
OthersChange ==
    /\ object' \in
         (IF page \in {"event", "tournament", "attendance"} /\ object.status \in {"open", "full"}
          THEN {[object EXCEPT !.status = s] : s \in {"open", "full"}} ELSE {}) \cup
         (IF page = "event" /\ role = "other" /\ object.joined /\ attendanceIsOpen(object)
          THEN {[object EXCEPT !.mine = m] : m \in AttendanceStatus \ {"pending"}} ELSE {}) \cup
         (IF page = "attendance" /\ object.joined
          THEN (IF object.status \in {"open", "full"}
                THEN {[object EXCEPT !.joined = FALSE, !.status = "open"]} ELSE {}) \cup
               (IF attendanceIsOpen(object)
                THEN {[object EXCEPT !.mine = m] : m \in SelfAttendanceStatus} ELSE {})
          ELSE {}) \cup
         (IF page = "tournament" /\ object.status \notin {"completed", "cancelled"}
          THEN {[object EXCEPT !.status = s] : s \in {"closed", "completed", "cancelled"}}
          ELSE {})
    /\ object' # object
    /\ UNCHANGED started /\ OthersSaw /\ Aside

GameStarts ==
    /\ page \in {"event", "attendance"} /\ ~started
    /\ started' = TRUE
    /\ UNCHANGED <<object, loads, calls, stale>> /\ Aside

-----------------------------------------------------------------------------
\* A thing as it may be when its screen is opened.
Openable(p, who) ==
    {o \in Thing :
        /\ o.status \in StatusOf[p]
        /\ p \in {"booking", "challenge", "profile"} => ~o.joined
        /\ p \in {"event", "attendance"} /\ who = "maker" => o.joined
        /\ p = "event" /\ who = "maker" => o.mine = "pending"
        /\ p = "attendance" => who = "maker"
        /\ p \notin {"event", "attendance"} => o.mine \in {"pending"} \cup WinnerChoice
        /\ p \in {"event", "attendance"} => o.mine \in AttendanceStatus
        /\ p # "challenge" => o.theirs = "pending"
        /\ p = "challenge" =>
              /\ o.mine \in {"pending"} \cup WinnerChoice
              /\ o.theirs \in {"pending"} \cup WinnerChoice
              /\ o.status = "accepted" => o.mine = "pending" \/ o.theirs = "pending"
              /\ o.status = "verified" => o.mine # "pending" /\ o.mine = o.theirs
              /\ o.status = "disputed" =>
                     "pending" \notin {o.mine, o.theirs} /\ o.mine # o.theirs
              /\ o.status \in {"pending", "declined", "cancelled"} =>
                     {o.mine, o.theirs} = {"pending"}
        /\ p \notin {"event", "attendance", "challenge"} => o.mine = "pending"}

DetailInit ==
    /\ page = None /\ role = "maker" /\ object = Blank /\ started = FALSE
    /\ detail = None /\ data = None
    /\ errors = {}
    /\ loads = [h \in Hook |-> None]
    /\ calls = [f \in Flag |-> None]
    /\ said = "pending"
    /\ got = {} /\ stale = {}

LoadEnds(hook) == LoadRead(hook) \/ LoadAnswered(hook) \/ LoadFailed(hook)
CallEnds(flag) == CallServed(flag) \/ CallAnswered(flag) \/ CallFailed(flag)

DetailNext ==
    \/ /\ page = None
       /\ \E p \in Page, who \in Role, begun \in BOOLEAN :
             \E o \in Openable(p, who) : OpenDetail(p, who, o, begun)
    \/ Retry
    \/ \E hook \in Hook : LoadEnds(hook)
    \/ \E flag \in Flag : CallEnds(flag)
    \/ page \in AllPages /\ \E op \in CallsOf[page] : Press(op) \/ OtherActs(op)
    \/ OthersChange \/ GameStarts

DetailSpec == DetailInit /\ [][DetailNext]_detailVars

\* Every request is answered, refused or given up after its timeout.
DetailFairness ==
    /\ \A hook \in Hook : WF_detailVars(LoadEnds(hook))
    /\ \A flag \in Flag : WF_detailVars(CallEnds(flag))
FairDetailSpec == DetailSpec /\ DetailFairness

-----------------------------------------------------------------------------
(* Properties.                                                             *)

\* Every variable has its type, and the request in flight is one of the page's.
DetailTypeOK ==
    /\ page \in Page \cup {None, "left"} /\ role \in Role
    /\ object \in Thing /\ started \in BOOLEAN
    /\ detail \in Copy \cup {None} /\ data \in RowCopy \cup {None}
    /\ errors \in SUBSET Hook
    /\ loads \in [Hook -> Load \cup {None}]
    /\ calls \in [Flag -> CallRow \cup {None}]
    /\ page \in AllPages => \A f \in Flag : calls[f] # None => calls[f].op \in CallsOf[page]
    /\ said \in Mark
    /\ got \in SUBSET Mark /\ stale \in SUBSET Displayed

\* The copy is up to date.
Fresh == detail = Seen(object) /\ (page = "attendance" => data = SeenRow(object))

\* Where the screen cannot know: a result that was submitted on an earlier visit.
\* Where it does not look: the partner may not cancel a proposal, and a host may
\* not leave.
Unaware(op) ==
    \/ op.name = "result" /\ object.mine # "pending"
    \/ page = "booking" /\ op.name = "cancel" /\ object.status = "proposed"
    \/ page = "event" /\ op.name = "leave" /\ role = "maker"

\* With those exceptions a button that is offered for an up-to-date copy is one
\* that the server accepts, for every status, every role and every flag.
OfferedIsAccepted ==
    Fresh => \A op \in DetailOffers : Accepts(op, role, object) \/ Unaware(op)

\* When all is quiet the screen shows what has become of the thing, the user's own acts
\* included.  The exceptions: another has changed it since the copy was read; the answer
\* of an accepted act was lost; or the load failed, also the one that follows a change
\* of a game's life cycle, and the copy that there was has stayed.  The next answer
\* repairs each of them.
OwnActsShown ==
    (page \in AllPages /\ (\A h \in Hook : loads[h] = None) /\ \A f \in Flag : calls[f] = None) =>
        /\ "detail" \notin stale => detail = Seen(object)
        /\ page = "attendance" /\ "data" \notin stale => data = SeenRow(object)

\* "Attendance saved" and "Result submitted" are only said of what the server has
\* accepted from this user, whoever else writes and whatever is lost.  A result stays
\* what it is.  Of a game's report the text names the attendance that is stored, but
\* for three cases: the host has marked over it since it was carried out, a later
\* report was carried out and its answer was lost, or is still on its way.
SaidIsStored ==
    said # "pending" =>
        /\ said \in got
        /\ page = "challenge" => object.mine = said
        /\ object.mine = said \/ "said" \in stale
              \/ (calls["selfReportSaving"] # None /\ calls["selfReportSaving"].phase = "accepted")

\* A screen shows the user's own acts, and claims none that the server did not accept.
ScreenTellsTruth ==
    /\ OwnActsShown
    /\ SaidIsStored

\* Every busy flag goes down, and every load ends.
BusyEnds ==
    /\ \A f \in Flag : (calls[f] # None) ~> (calls[f] = None)
    /\ \A h \in Hook : isLoading(h) ~> ~isLoading(h)
=============================================================================
