----------------------------- MODULE DetailsProofs -----------------------------
(***************************************************************************)
(* Proofs about the two machines that MCDetails composes.                  *)
(***************************************************************************)
EXTENDS Details, Chat, FiniteSetTheorems, NaturalsInduction, WellFoundedInduction, TLAPS

-----------------------------------------------------------------------------
(* The screens of one thing.                                               *)

\* Before a page is opened, and after it was left, nothing is in flight.
Idle ==
    /\ page = None => detail = None /\ data = None
    /\ page \in {None, "profile", "left"} => errors = {} /\ \A h \in Hook : loads[h] = None
    /\ page \notin AllPages => \A f \in Flag : calls[f] = None

\* What the thing may be, by the page.
ThingOK ==
    /\ page \in AllPages => object.status \in StatusOf[page]
    /\ page = "event" /\ role = "maker" => object.joined

\* Which requests a flag stands for.
FlagsOK ==
    \A f \in Flag : calls[f] # None =>
        /\ calls[f].phase = "refresh" => f = "lifecycleBusy" /\ loads["detail"] # None
        /\ f = "isActing" => calls[f].op \notin ReportCalls
        /\ f = "isActing" /\ page = "event" => calls[f].op \in GameCalls
        /\ f = "isActing" /\ page = "event" /\ role = "maker" => calls[f].phase # "accepted"
        /\ f = "lifecycleBusy" => page = "event" /\ role = "maker" /\ calls[f].op \in LifecycleCalls
        /\ f = "selfReportSaving" => page = "event" /\ role = "other" /\ calls[f].op \in ReportCalls

Accepted(f) == calls[f] # None /\ calls[f].phase = "accepted"

\* A call that was accepted is in the thing, or another has written over it; what is
\* said was accepted.
SaidInv ==
    /\ said # "pending" => page \in {"event", "challenge"} /\ said \in got
    /\ \A f \in Flag : Accepted(f) /\ calls[f].op.name \in {"report", "result"} =>
          calls[f].op.arg \in got
    /\ page = "challenge" /\ said # "pending" => object.mine = said
    /\ page = "challenge" /\ Accepted("isActing") /\ calls["isActing"].op.name = "result" =>
          object.mine = calls["isActing"].op.arg
    /\ page = "event" =>
          /\ Accepted("selfReportSaving") /\ "said" \notin calls["selfReportSaving"].late =>
                object.mine = calls["selfReportSaving"].op.arg
          /\ said # "pending" =>
                object.mine = said \/ "said" \in stale \/ Accepted("selfReportSaving")

\* A load of the thing is the first one, one after a failure, or the one after a change
\* of the game's life cycle; nothing is pressed before it.
LoadsInv ==
    /\ loads["detail"] # None =>
          \/ detail = None
          \/ /\ page = "event" /\ calls["lifecycleBusy"] # None
             /\ calls["lifecycleBusy"].phase = "refresh"
    /\ \A h \in Hook : loads[h] # None => h \notin errors
    /\ page = "profile" => detail # None
    /\ detail = None /\ page # "attendance" => \A f \in Flag : calls[f] = None
    /\ page # "event" /\ "detail" \in errors => detail = None
    /\ loads["data"] # None \/ "data" \in errors => page = "attendance" /\ data = None
    /\ page = "attendance" /\ data = None => calls["isActing"] = None

\* A load that was read has the thing, or another has changed it since.
ReadInv ==
    /\ loads["detail"] # None /\ loads["detail"].read /\ "detail" \notin loads["detail"].late =>
          loads["detail"].copy = Seen(object)
    /\ loads["data"] # None /\ loads["data"].read /\ "data" \notin loads["data"].late =>
          loads["data"].row = SeenRow(object)

\* The copy is up to date, or an answer is on its way that makes it so, or it is known
\* to be stale.
CopyInv ==
    page \in AllPages =>
        /\ page # "attendance" /\ Accepted("isActing") /\ "detail" \notin calls["isActing"].late =>
              calls["isActing"].copy = Seen(object)
        /\ \/ detail = Seen(object)
           \/ "detail" \in stale
           \/ loads["detail"] # None
           \/ page # "attendance" /\ Accepted("isActing")
           \/ Accepted("lifecycleBusy")
        /\ page = "attendance" =>
              /\ Accepted("isActing") /\ "data" \notin calls["isActing"].late =>
                    calls["isActing"].row = SeenRow(object)
              /\ \/ data = SeenRow(object)
                 \/ "data" \in stale
                 \/ loads["data"] # None
                 \/ Accepted("isActing")

DetailIInv ==
    /\ DetailTypeOK
    /\ Idle /\ ThingOK /\ FlagsOK
    /\ SaidInv /\ LoadsInv /\ ReadInv /\ CopyInv

\* What each page calls, and the statuses of its thing.
LEMMA Pages ==
    /\ CallsOf["booking"] = BookingCalls /\ StatusOf["booking"] = SessionStatus
    /\ CallsOf["event"] = GameCalls \cup LifecycleCalls \cup ReportCalls
    /\ StatusOf["event"] = EventStatus
    /\ CallsOf["attendance"] = MarkCalls /\ StatusOf["attendance"] = EventStatus
    /\ CallsOf["challenge"] = ChallengeCalls /\ StatusOf["challenge"] = ChallengeStatus
    /\ CallsOf["tournament"] = TournamentCalls /\ StatusOf["tournament"] = TournamentStatus
    /\ CallsOf["profile"] = ProfileCalls /\ StatusOf["profile"] = {"visible", "blocked"}
  BY DEF CallsOf, StatusOf, AllPages

\* What the calls are named.
LEMMA Names ==
    ASSUME NEW op
    PROVE  /\ op \in BookingCalls =>
                  op.name \in {"confirm", "decline", "cancel", "complete", "noShow"}
           /\ op \in GameCalls \cup TournamentCalls => op.name \in {"join", "leave"}
           /\ op \in LifecycleCalls => op.name \in {"cancel", "complete"}
           /\ op \in ReportCalls => op.name = "report" /\ op.arg \in SelfAttendanceStatus
           /\ op \in MarkCalls => op.name = "pick" /\ op.arg \in AttendanceStatus
           /\ op \in ChallengeCalls => op.name \in {"accept", "decline", "cancel", "result"}
           /\ op \in ChallengeCalls /\ op.name = "result" => op.arg \in WinnerChoice
           /\ op \in ProfileCalls => op.name = "block"
  BY DEF BookingCalls, GameCalls, TournamentCalls, LifecycleCalls, ReportCalls, MarkCalls,
         ChallengeCalls, ProfileCalls, Do

\* A copy of a thing is a copy, of its status and membership.
LEMMA SeenTyped ==
    ASSUME NEW o \in Thing
    PROVE  /\ Seen(o) \in Copy /\ Seen(o) # None /\ SeenRow(o) \in RowCopy /\ SeenRow(o) # None
           /\ Seen(o).status = o.status /\ Seen(o).joined = o.joined
           /\ SeenRow(o).joined = o.joined /\ SeenRow(o).mine = o.mine
  <1>1. Seen(o) \in Copy /\ SeenRow(o) \in RowCopy
    BY DEF Seen, SeenRow, Thing, Copy, RowCopy
  <1> QED
    BY <1>1, NoDetailAssumption DEF Seen, SeenRow

\* What an accepted operation leaves of the thing, in one lemma for each page.
Leaves(op, who, o) ==
    /\ o \in Thing /\ o.status \in StatusOf[page]
    /\ op.name \notin {"join", "leave"} => o.joined = object.joined
    /\ op.name \in {"report", "pick"} => o.status = object.status /\ o.mine = op.arg
    /\ op.name \notin {"report", "pick", "result"} => o.mine = object.mine
    /\ op.name = "result" => o.mine = IF who = role THEN op.arg ELSE object.mine

\* What the server makes of a booking is a booking.
LEMMA BookingLeaves ==
    ASSUME page = "booking", object \in Thing, object.status \in StatusOf[page],
           NEW op \in CallsOf[page], NEW who, NEW o \in Made(op, who, object)
    PROVE  Leaves(op, who, o)
  <1>1. op.name \in {"confirm", "decline", "cancel", "complete", "noShow"}
    BY Pages, Names
  <1>2. o = [object EXCEPT !.status = After[op.name]]
    BY <1>1 DEF Made
  <1>3. After[op.name] \in SessionStatus
    BY <1>1 DEF After, SessionStatus
  <1>4. o \in Thing
    BY <1>2, <1>3, Pages DEF Thing, AllPages
  <1> QED
    BY <1>1, <1>2, <1>3, <1>4, Pages DEF Leaves, Thing

\* What it makes of an event is an event, with the act in it.
LEMMA EventLeaves ==
    ASSUME page \in {"event", "attendance"}, object \in Thing, object.status \in StatusOf[page],
           NEW op \in CallsOf[page], NEW who, Accepts(op, who, object),
           NEW o \in Made(op, who, object)
    PROVE  Leaves(op, who, o)
  <1>1. /\ op.name \in {"join", "leave", "cancel", "complete", "report", "pick"}
        /\ op.name \in {"report", "pick"} => op.arg \in AttendanceStatus
        /\ StatusOf[page] = EventStatus
    BY Pages, Names DEF AttendanceStatus
  <1>2. CASE op.name = "join"
    <2>1. PICK s \in {"open", "full"} : o = [object EXCEPT !.joined = TRUE, !.status = s]
      BY <1>2 DEF Made
    <2>2. o \in Thing /\ o.status = s /\ o.mine = object.mine
      BY <2>1, Pages DEF Thing, EventStatus, AllPages
    <2> QED
      BY <1>1, <1>2, <2>2 DEF Leaves, EventStatus
  <1>3. CASE op.name = "leave"
    <2>1. o = [object EXCEPT !.joined = FALSE,
                             !.status = IF object.status = "full" THEN "open" ELSE object.status]
      BY <1>3 DEF Made
    <2>2. "open" \in UNION {StatusOf[p] : p \in AllPages}
      BY Pages DEF EventStatus, AllPages
    <2>3. o \in Thing /\ o.status \in {"open", object.status} /\ o.mine = object.mine
      BY <2>1, <2>2 DEF Thing
    <2> QED
      BY <1>1, <1>3, <2>3 DEF Leaves, EventStatus
  <1>4. CASE op.name \in {"cancel", "complete"}
    <2>1. o = [object EXCEPT !.status = After[op.name]]
      BY <1>4 DEF Made
    <2>2. After[op.name] \in EventStatus
      BY <1>4 DEF After, EventStatus
    <2>3. o \in Thing /\ o.status \in EventStatus /\ o.mine = object.mine /\ o.joined = object.joined
      BY <2>1, <2>2, Pages DEF Thing, AllPages
    <2> QED
      BY <1>1, <1>4, <2>3 DEF Leaves
  <1>5. CASE op.name \in {"report", "pick"}
    <2>1. o = [object EXCEPT !.mine = op.arg]
      BY <1>5 DEF Made
    <2>2. o \in Thing /\ o.status = object.status /\ o.mine = op.arg /\ o.joined = object.joined
      BY <1>1, <1>5, <2>1 DEF Thing, Mark
    <2> QED
      BY <1>1, <1>5, <2>2 DEF Leaves
  <1> QED
    BY <1>1, <1>2, <1>3, <1>4, <1>5

\* What it makes of a challenge is a challenge, with the report in it.
LEMMA ChallengeLeaves ==
    ASSUME page = "challenge", object \in Thing, object.status \in StatusOf[page],
           NEW op \in CallsOf[page], NEW who, NEW o \in Made(op, who, object)
    PROVE  Leaves(op, who, o)
  <1>1. /\ op.name \in {"accept", "decline", "cancel", "result"}
        /\ op.name = "result" => op.arg \in WinnerChoice
        /\ StatusOf[page] = ChallengeStatus
    BY Pages, Names
  <1>2. CASE op.name # "result"
    <2>1. o = [object EXCEPT !.status = After[op.name]]
      BY <1>1, <1>2 DEF Made
    <2>2. After[op.name] \in ChallengeStatus
      BY <1>1, <1>2 DEF After, ChallengeStatus
    <2>3. /\ o \in Thing /\ o.status \in ChallengeStatus
          /\ o.mine = object.mine /\ o.joined = object.joined
      BY <2>1, <2>2, Pages DEF Thing, AllPages
    <2> QED
      BY <1>1, <1>2, <2>3 DEF Leaves
  <1>3. CASE op.name = "result"
    <2> DEFINE both == IF who = role THEN [object EXCEPT !.mine = op.arg]
                       ELSE [object EXCEPT !.theirs = op.arg]
    <2>1. /\ both \in Thing /\ both.status = object.status /\ both.joined = object.joined
          /\ both.mine = IF who = role THEN op.arg ELSE object.mine
      BY <1>1, <1>3 DEF Thing, Mark
    <2>2. o = IF both.mine = "pending" \/ both.theirs = "pending" THEN both
              ELSE [both EXCEPT !.status = IF both.mine = both.theirs THEN "verified" ELSE "disputed"]
      BY <1>3 DEF Made
    <2> HIDE DEF both
    <2>3. /\ o \in Thing /\ o.joined = object.joined /\ o.mine = both.mine
          /\ o.status \in {object.status, "verified", "disputed"}
      BY <2>1, <2>2, Pages DEF Thing, AllPages, ChallengeStatus
    <2> QED
      BY <1>1, <1>3, <2>1, <2>3 DEF Leaves, ChallengeStatus
  <1> QED
    BY <1>2, <1>3

\* The same for tournaments and profiles.
LEMMA OtherLeaves ==
    ASSUME page \in {"tournament", "profile"}, object \in Thing, object.status \in StatusOf[page],
           NEW op \in CallsOf[page], NEW who, NEW o \in Made(op, who, object)
    PROVE  Leaves(op, who, o)
  <1>1. CASE page = "tournament"
    <2>1. op.name \in {"join", "leave"} /\ StatusOf[page] = TournamentStatus
      BY <1>1, Pages, Names
    <2>2. CASE op.name = "join"
      <3>1. PICK s \in {"open", "full"} : o = [object EXCEPT !.joined = TRUE, !.status = s]
        BY <2>2 DEF Made
      <3>2. o \in Thing /\ o.status = s /\ o.mine = object.mine
        BY <3>1, Pages DEF Thing, TournamentStatus, AllPages
      <3> QED
        BY <2>1, <2>2, <3>2 DEF Leaves, TournamentStatus
    <2>3. CASE op.name = "leave"
      <3>1. o = [object EXCEPT !.joined = FALSE,
                               !.status = IF object.status = "full" THEN "open" ELSE object.status]
        BY <2>3 DEF Made
      <3>2. o \in Thing /\ o.status \in {"open", object.status} /\ o.mine = object.mine
        BY <3>1, Pages DEF Thing, TournamentStatus, AllPages
      <3> QED
        BY <2>1, <2>3, <3>2 DEF Leaves, TournamentStatus
    <2> QED
      BY <2>1, <2>2, <2>3
  <1>2. CASE page = "profile"
    <2>1. op.name = "block" /\ StatusOf[page] = {"visible", "blocked"}
      BY <1>2, Pages, Names
    <2>2. o = [object EXCEPT !.status = "blocked"]
      BY <2>1 DEF Made, After
    <2>3. o \in Thing /\ o.status = "blocked" /\ o.mine = object.mine /\ o.joined = object.joined
      BY <2>2, Pages DEF Thing, AllPages
    <2> QED
      BY <2>1, <2>3 DEF Leaves
  <1> QED
    BY <1>1, <1>2

\* So every act that the server accepts leaves a thing of its page, with the act in
\* it.
LEMMA AllLeave ==
    ASSUME page \in AllPages, object \in Thing, object.status \in StatusOf[page],
           NEW op \in CallsOf[page], NEW who, Accepts(op, who, object),
           NEW o \in Made(op, who, object)
    PROVE  Leaves(op, who, o)
  BY BookingLeaves, EventLeaves, ChallengeLeaves, OtherLeaves DEF AllPages

-----------------------------------------------------------------------------
(* What is offered.                                                        *)

\* The flag of a call, and what the page has when it offers it.
LEMMA Flagged ==
    ASSUME page \in AllPages, NEW op \in CallsOf[page]
    PROVE  /\ FlagOf(op) \in Flag
           /\ FlagOf(op) = "isActing" => op \notin ReportCalls /\ (page = "event" => op \in GameCalls)
           /\ FlagOf(op) = "lifecycleBusy" => page = "event" /\ op \in LifecycleCalls
           /\ FlagOf(op) = "selfReportSaving" => page = "event" /\ op \in ReportCalls
  <1>1. op \in ReportCalls => page = "event"
    BY Pages, Names DEF AllPages
  <1>2. page = "event" => op \in GameCalls \cup LifecycleCalls \cup ReportCalls
    BY Pages
  <1> QED
    BY <1>1, <1>2 DEF FlagOf, Flag

\* The page has its copy, the flag is down, and the buttons of the game's host and
\* those of its players are not mixed up.
LEMMA Pressable ==
    ASSUME page \in AllPages, NEW op \in CallsOf[page], op \in DetailOffers
    PROVE  /\ calls[FlagOf(op)] = None
           /\ page \notin {"attendance", "profile"} => detail # None
           /\ page = "attendance" => data # None
           /\ FlagOf(op) = "lifecycleBusy" => role = "maker"
           /\ FlagOf(op) = "selfReportSaving" => role = "other"
  <1>1. CASE page \in {"booking", "challenge", "tournament", "attendance", "profile"}
    <2>1. FlagOf(op) = "isActing"
      BY <1>1, Flagged DEF Flag
    <2>2. CASE page \in {"booking", "profile"}
      BY <2>1, <2>2 DEF DetailOffers, BookingOffers, ProfileOffers, Busy
    <2>3. CASE page \in {"challenge", "tournament"}
      BY <2>1, <2>3 DEF DetailOffers, ChallengeOffers, TournamentOffers, Busy
    <2>4. CASE page = "attendance"
      BY <2>1, <2>4 DEF DetailOffers, AttendanceOffers, ParticipantRowOffers, Busy
    <2> QED
      BY <1>1, <2>2, <2>3, <2>4
  <1>2. CASE page = "event"
    <2>1. detail # None /\ op \in CtaOffers \cup HostOffers \cup ReportOffers
      BY <1>2 DEF DetailOffers, BattleOffers
    <2>2. CASE op \in CtaOffers
      <3>1. ~Busy("isActing") /\ op.name \in {"join", "leave"}
        BY <2>2 DEF CtaOffers, Do
      <3>2. FlagOf(op) = "isActing"
        BY <3>1, Names DEF FlagOf
      <3> QED
        BY <1>2, <2>1, <3>1, <3>2 DEF Busy
    <2>3. CASE op \in HostOffers
      <3>1. ~Busy("lifecycleBusy") /\ role = "maker" /\ op \in LifecycleCalls
        BY <2>3 DEF HostOffers, LifecycleCalls
      <3>2. FlagOf(op) = "lifecycleBusy"
        BY <1>2, <3>1, Names DEF FlagOf
      <3> QED
        BY <1>2, <2>1, <3>1, <3>2 DEF Busy
    <2>4. CASE op \in ReportOffers
      <3>1. ~Busy("selfReportSaving") /\ role = "other" /\ op \in ReportCalls
        BY <2>4 DEF ReportOffers
      <3>2. FlagOf(op) = "selfReportSaving"
        BY <3>1, Names DEF FlagOf
      <3> QED
        BY <1>2, <2>1, <3>1, <3>2 DEF Busy
    <2> QED
      BY <2>1, <2>2, <2>3, <2>4
  <1> QED
    BY <1>1, <1>2 DEF AllPages

-----------------------------------------------------------------------------
(* The steps.                                                              *)

\* The thing before a screen is open has its type.
LEMMA BlankTyped == Blank \in Thing
  BY Pages DEF Blank, Thing, Mark, AttendanceStatus, EventStatus, AllPages

\* A load that starts has read nothing.
LEMMA NewLoadTyped ==
    /\ NewLoad \in Load /\ NewLoad # None /\ ~NewLoad.read
  <1>1. Seen(Blank) \in Copy /\ SeenRow(Blank) \in RowCopy
    BY BlankTyped, SeenTyped
  <1>2. NewLoad \in Load /\ NewLoad.read = FALSE
    BY <1>1 DEF NewLoad, Load
  <1> QED
    BY <1>2, NoDetailAssumption

\* A call that starts was sent.
LEMMA NewCallTyped ==
    ASSUME page \in AllPages, NEW op \in CallsOf[page]
    PROVE  /\ NewCall(op) \in CallRow /\ NewCall(op) # None
           /\ NewCall(op).op = op /\ NewCall(op).phase = "sent"
  <1>1. Seen(Blank) \in Copy /\ SeenRow(Blank) \in RowCopy /\ op \in Op
    BY BlankTyped, SeenTyped DEF Op
  <1>2. NewCall(op) \in CallRow /\ NewCall(op).op = op /\ NewCall(op).phase = "sent"
    BY <1>1 DEF NewCall, CallRow
  <1> QED
    BY <1>2, NoDetailAssumption

\* What an answer brings is shown.
LEMMA AnswersShown ==
    ASSUME NEW flag
    PROVE  /\ Answers(flag) \subseteq Displayed
           /\ page = "attendance" => Answers(flag) = {"data"}
           /\ page # "attendance" /\ flag = "isActing" => "detail" \in Answers(flag)
           /\ page # "attendance" => "data" \notin Answers(flag)
           /\ page # "attendance" /\ flag = "selfReportSaving" => Answers(flag) = {"said"}
           /\ page # "attendance" /\ flag = "lifecycleBusy" => Answers(flag) = {}
           /\ page # "attendance" /\ flag = "isActing" /\ calls[flag].op.name # "result" =>
                 Answers(flag) = {"detail"}
  BY DEF Answers, Displayed, Hook

\* A screen opens with its first loads in flight.
LEMMA OpenDetailStep ==
    ASSUME DetailIInv, page = None, NEW p \in Page, NEW who \in Role, NEW begun \in BOOLEAN,
           NEW o \in Openable(p, who), OpenDetail(p, who, o, begun)
    PROVE  DetailIInv'
  <1>1. /\ page' = p /\ p \in AllPages /\ p # None /\ p # "left" /\ role' = who /\ object' = o
        /\ started' = begun
        /\ detail' = IF p = "profile" THEN Seen(o) ELSE None
        /\ loads' = [h \in Hook |-> IF p = "profile" \/ (h = "data" /\ p # "attendance") THEN None
                                    ELSE NewLoad]
        /\ UNCHANGED <<data, errors, calls, said, got, stale>>
    BY PageAssumption DEF OpenDetail, AllPages, historyVars
  <1>2. /\ data = None /\ \A f \in Flag : calls[f] = None
        /\ said = "pending" /\ errors = {}
    BY NoDetailAssumption, PageAssumption DEF DetailIInv, Idle, SaidInv, AllPages
  <1>3. /\ o \in Thing /\ o.status \in StatusOf[p]
        /\ p = "event" /\ who = "maker" => o.joined
    BY DEF Openable
  <1>4. /\ loads' \in [Hook -> Load \cup {None}] /\ NewLoad # None /\ ~NewLoad.read
        /\ detail' \in Copy \cup {None}
    BY <1>1, <1>3, NewLoadTyped, SeenTyped
  <1>5. DetailTypeOK'
    BY <1>1, <1>2, <1>3, <1>4 DEF DetailIInv, DetailTypeOK
  <1>6. Idle'
    <2>1. p = "profile" => \A h \in Hook : loads'[h] = None
      BY <1>1
    <2> QED
      BY <1>1, <1>2, <2>1 DEF Idle
  <1>6a. ThingOK' /\ FlagsOK'
    BY <1>1, <1>2, <1>3 DEF ThingOK, FlagsOK
  <1>7. SaidInv'
    BY <1>1, <1>2 DEF SaidInv, Accepted, Flag
  <1>7a. /\ loads'["detail"] = IF p = "profile" THEN None ELSE NewLoad
         /\ loads'["data"] = IF p # "attendance" THEN None ELSE NewLoad
    BY <1>1 DEF Hook
  <1>7b. calls'["isActing"] = None /\ calls'["lifecycleBusy"] = None
         /\ \A f \in Flag : calls'[f] = None
    BY <1>1, <1>2 DEF Flag
  <1>8. LoadsInv'
    BY <1>1, <1>2, <1>3, <1>7a, <1>7b, SeenTyped DEF LoadsInv
  <1>8a. ReadInv'
    BY <1>4, <1>7a DEF ReadInv
  <1>9. CopyInv'
    BY <1>1, <1>4, <1>7a, <1>7b DEF CopyInv, Accepted
  <1> QED
    BY <1>5, <1>6, <1>6a, <1>7, <1>8, <1>8a, <1>9 DEF DetailIInv

\* A retry is offered after a load that failed, and there is no copy then.
LEMMA RetryStep ==
    ASSUME DetailIInv, Retry
    PROVE  DetailIInv'
  <1>1. /\ RetryHook \in errors /\ RetryHook \in Hook
        /\ loads' = [loads EXCEPT ![RetryHook] = NewLoad]
        /\ errors' = errors \ {RetryHook}
        /\ UNCHANGED <<page, role, object, started, detail, data, calls, said, got, stale>>
        /\ page \notin {"booking", "profile", None}
        /\ RetryHook = IF page = "attendance" THEN "data" ELSE "detail"
        /\ page = "event" => detail = None
    BY DEF Retry, RetryOffered, RetryHook, Hook, historyVars
  <1>2. loads \in [Hook -> Load \cup {None}] /\ loads' \in [Hook -> Load \cup {None}]
    BY <1>1, NewLoadTyped DEF DetailIInv, DetailTypeOK
  <1>3. /\ page \notin {None, "profile", "left"}
        /\ \A h \in Hook : loads[h] # None => loads'[h] # None
    BY <1>1, <1>2, NewLoadTyped DEF DetailIInv, Idle, Hook
  <1>3a. /\ page = "attendance" => data = None /\ loads'["detail"] = loads["detail"]
                                   /\ loads'["data"] = NewLoad
         /\ page # "attendance" => detail = None /\ loads'["data"] = loads["data"]
                                   /\ loads'["detail"] = NewLoad
    BY <1>1, <1>2 DEF DetailIInv, LoadsInv, Hook
  <1>4. DetailTypeOK'
    BY <1>1, <1>2 DEF DetailIInv, DetailTypeOK
  <1>5. Idle' /\ ThingOK' /\ FlagsOK'
    BY <1>1, <1>3 DEF DetailIInv, Idle, ThingOK, FlagsOK, Hook
  <1>6. SaidInv'
    BY <1>1 DEF DetailIInv, SaidInv, Accepted
  <1>7. LoadsInv'
    BY <1>1, <1>3a DEF DetailIInv, LoadsInv
  <1>8. ReadInv'
    BY <1>1, <1>3a, NewLoadTyped DEF DetailIInv, ReadInv
  <1>9. CopyInv'
    BY <1>1, <1>3 DEF DetailIInv, CopyInv, Accepted, Hook
  <1> QED
    BY <1>4, <1>5, <1>6, <1>7, <1>8, <1>9 DEF DetailIInv

\* A load that is read carries the thing as it is.
LEMMA LoadReadStep ==
    ASSUME DetailIInv, NEW hook \in Hook, LoadRead(hook)
    PROVE  DetailIInv'
  <1>1. /\ loads[hook] # None /\ loads' = [loads EXCEPT ![hook] = ReadOf(hook)]
        /\ UNCHANGED <<page, role, object, started, detail, data, errors, calls, said, got, stale>>
        /\ loads \in [Hook -> Load \cup {None}] /\ object \in Thing
    BY DEF LoadRead, DetailIInv, DetailTypeOK, historyVars
  <1>2. /\ ReadOf(hook) \in Load
        /\ hook = "detail" => ReadOf(hook).copy = Seen(object)
        /\ hook = "data" => ReadOf(hook).row = SeenRow(object)
    BY <1>1, NewLoadTyped, SeenTyped DEF ReadOf, Load
  <1>3. /\ loads' \in [Hook -> Load \cup {None}] /\ loads'[hook] = ReadOf(hook)
        /\ ReadOf(hook) # None
        /\ \A h \in Hook \ {hook} : loads'[h] = loads[h]
        /\ \A h \in Hook : loads'[h] = None <=> loads[h] = None
    BY <1>1, <1>2, NoDetailAssumption
  <1>4. DetailTypeOK' /\ Idle' /\ ThingOK' /\ FlagsOK'
    BY <1>1, <1>3 DEF DetailIInv, DetailTypeOK, Idle, ThingOK, FlagsOK, Hook
  <1>5. SaidInv' /\ LoadsInv' /\ CopyInv'
    BY <1>1, <1>3 DEF DetailIInv, SaidInv, LoadsInv, CopyInv, Accepted, Hook
  <1>6. ReadInv'
    <2>1. "detail" \in Hook /\ "data" \in Hook
      BY DEF Hook
    <2>2. CASE hook = "detail"
      BY <1>1, <1>2, <1>3, <2>1, <2>2 DEF DetailIInv, ReadInv
    <2>3. CASE hook = "data"
      BY <1>1, <1>2, <1>3, <2>1, <2>3 DEF DetailIInv, ReadInv
    <2> QED
      BY <2>2, <2>3 DEF Hook
  <1> QED
    BY <1>4, <1>5, <1>6 DEF DetailIInv

\* What the end of a load leaves of the calls.
LEMMA LoadedCalls ==
    ASSUME DetailIInv, NEW hook \in Hook, loads[hook] # None, Loaded(hook)
    PROVE  /\ loads' \in [Hook -> Load \cup {None}] /\ loads'[hook] = None
           /\ \A h \in Hook \ {hook} : loads'[h] = loads[h]
           /\ calls' \in [Flag -> CallRow \cup {None}]
           /\ \A f \in Flag : calls'[f] = None \/ (calls'[f] = calls[f] /\ calls[f].phase # "refresh")
           /\ \A f \in Flag : calls[f] # None /\ calls[f].phase # "refresh" => calls'[f] = calls[f]
           /\ UNCHANGED <<page, role, object, started, said, got>>
           /\ page \notin {None, "profile", "left"}
  BY DEF Loaded, DetailIInv, DetailTypeOK, Idle

\* A load that is answered makes the copy current, unless another changed the thing
\* since it was read; one that fails leaves a stale copy.
LEMMA LoadOverStep ==
    ASSUME DetailIInv, NEW hook \in Hook, LoadAnswered(hook) \/ LoadFailed(hook)
    PROVE  DetailIInv'
  <1>1. loads[hook] # None /\ Loaded(hook)
    BY DEF LoadAnswered, LoadFailed
  <1>2. /\ loads' \in [Hook -> Load \cup {None}] /\ loads'[hook] = None
        /\ \A h \in Hook \ {hook} : loads'[h] = loads[h]
        /\ calls' \in [Flag -> CallRow \cup {None}]
        /\ \A f \in Flag : calls'[f] = None \/ (calls'[f] = calls[f] /\ calls[f].phase # "refresh")
        /\ \A f \in Flag : calls[f] # None /\ calls[f].phase # "refresh" => calls'[f] = calls[f]
        /\ UNCHANGED <<page, role, object, started, said, got>>
        /\ page \notin {None, "profile", "left"}
    BY <1>1, LoadedCalls
  <1>3. \/ /\ loads[hook].read /\ errors' = errors
           /\ stale' = (stale \ {hook}) \cup (loads[hook].late \cap {hook})
           /\ hook = "detail" => detail' = loads[hook].copy /\ data' = data
           /\ hook = "data" => data' = loads[hook].row /\ detail' = detail
        \/ /\ errors' = errors \cup {hook} /\ stale' = stale \cup {hook}
           /\ UNCHANGED <<detail, data>>
    BY DEF LoadAnswered, LoadFailed, Brought
  <1>4. /\ detail' \in Copy \cup {None} /\ data' \in RowCopy \cup {None}
        /\ errors' \in SUBSET Hook /\ stale' \in SUBSET Displayed
    <2>1. loads[hook].copy \in Copy /\ loads[hook].row \in RowCopy
      BY <1>1 DEF DetailIInv, DetailTypeOK, Load
    <2>2. detail' \in Copy \cup {None} /\ data' \in RowCopy \cup {None}
      BY <1>3, <2>1 DEF DetailIInv, DetailTypeOK, Hook
    <2>3. errors' \in SUBSET Hook /\ stale' \in SUBSET Displayed
      BY <1>3 DEF DetailIInv, DetailTypeOK, Displayed
    <2> QED
      BY <2>2, <2>3
  <1>5. DetailTypeOK'
    BY <1>2, <1>4 DEF DetailIInv, DetailTypeOK
  <1>6. Idle' /\ ThingOK'
    BY <1>2 DEF DetailIInv, Idle, ThingOK
  <1>6a. \A f \in Flag : /\ Accepted(f)' <=> Accepted(f)
                         /\ Accepted(f) => calls'[f] = calls[f]
                         /\ calls[f] = None => calls'[f] = None
    BY <1>2 DEF Accepted
  <1>6b. hook = "data" => page = "attendance" /\ data = None
    BY <1>1 DEF DetailIInv, LoadsInv
  <1>6c. "said" \in stale' <=> "said" \in stale
    BY <1>3 DEF Hook
  <1>7. FlagsOK'
    BY <1>2 DEF DetailIInv, FlagsOK
  <1>8. SaidInv'
    BY <1>2, <1>6a, <1>6c DEF DetailIInv, SaidInv, Flag
  <1>9. CASE hook = "detail"
    <2>1. loads'["detail"] = None /\ loads'["data"] = loads["data"] /\ data' = data
          /\ ("data" \in stale' <=> "data" \in stale)
          /\ ("data" \in errors' <=> "data" \in errors)
      BY <1>2, <1>3, <1>9 DEF Hook
    <2>2. /\ detail = None => \A f \in Flag : calls'[f] = None \/ page = "attendance"
          /\ page # "event" => detail = None
          /\ "detail" \notin errors
      BY <1>1, <1>6a, <1>9 DEF DetailIInv, LoadsInv
    <2>3. "detail" \in errors' => detail' = detail
      BY <1>3, <1>9, <2>2
    <2>4. detail' = None => detail = None
      BY <1>1, <1>3, <1>9, NoDetailAssumption DEF DetailIInv, DetailTypeOK, Load
    <2>5. calls["isActing"] = None => calls'["isActing"] = None
      BY <1>6a DEF Flag
    <2>6. LoadsInv'
      <3>1. \A h \in Hook : loads'[h] # None => h \notin errors'
        BY <1>2, <1>3, <1>9 DEF DetailIInv, LoadsInv, Hook
      <3> QED
        BY <1>2, <2>1, <2>2, <2>3, <2>4, <2>5, <3>1 DEF DetailIInv, LoadsInv
    <2>7. ReadInv'
      BY <1>2, <2>1 DEF DetailIInv, ReadInv
    <2>8. detail' = Seen(object) \/ "detail" \in stale'
      BY <1>1, <1>3, <1>9 DEF DetailIInv, ReadInv
    <2>9. CopyInv'
      BY <1>2, <1>6a, <2>1, <2>8 DEF DetailIInv, CopyInv, Flag
    <2> QED
      BY <1>5, <1>6, <1>7, <1>8, <2>6, <2>7, <2>9 DEF DetailIInv
  <1>10. CASE hook = "data"
    <2>1. loads'["data"] = None /\ loads'["detail"] = loads["detail"] /\ detail' = detail
          /\ ("detail" \in stale' <=> "detail" \in stale)
          /\ ("detail" \in errors' <=> "detail" \in errors)
      BY <1>2, <1>3, <1>10 DEF Hook
    <2>2. page = "attendance" /\ data = None /\ "data" \notin errors /\ calls["isActing"] = None
      BY <1>1, <1>10 DEF DetailIInv, LoadsInv
    <2>3. "data" \in errors' => data' = None
      BY <1>3, <1>10, <2>2
    <2>4. LoadsInv'
      <3>1. \A h \in Hook : loads'[h] # None => h \notin errors'
        BY <1>2, <1>3, <1>10 DEF DetailIInv, LoadsInv, Hook
      <3>2. calls'["isActing"] = None
        BY <1>6a, <2>2 DEF Flag
      <3> QED
        BY <1>2, <2>1, <2>2, <2>3, <3>1, <3>2 DEF DetailIInv, LoadsInv
    <2>5. ReadInv'
      BY <1>2, <2>1 DEF DetailIInv, ReadInv
    <2>6. data' = SeenRow(object) \/ "data" \in stale'
      BY <1>1, <1>3, <1>10 DEF DetailIInv, ReadInv
    <2>7. CopyInv'
      BY <1>2, <1>6a, <2>1, <2>6 DEF DetailIInv, CopyInv, Flag
    <2> QED
      BY <1>5, <1>6, <1>7, <1>8, <2>4, <2>5, <2>7 DEF DetailIInv
  <1> QED
    BY <1>9, <1>10 DEF Hook

\* A press raises the flag that its button waits for, which was down.
LEMMA PressStep ==
    ASSUME DetailIInv, page \in AllPages, NEW op \in CallsOf[page], Press(op)
    PROVE  DetailIInv'
  <1>1. /\ op \in DetailOffers
        /\ calls' = [calls EXCEPT ![FlagOf(op)] = NewCall(op)]
        /\ UNCHANGED <<page, role, object, started, detail, data, errors, loads, said, got, stale>>
        /\ calls \in [Flag -> CallRow \cup {None}]
    BY DEF Press, DetailIInv, DetailTypeOK, historyVars
  <1>2. PICK flag \in Flag : flag = FlagOf(op)
    BY Flagged
  <1>3. /\ calls[flag] = None
        /\ page \notin {"attendance", "profile"} => detail # None
        /\ page = "attendance" => data # None
        /\ flag = "lifecycleBusy" => role = "maker"
        /\ flag = "selfReportSaving" => role = "other"
    BY <1>1, <1>2, Pressable
  <1>4. /\ calls' \in [Flag -> CallRow \cup {None}]
        /\ calls'[flag] # None /\ calls'[flag].op = op /\ calls'[flag].phase = "sent"
        /\ \A f \in Flag \ {flag} : calls'[f] = calls[f]
    BY <1>1, <1>2, NewCallTyped
  <1>5. \A f \in Flag : /\ Accepted(f)' <=> Accepted(f)
                        /\ Accepted(f) => calls'[f] = calls[f]
    BY <1>3, <1>4 DEF Accepted
  <1>6. DetailTypeOK'
    BY <1>1, <1>4 DEF DetailIInv, DetailTypeOK
  <1>7. Idle' /\ ThingOK'
    BY <1>1 DEF DetailIInv, Idle, ThingOK
  <1>8. FlagsOK'
    <2> SUFFICES ASSUME NEW f \in Flag, calls'[f] # None
                 PROVE  /\ calls'[f].phase = "refresh" => f = "lifecycleBusy" /\ loads'["detail"] # None
                        /\ f = "isActing" => calls'[f].op \notin ReportCalls
                        /\ f = "isActing" /\ page' = "event" => calls'[f].op \in GameCalls
                        /\ f = "isActing" /\ page' = "event" /\ role' = "maker" =>
                              calls'[f].phase # "accepted"
                        /\ f = "lifecycleBusy" =>
                              page' = "event" /\ role' = "maker" /\ calls'[f].op \in LifecycleCalls
                        /\ f = "selfReportSaving" =>
                              page' = "event" /\ role' = "other" /\ calls'[f].op \in ReportCalls
      BY DEF FlagsOK
    <2>1. CASE f = flag
      BY <1>1, <1>2, <1>3, <1>4, <2>1, Flagged
    <2>2. CASE f # flag
      BY <1>1, <1>4, <2>2 DEF DetailIInv, FlagsOK
    <2> QED
      BY <2>1, <2>2
  <1>9. SaidInv'
    BY <1>1, <1>5 DEF DetailIInv, SaidInv, Flag
  <1>10. LoadsInv'
    <2>1. page # "attendance" => detail # None
      BY <1>3 DEF DetailIInv, LoadsInv
    <2>2. calls["lifecycleBusy"] # None => calls'["lifecycleBusy"] = calls["lifecycleBusy"]
      BY <1>3, <1>4 DEF Flag
    <2> QED
      BY <1>1, <1>3, <2>1, <2>2 DEF DetailIInv, LoadsInv
  <1>11. ReadInv'
    BY <1>1 DEF DetailIInv, ReadInv
  <1>12. CopyInv'
    BY <1>1, <1>5 DEF DetailIInv, CopyInv, Flag
  <1> QED
    BY <1>6, <1>7, <1>8, <1>9, <1>10, <1>11, <1>12 DEF DetailIInv

\* The page of a request, and what the request may be.
LEMMA InFlight ==
    ASSUME DetailIInv, NEW flag \in Flag, calls[flag] # None
    PROVE  /\ page \in AllPages /\ calls[flag] \in CallRow /\ calls[flag].op \in CallsOf[page]
           /\ object \in Thing /\ object.status \in StatusOf[page]
           /\ page # "event" => flag = "isActing"
           /\ flag = "isActing" => calls[flag].op.name # "report"
  <1>1. /\ page \in AllPages /\ calls[flag] \in CallRow /\ calls[flag].op \in CallsOf[page]
        /\ object \in Thing /\ object.status \in StatusOf[page]
    BY DEF DetailIInv, DetailTypeOK, Idle, ThingOK
  <1>2. page # "event" => flag = "isActing"
    BY DEF DetailIInv, FlagsOK, Flag
  <1>3. flag = "isActing" => calls[flag].op.name # "report"
    <2>1. flag = "isActing" /\ page = "event" => calls[flag].op \in GameCalls
      BY DEF DetailIInv, FlagsOK
    <2> QED
      BY <1>1, <2>1, Pages, Names DEF AllPages
  <1> QED
    BY <1>1, <1>2, <1>3

\* A call that is refused changes nothing on the server.
LEMMA RefusedStep ==
    ASSUME DetailIInv, NEW flag \in Flag, calls[flag] # None, calls[flag].phase = "sent",
           calls' = [calls EXCEPT ![flag].phase = "refused"],
           UNCHANGED <<page, role, object, started, detail, data, errors, loads, said, got, stale>>
    PROVE  DetailIInv'
  <1>1. calls[flag] \in CallRow /\ calls \in [Flag -> CallRow \cup {None}]
    BY InFlight DEF DetailIInv, DetailTypeOK
  <1>2. PICK c : c = [calls[flag] EXCEPT !.phase = "refused"]
    OBVIOUS
  <1>3. c \in CallRow /\ c.op = calls[flag].op /\ c.phase = "refused" /\ c # None
    BY <1>1, <1>2, NoDetailAssumption DEF CallRow
  <1>4. /\ calls' \in [Flag -> CallRow \cup {None}] /\ calls'[flag] = c
        /\ \A f \in Flag \ {flag} : calls'[f] = calls[f]
    BY <1>1, <1>2, <1>3
  <1>5. \A f \in Flag : /\ Accepted(f)' <=> Accepted(f)
                        /\ Accepted(f) => calls'[f] = calls[f]
                        /\ calls'[f] = None <=> calls[f] = None
    BY <1>3, <1>4 DEF Accepted
  <1>6. DetailTypeOK'
    BY <1>3, <1>4 DEF DetailIInv, DetailTypeOK
  <1>7. Idle' /\ ThingOK'
    BY <1>5 DEF DetailIInv, Idle, ThingOK
  <1>8. FlagsOK'
    BY <1>3, <1>4 DEF DetailIInv, FlagsOK
  <1>9. SaidInv'
    BY <1>5 DEF DetailIInv, SaidInv, Flag
  <1>10. LoadsInv' /\ ReadInv'
    <2>1. calls["lifecycleBusy"] # None /\ calls["lifecycleBusy"].phase = "refresh" =>
              calls'["lifecycleBusy"] = calls["lifecycleBusy"]
      BY <1>4 DEF Flag
    <2> QED
      BY <1>5, <2>1 DEF DetailIInv, LoadsInv, ReadInv, Flag
  <1>11. CopyInv'
    BY <1>5 DEF DetailIInv, CopyInv, Flag
  <1> QED
    BY <1>6, <1>7, <1>8, <1>9, <1>10, <1>11 DEF DetailIInv

\* An accepted call leaves the host in the game, and the copy of the page as it was
\* unless it was the call of the busy page.
LEMMA AcceptedLeaves ==
    ASSUME DetailIInv, NEW flag \in Flag, calls[flag] # None,
           Accepts(calls[flag].op, role, object),
           NEW o \in Made(calls[flag].op, role, object)
    PROVE  /\ Leaves(calls[flag].op, role, o)
           /\ page = "event" /\ role = "maker" => o.joined /\ flag # "isActing"
           /\ flag = "selfReportSaving" \/ page = "attendance" => Seen(o) = Seen(object)
           /\ page = "challenge" /\ calls[flag].op.name = "result" => object.mine = "pending"
  <1> DEFINE op == calls[flag].op
  <1>1. /\ page \in AllPages /\ op \in CallsOf[page]
        /\ object \in Thing /\ object.status \in StatusOf[page]
    BY InFlight
  <1>2. Leaves(op, role, o)
    BY <1>1, AllLeave
  <1>3. ASSUME page = "event", role = "maker"
        PROVE  o.joined /\ flag # "isActing"
    <2>1. object.joined
      BY <1>3 DEF DetailIInv, ThingOK
    <2>2. EventAccepts(op, role, object)
      BY <1>3 DEF Accepts
    <2>3. op.name \notin {"join", "leave"}
      BY <1>3, <2>1, <2>2 DEF EventAccepts
    <2>4. flag # "isActing"
      BY <1>3, <2>3, Names DEF DetailIInv, FlagsOK
    <2> QED
      BY <1>2, <2>1, <2>3, <2>4 DEF Leaves
  <1>4. ASSUME flag = "selfReportSaving" \/ page = "attendance"
        PROVE  Seen(o) = Seen(object)
    <2>1. op \in ReportCalls \cup MarkCalls
      BY <1>1, <1>4, Pages DEF DetailIInv, FlagsOK
    <2>2. op.name \in {"report", "pick"}
      BY <2>1, Names
    <2> QED
      BY <1>2, <2>2 DEF Leaves, Seen
  <1>5. ASSUME page = "challenge", op.name = "result"
        PROVE  object.mine = "pending"
    BY <1>5 DEF Accepts, ChallengeAccepts
  <1> QED
    BY <1>2, <1>3, <1>4, <1>5

\* A call that is accepted changes the thing, and its answer carries the change.
LEMMA AcceptedStep ==
    ASSUME DetailIInv, NEW flag \in Flag, NEW c, c = calls[flag], c # None, c.phase = "sent",
           Accepts(c.op, role, object), NEW o \in Made(c.op, role, object), object' = o,
           NEW d, d = IF page = "attendance"
                      THEN [c EXCEPT !.phase = "accepted", !.row = SeenRow(o)]
                      ELSE [c EXCEPT !.phase = "accepted",
                                     !.copy = IF flag = "isActing" THEN Seen(o) ELSE @],
           calls' = [calls EXCEPT ![flag] = d],
           got' = IF c.op.name \in {"report", "result"} THEN got \cup {c.op.arg} ELSE got,
           UNCHANGED <<page, role, started, detail, data, errors, loads, said, stale>>
    PROVE  DetailIInv'
  <1>1. /\ page \in AllPages /\ c \in CallRow /\ c.op \in CallsOf[page]
        /\ object \in Thing /\ object.status \in StatusOf[page]
        /\ page # "event" => flag = "isActing"
        /\ calls \in [Flag -> CallRow \cup {None}]
    BY InFlight DEF DetailIInv, DetailTypeOK
  <1>2. /\ Leaves(c.op, role, o)
        /\ page = "event" /\ role = "maker" => o.joined /\ flag # "isActing"
        /\ flag = "selfReportSaving" \/ page = "attendance" => Seen(o) = Seen(object)
        /\ page = "challenge" /\ c.op.name = "result" => object.mine = "pending"
    BY AcceptedLeaves
  <1>3. /\ o \in Thing /\ o.status \in StatusOf[page]
        /\ Seen(o) \in Copy /\ SeenRow(o) \in RowCopy
    BY <1>2, SeenTyped DEF Leaves
  <1>4. /\ d \in CallRow /\ d.op = c.op /\ d.phase = "accepted"
        /\ page = "attendance" => d.row = SeenRow(o)
        /\ page # "attendance" /\ flag = "isActing" => d.copy = Seen(o)
    BY <1>1, <1>3 DEF CallRow
  <1>5. /\ calls' \in [Flag -> CallRow \cup {None}] /\ calls'[flag] = d /\ d # None
        /\ \A f \in Flag \ {flag} : calls'[f] = calls[f]
    BY <1>1, <1>4, NoDetailAssumption
  <1>6. /\ Accepted(flag)' /\ ~Accepted(flag)
        /\ \A f \in Flag \ {flag} : Accepted(f)' <=> Accepted(f)
        /\ \A f \in Flag : calls'[f] = None <=> calls[f] = None
    BY <1>4, <1>5 DEF Accepted
  <1>6a. c.op.name \in {"report", "result"} => c.op.arg \in Mark
    BY <1>1, Pages, Names DEF AllPages, Mark, AttendanceStatus
  <1>7. DetailTypeOK'
    <2>1. got' \in SUBSET Mark
      BY <1>6a DEF DetailIInv, DetailTypeOK
    <2> QED
      BY <1>1, <1>3, <1>4, <1>5, <2>1 DEF DetailIInv, DetailTypeOK
  <1>8. Idle' /\ ThingOK'
    BY <1>1, <1>2, <1>3, <1>6 DEF DetailIInv, Idle, ThingOK
  <1>9. FlagsOK'
    BY <1>1, <1>2, <1>4, <1>5 DEF DetailIInv, FlagsOK
  <1>10. SaidInv'
    <2>1. \A f \in Flag : Accepted(f)' /\ calls'[f].op.name \in {"report", "result"} =>
              calls'[f].op.arg \in got'
      BY <1>4, <1>5, <1>6 DEF DetailIInv, SaidInv
    <2>2. said # "pending" => page \in {"event", "challenge"} /\ said \in got'
      BY DEF DetailIInv, SaidInv
    <2>3. CASE page = "challenge"
      <3>1. flag = "isActing"
        BY <1>1, <2>3
      <3>2. said # "pending" => c.op.name # "result" /\ object.mine = said
        BY <1>2, <2>3 DEF DetailIInv, SaidInv
      <3>3. c.op.name \notin {"report", "pick"}
        BY <1>1, <2>3, Pages, Names
      <3> QED
        BY <1>2, <1>4, <1>5, <2>1, <2>2, <2>3, <3>1, <3>2, <3>3 DEF SaidInv, Leaves
    <2>4. CASE page = "event"
      <3>1. CASE flag = "selfReportSaving"
        <4>1. c.op.name = "report" /\ o.mine = c.op.arg
          BY <1>2, <3>1, Names DEF DetailIInv, FlagsOK, Leaves
        <4> QED
          BY <1>4, <1>5, <1>6, <2>1, <2>2, <2>4, <3>1, <4>1 DEF SaidInv
      <3>2. CASE flag # "selfReportSaving"
        <4>1. c.op \in GameCalls \cup LifecycleCalls
          BY <2>4, <3>2 DEF DetailIInv, FlagsOK, Flag
        <4>2. o.mine = object.mine
          BY <1>2, <4>1, Names DEF Leaves
        <4>3. calls'["selfReportSaving"] = calls["selfReportSaving"]
          BY <1>5, <3>2 DEF Flag
        <4>4. Accepted("selfReportSaving")' <=> Accepted("selfReportSaving")
          BY <4>3 DEF Accepted
        <4> QED
          BY <2>1, <2>2, <2>4, <4>2, <4>3, <4>4 DEF DetailIInv, SaidInv
      <3> QED
        BY <3>1, <3>2
    <2>5. CASE page \notin {"event", "challenge"}
      BY <2>1, <2>2, <2>5 DEF DetailIInv, SaidInv
    <2> QED
      BY <2>3, <2>4, <2>5
  <1>11. LoadsInv' /\ ReadInv'
    <2>1. loads["data"] = None \/ page # "attendance"
      BY <1>1, <1>6 DEF DetailIInv, LoadsInv
    <2>1a. loads["data"] = None
      BY <2>1 DEF DetailIInv, LoadsInv
    <2>2. ASSUME loads["detail"] # None
          PROVE  page = "attendance"
      <3>1. CASE detail = None
        BY <3>1 DEF DetailIInv, LoadsInv
      <3>2. CASE page = "event" /\ calls["lifecycleBusy"] # None
                   /\ calls["lifecycleBusy"].phase = "refresh"
        <4>1. role = "maker" /\ flag # "lifecycleBusy"
          BY <3>2 DEF DetailIInv, FlagsOK, Flag
        <4>2. flag # "selfReportSaving"
          BY <4>1 DEF DetailIInv, FlagsOK
        <4> QED
          BY <1>2, <3>2, <4>1, <4>2 DEF Flag
      <3> QED
        BY <2>2, <3>1, <3>2 DEF DetailIInv, LoadsInv
    <2>3. LoadsInv'
      <3>1. loads["detail"] # None => detail = None
        BY <2>2 DEF DetailIInv, LoadsInv
      <3> QED
        BY <1>6, <2>1a, <3>1 DEF DetailIInv, LoadsInv, Flag
    <2>4. ReadInv'
      BY <1>2, <2>1a, <2>2 DEF DetailIInv, ReadInv
    <2> QED
      BY <2>3, <2>4
  <1>12. CopyInv'
    <2>1. CASE page = "attendance"
      <3>1. flag = "isActing" /\ Seen(o) = Seen(object)
        BY <1>1, <1>2, <2>1
      <3>2. Accepted("lifecycleBusy")' <=> Accepted("lifecycleBusy")
        BY <1>6, <3>1 DEF Flag
      <3> QED
        BY <1>1, <1>4, <1>5, <1>6, <2>1, <3>1, <3>2 DEF DetailIInv, CopyInv
    <2>2. CASE page # "attendance" /\ flag = "isActing"
      BY <1>4, <1>5, <1>6, <2>2 DEF CopyInv
    <2>3. CASE page = "event" /\ flag = "lifecycleBusy"
      <3>1. role = "maker" /\ ~Accepted("isActing")'
        BY <1>6, <2>3 DEF DetailIInv, FlagsOK, Accepted, Flag
      <3> QED
        BY <1>6, <2>3, <3>1 DEF CopyInv
    <2>4. CASE page = "event" /\ flag = "selfReportSaving"
      <3>1. /\ Accepted("isActing")' <=> Accepted("isActing")
            /\ calls'["isActing"] = calls["isActing"]
            /\ Accepted("lifecycleBusy")' <=> Accepted("lifecycleBusy")
        BY <1>5, <1>6, <2>4 DEF Flag
      <3> QED
        BY <1>2, <2>4, <3>1 DEF DetailIInv, CopyInv
    <2> QED
      BY <1>1, <2>1, <2>2, <2>3, <2>4 DEF Flag
  <1> QED
    BY <1>7, <1>8, <1>9, <1>10, <1>11, <1>12 DEF DetailIInv

\* The server accepts or refuses a call.
LEMMA CallServedStep ==
    ASSUME DetailIInv, NEW flag \in Flag, CallServed(flag)
    PROVE  DetailIInv'
  <1>1. PICK c : c = calls[flag]
    OBVIOUS
  <1>2. /\ c # None /\ c.phase = "sent"
        /\ UNCHANGED <<page, role, started, detail, data, errors, loads, said, stale>>
    BY <1>1 DEF CallServed
  <1>3. CASE ~Accepts(c.op, role, object)
    BY <1>1, <1>2, <1>3, RefusedStep DEF CallServed
  <1>4. CASE Accepts(c.op, role, object)
    <2>1. PICK o \in Made(c.op, role, object) :
              /\ object' = o
              /\ calls' = [calls EXCEPT ![flag] =
                    IF page = "attendance"
                    THEN [c EXCEPT !.phase = "accepted", !.row = SeenRow(o)]
                    ELSE [c EXCEPT !.phase = "accepted",
                                   !.copy = IF flag = "isActing" THEN Seen(o) ELSE @]]
      BY <1>1, <1>4 DEF CallServed
    <2>2. got' = IF c.op.name \in {"report", "result"} THEN got \cup {c.op.arg} ELSE got
      BY <1>1, <1>4 DEF CallServed
    <2> QED
      BY <1>1, <1>2, <1>4, <2>1, <2>2, AcceptedStep
  <1> QED
    BY <1>3, <1>4

\* An answer that changes the life cycle loads the page again.
LEMMA LifecycleAnsweredStep ==
    ASSUME DetailIInv, CallAnswered("lifecycleBusy")
    PROVE  DetailIInv'
  <1>1. PICK c : c = calls["lifecycleBusy"]
    OBVIOUS
  <1>2. /\ c # None /\ c.phase = "accepted" /\ "lifecycleBusy" \in Flag /\ c \in CallRow
        /\ page = "event" /\ role = "maker" /\ c.op \in LifecycleCalls
        /\ calls \in [Flag -> CallRow \cup {None}] /\ loads \in [Hook -> Load \cup {None}]
    BY <1>1 DEF CallAnswered, DetailIInv, DetailTypeOK, FlagsOK, Flag
  <1>3. c.op.name \in {"cancel", "complete"}
    BY <1>2, Names
  <1>4. /\ loads["detail"] = None
        /\ calls' = [calls EXCEPT !["lifecycleBusy"].phase = "refresh"]
        /\ loads' = [loads EXCEPT !["detail"] = NewLoad] /\ errors' = errors \ {"detail"}
        /\ UNCHANGED <<page, role, object, started, detail, data, said, got>>
        /\ stale' = stale
    BY <1>1, <1>2, <1>3, AnswersShown DEF CallAnswered, isLoading, Brought
  <1>5. PICK d : d = [c EXCEPT !.phase = "refresh"]
    OBVIOUS
  <1>6. d \in CallRow /\ d.op = c.op /\ d.phase = "refresh" /\ d # None
    BY <1>2, <1>5, NoDetailAssumption DEF CallRow
  <1>7. /\ calls' \in [Flag -> CallRow \cup {None}] /\ calls'["lifecycleBusy"] = d
        /\ \A f \in Flag \ {"lifecycleBusy"} : calls'[f] = calls[f]
        /\ loads' \in [Hook -> Load \cup {None}] /\ loads'["detail"] = NewLoad
        /\ loads'["data"] = loads["data"]
        /\ NewLoad # None /\ ~NewLoad.read
    BY <1>1, <1>2, <1>4, <1>5, <1>6, NewLoadTyped DEF Hook
  <1>8. /\ calls'["isActing"] = calls["isActing"]
        /\ calls'["selfReportSaving"] = calls["selfReportSaving"]
    BY <1>7 DEF Flag
  <1>9. DetailTypeOK'
    BY <1>1, <1>2, <1>4, <1>6, <1>7 DEF DetailIInv, DetailTypeOK
  <1>10. Idle' /\ ThingOK'
    BY <1>2, <1>4, PageAssumption DEF DetailIInv, Idle, ThingOK, AllPages
  <1>11. FlagsOK'
    BY <1>1, <1>2, <1>4, <1>6, <1>7 DEF DetailIInv, FlagsOK
  <1>12. SaidInv'
    <2>1. \A f \in Flag : Accepted(f)' => Accepted(f) /\ calls'[f] = calls[f]
      BY <1>6, <1>7 DEF Accepted
    <2>2. Accepted("selfReportSaving")' <=> Accepted("selfReportSaving")
      BY <1>8 DEF Accepted
    <2> QED
      BY <1>2, <1>4, <1>8, <2>1, <2>2 DEF DetailIInv, SaidInv
  <1>13. LoadsInv'
    <2>1. detail # None
      BY <1>1, <1>2 DEF DetailIInv, LoadsInv
    <2>2. \A h \in Hook : loads'[h] # None => h \notin errors'
      BY <1>4, <1>7 DEF DetailIInv, LoadsInv, Hook
    <2> QED
      BY <1>2, <1>4, <1>6, <1>7, <2>1, <2>2 DEF DetailIInv, LoadsInv
  <1>13a. ReadInv'
    BY <1>4, <1>7 DEF DetailIInv, ReadInv
  <1>14. CopyInv'
    BY <1>2, <1>4, <1>7, <1>8 DEF DetailIInv, CopyInv, Accepted
  <1> QED
    BY <1>9, <1>10, <1>11, <1>12, <1>13, <1>13a, <1>14 DEF DetailIInv

\* Any other answer is the end of its call.
LEMMA CallAnsweredStep ==
    ASSUME DetailIInv, NEW flag \in Flag, CallAnswered(flag)
    PROVE  DetailIInv'
  <1>1. CASE flag = "lifecycleBusy"
    BY <1>1, LifecycleAnsweredStep
  <1>2. CASE flag \in {"isActing", "selfReportSaving"}
    <2>1. PICK c : c = calls[flag]
      OBVIOUS
    <2>2. /\ c # None /\ c.phase = "accepted"
          /\ page' = IF c.op.name = "block" THEN "left" ELSE page
          /\ calls' = [calls EXCEPT ![flag] = None]
          /\ detail' = IF page = "attendance" \/ flag # "isActing" THEN detail ELSE c.copy
          /\ data' = IF page = "attendance" /\ data # None THEN c.row ELSE data
          /\ said' = IF c.op.name \in {"report", "result"} THEN c.op.arg ELSE said
          /\ stale' = (stale \ Answers(flag)) \cup (c.late \cap Answers(flag))
          /\ UNCHANGED <<role, object, started, errors, loads, got>>
      BY <1>2, <2>1 DEF CallAnswered, Brought
    <2>3. /\ page \in AllPages /\ c \in CallRow /\ c.op \in CallsOf[page]
          /\ page # "event" => flag = "isActing"
          /\ flag = "isActing" => c.op.name # "report"
          /\ calls \in [Flag -> CallRow \cup {None}]
      BY <2>1, <2>2, InFlight DEF DetailIInv, DetailTypeOK
    <2>4. /\ c.op.name = "block" => page = "profile"
          /\ c.op.name = "report" => page = "event" /\ c.op.arg \in Mark
          /\ c.op.name = "result" => page = "challenge" /\ flag = "isActing" /\ c.op.arg \in Mark
          /\ flag = "selfReportSaving" => page = "event" /\ c.op.name = "report"
      <3>1. c.op.name \in {"block", "report", "result"} =>
                \/ page = "profile" /\ c.op.name = "block"
                \/ page = "event" /\ c.op.name = "report" /\ c.op.arg \in Mark
                \/ page = "challenge" /\ c.op.name = "result" /\ c.op.arg \in Mark
        BY <2>3, Pages, Names DEF AllPages, Mark, AttendanceStatus
      <3>2. flag = "selfReportSaving" => page = "event" /\ c.op \in ReportCalls
        BY <2>1, <2>2 DEF DetailIInv, FlagsOK
      <3> QED
        BY <1>2, <2>3, <3>1, <3>2, Names
    <2>5. /\ calls' \in [Flag -> CallRow \cup {None}] /\ calls'[flag] = None
          /\ \A f \in Flag \ {flag} : calls'[f] = calls[f]
          /\ calls'["lifecycleBusy"] = calls["lifecycleBusy"]
      BY <1>2, <2>2, <2>3 DEF Flag
    <2>6. /\ Accepted(flag) /\ ~Accepted(flag)'
          /\ \A f \in Flag \ {flag} : Accepted(f)' <=> Accepted(f)
          /\ \A f \in Flag : Accepted(f)' => Accepted(f) /\ calls'[f] = calls[f]
          /\ Accepted("lifecycleBusy")' <=> Accepted("lifecycleBusy")
      BY <2>1, <2>2, <2>5 DEF Accepted
    <2>7. /\ page' = page \/ (page' = "left" /\ page = "profile")
          /\ page' \in AllPages => page' = page
      BY <2>2, <2>4 DEF AllPages
    <2>7a. ASSUME page = "profile", NEW f \in Flag
           PROVE  calls'[f] = None
      <3>1. CASE f = flag
        BY <2>5, <3>1
      <3>2. CASE f # flag
        <4>1. calls[f] # None => f = "isActing"
          BY <2>7a, InFlight
        <4> QED
          BY <2>3, <2>5, <2>7a, <3>2, <4>1
      <3> QED
        BY <3>1, <3>2
    <2>8. DetailTypeOK'
      <3>1. detail' \in Copy \cup {None} /\ data' \in RowCopy \cup {None} /\ said' \in Mark
        BY <2>2, <2>3, <2>4 DEF DetailIInv, DetailTypeOK, CallRow
      <3>2. page' \in Page \cup {None, "left"}
        BY <2>7 DEF DetailIInv, DetailTypeOK
      <3>3. page' \in AllPages => \A f \in Flag : calls'[f] # None => calls'[f].op \in CallsOf[page']
        BY <2>5, <2>7 DEF DetailIInv, DetailTypeOK
      <3>4. stale' \in SUBSET Displayed
        BY <2>2, AnswersShown DEF DetailIInv, DetailTypeOK
      <3> QED
        BY <2>2, <2>5, <3>1, <3>2, <3>3, <3>4 DEF DetailIInv, DetailTypeOK
    <2>9. Idle'
      <3>1. page' = "left" => \A f \in Flag : calls'[f] = None
        <4>1. page' = "left" => page = "profile"
          BY <2>3, <2>7 DEF AllPages
        <4> QED
          BY <2>7a, <4>1
      <3>2. page \in AllPages /\ page # None /\ "left" # None
        BY <2>3, PageAssumption, NoDetailAssumption
      <3> QED
        BY <2>2, <2>3, <2>7, <3>1, <3>2 DEF DetailIInv, Idle
    <2>10. ThingOK'
      BY <2>2, <2>7 DEF DetailIInv, ThingOK
    <2>11. FlagsOK'
      <3>1. page' = page \/ (\A f \in Flag : calls'[f] = None)
        BY <2>7, <2>7a
      <3> QED
        BY <2>2, <2>5, <3>1 DEF DetailIInv, FlagsOK
    <2>12. SaidInv'
      <3>0. \A f \in Flag : Accepted(f)' /\ calls'[f].op.name \in {"report", "result"} =>
                calls'[f].op.arg \in got'
        BY <2>2, <2>6 DEF DetailIInv, SaidInv
      <3>1. CASE c.op.name = "result"
        <4>1. c.op.arg \in got
          BY <2>1, <2>6, <3>1 DEF DetailIInv, SaidInv
        <4>2. ~Accepted("isActing")' /\ page' = page /\ page = "challenge" /\ object.mine = c.op.arg
          BY <2>1, <2>2, <2>4, <2>6, <2>7, <3>1 DEF DetailIInv, SaidInv
        <4> QED
          BY <2>2, <3>0, <3>1, <4>1, <4>2 DEF SaidInv
      <3>2. CASE c.op.name = "report"
        <4>1. flag = "selfReportSaving" /\ page = "event" /\ page' = "event"
          BY <1>2, <2>2, <2>3, <2>4, <3>2
        <4>2. c.op.arg \in got
          BY <2>1, <2>6, <3>2 DEF DetailIInv, SaidInv
        <4>3. "said" \notin c.late => object.mine = c.op.arg
          BY <2>1, <2>6, <4>1 DEF DetailIInv, SaidInv
        <4>4. "said" \in c.late => "said" \in stale'
          BY <2>2, <4>1, AnswersShown
        <4> QED
          BY <2>2, <2>6, <3>0, <3>2, <4>1, <4>2, <4>3, <4>4 DEF SaidInv
      <3>3. CASE c.op.name \notin {"report", "result"}
        <4>1. flag = "isActing" /\ said' = said
          BY <1>2, <2>2, <2>4, <3>3
        <4>2. /\ calls'["selfReportSaving"] = calls["selfReportSaving"]
              /\ Accepted("selfReportSaving")' <=> Accepted("selfReportSaving")
          BY <2>5, <2>6, <4>1 DEF Flag
        <4>3. "said" \in stale => "said" \in stale'
          BY <2>1, <2>2, <3>3, <4>1, AnswersShown
        <4> QED
          BY <2>2, <2>6, <2>7, <3>0, <4>1, <4>2, <4>3 DEF DetailIInv, SaidInv
      <3> QED
        BY <3>1, <3>2, <3>3
    <2>13. LoadsInv' /\ ReadInv'
      <3>1. page = "attendance" => flag = "isActing"
        BY <2>3
      <3>2. page = "attendance" => data # None /\ data' # None
        BY <2>1, <2>2, <2>3, <3>1, NoDetailAssumption DEF DetailIInv, LoadsInv, CallRow
      <3>2a. page # "attendance" => detail # None /\ detail' # None
        BY <2>1, <2>2, <2>3, NoDetailAssumption DEF DetailIInv, LoadsInv, CallRow
      <3>3. loads["data"] = None /\ "data" \notin errors
        BY <3>2 DEF DetailIInv, LoadsInv
      <3>4. page = "profile" => loads["detail"] = None /\ errors = {}
        BY DEF DetailIInv, Idle, Hook
      <3>5. page = "attendance" => detail' = detail
        BY <2>2
      <3>5a. \A f \in Flag : calls[f] = None => calls'[f] = None
        BY <2>5
      <3>6. loads["detail"] # None =>
                \/ detail' = None /\ page = "attendance"
                \/ /\ page = "event" /\ calls'["lifecycleBusy"] # None
                   /\ calls'["lifecycleBusy"].phase = "refresh"
        BY <2>5, <3>2a, <3>5 DEF DetailIInv, LoadsInv
      <3>7. page' # page => page = "profile" /\ page' = "left"
        BY <2>7
      <3>8. "detail" \in errors /\ page # "event" => page = "attendance" /\ detail' = None
        BY <3>2a, <3>5 DEF DetailIInv, LoadsInv
      <3>9. LoadsInv'
        <4>1. CASE page' = page
          BY <2>2, <3>2, <3>2a, <3>3, <3>6, <3>8, <4>1 DEF DetailIInv, LoadsInv
        <4>2. CASE page = "profile" /\ page' = "left"
          BY <2>2, <3>2a, <3>3, <3>4, <4>2 DEF DetailIInv, LoadsInv, Hook
        <4> QED
          BY <3>7, <4>1, <4>2
      <3>10. ReadInv'
        BY <2>2 DEF DetailIInv, ReadInv
      <3> QED
        BY <3>9, <3>10
    <2>14. CopyInv'
      <3> SUFFICES ASSUME page' = page
                   PROVE  CopyInv'
        BY <2>2, <2>7 DEF CopyInv
      <3>1. CASE flag = "isActing" /\ page # "attendance"
        <4>1. "detail" \notin stale' => detail' = Seen(object)
          BY <2>1, <2>2, <2>3, <2>6, <3>1, AnswersShown DEF DetailIInv, CopyInv
        <4> QED
          BY <2>2, <2>6, <3>1, <4>1 DEF CopyInv
      <3>2. CASE flag = "isActing" /\ page = "attendance"
        <4>1. data # None
          BY <2>1, <2>2, <3>2 DEF DetailIInv, LoadsInv
        <4>2. "data" \notin stale' => data' = SeenRow(object)
          <5>1. Answers(flag) = {"data"} /\ data' = c.row
            BY <2>2, <3>2, <4>1, AnswersShown
          <5>2. "data" \notin c.late => c.row = SeenRow(object)
            BY <2>1, <2>3, <2>6, <3>2 DEF DetailIInv, CopyInv
          <5>3. "data" \notin stale' => "data" \notin c.late
            BY <2>2, <5>1
          <5> QED
            BY <5>1, <5>2, <5>3
        <4>3. detail' = detail /\ ("detail" \in stale => "detail" \in stale')
          BY <2>2, <3>2, AnswersShown
        <4> QED
          BY <2>2, <2>3, <2>6, <3>2, <4>2, <4>3 DEF DetailIInv, CopyInv
      <3>3. CASE flag = "selfReportSaving"
        <4>1. /\ page = "event" /\ calls'["isActing"] = calls["isActing"]
              /\ Accepted("isActing")' <=> Accepted("isActing")
          BY <2>4, <2>5, <2>6, <3>3 DEF Flag
        <4>2. "detail" \in stale => "detail" \in stale'
          BY <2>2, <3>3, <4>1, AnswersShown
        <4> QED
          BY <2>2, <2>3, <2>6, <3>3, <4>1, <4>2 DEF DetailIInv, CopyInv
      <3> QED
        BY <1>2, <3>1, <3>2, <3>3
    <2> QED
      BY <2>8, <2>9, <2>10, <2>11, <2>12, <2>13, <2>14 DEF DetailIInv
  <1> QED
    BY <1>1, <1>2 DEF Flag

\* A call that fails after it was accepted leaves stale what its answer would have
\* brought.
LEMMA CallFailedStep ==
    ASSUME DetailIInv, NEW flag \in Flag, CallFailed(flag)
    PROVE  DetailIInv'
  <1>1. /\ calls[flag] # None /\ calls[flag].phase # "refresh"
        /\ calls' = [calls EXCEPT ![flag] = None]
        /\ stale' = IF calls[flag].phase # "accepted" THEN stale
                    ELSE stale \cup IF flag = "lifecycleBusy" THEN {"detail"} ELSE Answers(flag)
        /\ UNCHANGED <<page, role, object, started, detail, data, errors, loads, said, got>>
        /\ calls \in [Flag -> CallRow \cup {None}]
    BY DEF CallFailed, Missed, DetailIInv, DetailTypeOK
  <1>2. /\ calls' \in [Flag -> CallRow \cup {None}] /\ calls'[flag] = None
        /\ \A f \in Flag \ {flag} : calls'[f] = calls[f]
        /\ \A f \in Flag : calls'[f] = None \/ calls'[f] = calls[f]
    BY <1>1
  <1>3. /\ \A f \in Flag : Accepted(f)' => Accepted(f) /\ calls'[f] = calls[f]
        /\ \A f \in Flag : Accepted(f) /\ ~Accepted(f)' => f = flag
        /\ stale \subseteq stale'
    BY <1>1, <1>2 DEF Accepted
  <1>3a. /\ page \in AllPages /\ (page # "event" => flag = "isActing")
         /\ page # "attendance" /\ Accepted("isActing") /\ ~Accepted("isActing")' =>
                "detail" \in stale'
         /\ page = "attendance" /\ Accepted("isActing") /\ ~Accepted("isActing")' =>
                "data" \in stale'
         /\ Accepted("lifecycleBusy") /\ ~Accepted("lifecycleBusy")' => "detail" \in stale'
         /\ page = "event" /\ Accepted("selfReportSaving") /\ ~Accepted("selfReportSaving")' =>
                "said" \in stale'
    BY <1>1, <1>3, AnswersShown, InFlight DEF Accepted, Flag
  <1>4. DetailTypeOK'
    <2>1. stale' \in SUBSET Displayed
      BY <1>1, AnswersShown DEF DetailIInv, DetailTypeOK, Displayed, Hook
    <2> QED
      BY <1>1, <1>2, <2>1 DEF DetailIInv, DetailTypeOK
  <1>5. Idle' /\ ThingOK'
    BY <1>1, <1>2 DEF DetailIInv, Idle, ThingOK
  <1>6. FlagsOK'
    BY <1>1, <1>2 DEF DetailIInv, FlagsOK
  <1>7. SaidInv'
    BY <1>1, <1>3, <1>3a DEF DetailIInv, SaidInv, Flag
  <1>8. LoadsInv' /\ ReadInv'
    <2>1. calls["lifecycleBusy"] # None /\ calls["lifecycleBusy"].phase = "refresh" =>
              calls'["lifecycleBusy"] = calls["lifecycleBusy"]
      BY <1>1, <1>2 DEF Flag
    <2>2. \A f \in Flag : calls[f] = None => calls'[f] = None
      BY <1>2
    <2> QED
      BY <1>1, <2>1, <2>2 DEF DetailIInv, LoadsInv, ReadInv, Flag
  <1>9. CopyInv'
    BY <1>1, <1>3, <1>3a DEF DetailIInv, CopyInv, Flag
  <1> QED
    BY <1>4, <1>5, <1>6, <1>7, <1>8, <1>9 DEF DetailIInv

\* What another's act leaves of the loads and the calls: they only learn that it came
\* after them.
LEMMA OthersSawKeeps ==
    ASSUME DetailIInv, OthersSaw, Aside
    PROVE  /\ UNCHANGED <<page, role, detail, data, errors, said, got>>
           /\ stale' = stale \cup Overwritten
           /\ loads' \in [Hook -> Load \cup {None}] /\ calls' \in [Flag -> CallRow \cup {None}]
           /\ \A h \in Hook : loads'[h] = None <=> loads[h] = None
           /\ \A h \in Hook : loads[h] # None =>
                 /\ loads'[h].read = loads[h].read /\ loads'[h].copy = loads[h].copy
                 /\ loads'[h].row = loads[h].row
                 /\ loads[h].late \subseteq loads'[h].late
                 /\ loads[h].read => Overwritten \cap {h} \subseteq loads'[h].late
           /\ \A f \in Flag : calls'[f] = None <=> calls[f] = None
           /\ \A f \in Flag : calls[f] # None =>
                 /\ calls'[f].op = calls[f].op /\ calls'[f].phase = calls[f].phase
                 /\ calls'[f].copy = calls[f].copy /\ calls'[f].row = calls[f].row
                 /\ calls[f].late \subseteq calls'[f].late
                 /\ Accepted(f) => Overwritten \cap Answers(f) \subseteq calls'[f].late
  <1> DEFINE W == Overwritten
             L(h) == [loads[h] EXCEPT !.late = @ \cup (W \cap {h})]
             C(f) == [calls[f] EXCEPT !.late = @ \cup (W \cap Answers(f))]
  <1>1. /\ stale' = stale \cup W
        /\ loads' = [h \in Hook |-> IF loads[h] # None /\ loads[h].read THEN L(h) ELSE loads[h]]
        /\ calls' = [f \in Flag |-> IF calls[f] # None /\ calls[f].phase = "accepted" THEN C(f)
                                    ELSE calls[f]]
    BY DEF OthersSaw
  <1>2. /\ W \subseteq Displayed
        /\ loads \in [Hook -> Load \cup {None}] /\ calls \in [Flag -> CallRow \cup {None}]
    BY DEF Overwritten, DetailIInv, DetailTypeOK
  <1> HIDE DEF W
  <1>3. ASSUME NEW h \in Hook, loads[h] # None
        PROVE  /\ L(h) \in Load /\ L(h) # None
               /\ L(h).read = loads[h].read /\ L(h).copy = loads[h].copy /\ L(h).row = loads[h].row
               /\ loads[h].late \subseteq L(h).late /\ W \cap {h} \subseteq L(h).late
    <2>1. PICK l \in Load : l = loads[h]
      BY <1>2, <1>3
    <2>2. PICK m : m = [l EXCEPT !.late = l.late \cup (W \cap {h})]
      OBVIOUS
    <2>3. /\ m \in Load /\ m.read = l.read /\ m.copy = l.copy /\ m.row = l.row
          /\ l.late \subseteq m.late /\ W \cap {h} \subseteq m.late
      BY <1>2, <2>2 DEF Load
    <2> QED
      BY <2>1, <2>2, <2>3, NoDetailAssumption
  <1>4. ASSUME NEW f \in Flag, calls[f] # None
        PROVE  /\ C(f) \in CallRow /\ C(f) # None
               /\ C(f).op = calls[f].op /\ C(f).phase = calls[f].phase
               /\ C(f).copy = calls[f].copy /\ C(f).row = calls[f].row
               /\ calls[f].late \subseteq C(f).late /\ W \cap Answers(f) \subseteq C(f).late
    <2>1. PICK c \in CallRow : c = calls[f]
      BY <1>2, <1>4
    <2>1a. PICK a : a = W \cap Answers(f)
      OBVIOUS
    <2>2. PICK d : d = [c EXCEPT !.late = c.late \cup a]
      OBVIOUS
    <2>3. /\ d \in CallRow /\ d.op = c.op /\ d.phase = c.phase /\ d.copy = c.copy /\ d.row = c.row
          /\ c.late \subseteq d.late /\ a \subseteq d.late
      BY <1>2, <2>1a, <2>2 DEF CallRow
    <2> QED
      BY <2>1, <2>1a, <2>2, <2>3, NoDetailAssumption
  <1> HIDE DEF L, C
  <1>5. /\ loads' \in [Hook -> Load \cup {None}]
        /\ \A h \in Hook : loads'[h] = None <=> loads[h] = None
        /\ \A h \in Hook : loads[h] # None =>
              /\ loads'[h].read = loads[h].read /\ loads'[h].copy = loads[h].copy
              /\ loads'[h].row = loads[h].row
              /\ loads[h].late \subseteq loads'[h].late
              /\ loads[h].read => W \cap {h} \subseteq loads'[h].late
    BY <1>1, <1>2, <1>3
  <1>6. /\ calls' \in [Flag -> CallRow \cup {None}]
        /\ \A f \in Flag : calls'[f] = None <=> calls[f] = None
        /\ \A f \in Flag : calls[f] # None =>
              /\ calls'[f].op = calls[f].op /\ calls'[f].phase = calls[f].phase
              /\ calls'[f].copy = calls[f].copy /\ calls'[f].row = calls[f].row
              /\ calls[f].late \subseteq calls'[f].late
              /\ Accepted(f) => W \cap Answers(f) \subseteq calls'[f].late
    BY <1>1, <1>2, <1>4 DEF Accepted
  <1>7. UNCHANGED <<page, role, detail, data, errors, said, got>>
    BY DEF Aside
  <1> QED
    BY <1>1, <1>5, <1>6, <1>7 DEF W

\* Whatever another does to the thing, an accepted result stays, and the host is in
\* his own game; what it makes of the copies is stale.
LEMMA AnotherStep ==
    ASSUME DetailIInv, page \in AllPages, object' \in Thing, object'.status \in StatusOf[page],
           page \in {"event", "challenge"} => object'.joined = object.joined,
           page = "challenge" => object'.mine = object.mine,
           UNCHANGED started, OthersSaw, Aside
    PROVE  DetailIInv'
  <1>1. /\ UNCHANGED <<page, role, started, detail, data, errors, said, got>>
        /\ stale' = stale \cup Overwritten
        /\ loads' \in [Hook -> Load \cup {None}] /\ calls' \in [Flag -> CallRow \cup {None}]
        /\ \A h \in Hook : loads'[h] = None <=> loads[h] = None
        /\ \A h \in Hook : loads[h] # None =>
              /\ loads'[h].read = loads[h].read /\ loads'[h].copy = loads[h].copy
              /\ loads'[h].row = loads[h].row
              /\ loads[h].late \subseteq loads'[h].late
              /\ loads[h].read => Overwritten \cap {h} \subseteq loads'[h].late
        /\ \A f \in Flag : calls'[f] = None <=> calls[f] = None
        /\ \A f \in Flag : calls[f] # None =>
              /\ calls'[f].op = calls[f].op /\ calls'[f].phase = calls[f].phase
              /\ calls'[f].copy = calls[f].copy /\ calls'[f].row = calls[f].row
              /\ calls[f].late \subseteq calls'[f].late
              /\ Accepted(f) => Overwritten \cap Answers(f) \subseteq calls'[f].late
    BY OthersSawKeeps
  <1>2. \A f \in Flag : Accepted(f)' <=> Accepted(f)
    BY <1>1 DEF Accepted
  <1>3. /\ "detail" \notin Overwritten => Seen(object') = Seen(object)
        /\ "data" \notin Overwritten /\ page = "attendance" => SeenRow(object') = SeenRow(object)
        /\ "said" \notin Overwritten /\ page = "event" => object'.mine = object.mine
    BY DEF Overwritten, View, Displayed, Hook
  <1>4. /\ "detail" \in Hook /\ "data" \in Hook
        /\ "isActing" \in Flag /\ "lifecycleBusy" \in Flag /\ "selfReportSaving" \in Flag
    BY DEF Hook, Flag
  <1>5. DetailTypeOK'
    <2>1. stale' \in SUBSET Displayed
      BY <1>1 DEF Overwritten, DetailIInv, DetailTypeOK
    <2> QED
      BY <1>1, <2>1 DEF DetailIInv, DetailTypeOK
  <1>6. Idle' /\ ThingOK'
    BY <1>1 DEF DetailIInv, Idle, ThingOK
  <1>7. FlagsOK'
    BY <1>1, <1>4 DEF DetailIInv, FlagsOK
  <1>8. SaidInv'
    <2>1. \A f \in Flag : Accepted(f)' /\ calls'[f].op.name \in {"report", "result"} =>
              calls'[f].op.arg \in got'
      BY <1>1, <1>2 DEF DetailIInv, SaidInv, Accepted
    <2>2. CASE page = "event"
      <3>1. Accepted("selfReportSaving") /\ "said" \notin calls'["selfReportSaving"].late =>
                "said" \notin Overwritten /\ "said" \notin calls["selfReportSaving"].late
        BY <1>1, <1>4, <2>2, AnswersShown DEF Accepted
      <3>2. Accepted("selfReportSaving")' /\ "said" \notin calls'["selfReportSaving"].late =>
                object'.mine = calls'["selfReportSaving"].op.arg
        BY <1>1, <1>2, <1>3, <1>4, <2>2, <3>1 DEF DetailIInv, SaidInv, Accepted
      <3>3. said' # "pending" =>
                object'.mine = said' \/ "said" \in stale' \/ Accepted("selfReportSaving")'
        BY <1>1, <1>2, <1>3, <1>4, <2>2 DEF DetailIInv, SaidInv
      <3> QED
        BY <1>1, <2>1, <2>2, <3>2, <3>3 DEF DetailIInv, SaidInv
    <2>3. CASE page = "challenge"
      <3>1. Accepted("isActing")' /\ calls'["isActing"].op.name = "result" =>
                object'.mine = calls'["isActing"].op.arg
        BY <1>1, <1>2, <1>4, <2>3 DEF DetailIInv, SaidInv, Accepted
      <3> QED
        BY <1>1, <2>1, <2>3, <3>1 DEF DetailIInv, SaidInv
    <2>4. CASE page \notin {"event", "challenge"}
      BY <1>1, <2>1, <2>4 DEF DetailIInv, SaidInv
    <2> QED
      BY <2>2, <2>3, <2>4
  <1>9. LoadsInv'
    <2>1. /\ calls["lifecycleBusy"] # None => calls'["lifecycleBusy"] # None
                                    /\ calls'["lifecycleBusy"].phase = calls["lifecycleBusy"].phase
          /\ calls'["isActing"] = None <=> calls["isActing"] = None
          /\ loads'["detail"] = None <=> loads["detail"] = None
          /\ loads'["data"] = None <=> loads["data"] = None
      BY <1>1, <1>4
    <2> QED
      BY <1>1, <2>1 DEF DetailIInv, LoadsInv
  <1>10. ReadInv'
    <2>1. ASSUME loads'["detail"] # None, loads'["detail"].read,
                 "detail" \notin loads'["detail"].late
          PROVE  loads'["detail"].copy = Seen(object')
      <3>1. /\ loads["detail"] # None /\ loads["detail"].read /\ "detail" \notin loads["detail"].late
            /\ "detail" \notin Overwritten /\ loads'["detail"].copy = loads["detail"].copy
        BY <1>1, <1>4, <2>1
      <3> QED
        BY <1>3, <3>1 DEF DetailIInv, ReadInv
    <2>2. ASSUME loads'["data"] # None, loads'["data"].read, "data" \notin loads'["data"].late
          PROVE  loads'["data"].row = SeenRow(object')
      <3>1. /\ loads["data"] # None /\ loads["data"].read /\ "data" \notin loads["data"].late
            /\ "data" \notin Overwritten /\ loads'["data"].row = loads["data"].row
        BY <1>1, <1>4, <2>2
      <3>2. page = "attendance"
        BY <3>1 DEF DetailIInv, LoadsInv
      <3> QED
        BY <1>3, <3>1, <3>2 DEF DetailIInv, ReadInv
    <2> QED
      BY <2>1, <2>2 DEF ReadInv
  <1>11. CopyInv'
    <2>1. ASSUME page # "attendance", Accepted("isActing"), "detail" \notin calls'["isActing"].late
          PROVE  calls'["isActing"].copy = Seen(object')
      <3>1. /\ "detail" \notin Overwritten /\ "detail" \notin calls["isActing"].late
            /\ calls'["isActing"].copy = calls["isActing"].copy
        BY <1>1, <1>4, <2>1, AnswersShown DEF Accepted
      <3> QED
        BY <1>3, <2>1, <3>1 DEF DetailIInv, CopyInv
    <2>2. ASSUME page = "attendance", Accepted("isActing"), "data" \notin calls'["isActing"].late
          PROVE  calls'["isActing"].row = SeenRow(object')
      <3>1. /\ "data" \notin Overwritten /\ "data" \notin calls["isActing"].late
            /\ calls'["isActing"].row = calls["isActing"].row
        BY <1>1, <1>4, <2>2, AnswersShown DEF Accepted
      <3> QED
        BY <1>3, <2>2, <3>1 DEF DetailIInv, CopyInv
    <2>3. \/ detail' = Seen(object')
          \/ "detail" \in stale'
          \/ loads'["detail"] # None
          \/ page # "attendance" /\ Accepted("isActing")
          \/ Accepted("lifecycleBusy")
      BY <1>1, <1>3, <1>4 DEF DetailIInv, CopyInv
    <2>4. page = "attendance" =>
              \/ data' = SeenRow(object')
              \/ "data" \in stale'
              \/ loads'["data"] # None
              \/ Accepted("isActing")
      BY <1>1, <1>3, <1>4 DEF DetailIInv, CopyInv
    <2> QED
      BY <1>1, <1>2, <1>4, <2>1, <2>2, <2>3, <2>4 DEF CopyInv
  <1> QED
    BY <1>5, <1>6, <1>7, <1>8, <1>9, <1>10, <1>11 DEF DetailIInv

\* Somebody else's act leaves a thing of the page.
LEMMA OtherActsStep ==
    ASSUME DetailIInv, page \in AllPages, NEW op \in CallsOf[page], OtherActs(op)
    PROVE  DetailIInv'
  <1> DEFINE who == OtherRole[role]
  <1>1. /\ op \notin GameCalls \cup ReportCalls
        /\ page \in {"booking", "event", "challenge"} /\ Accepts(op, who, object)
        /\ object' \in Made(op, who, object)
        /\ UNCHANGED started /\ OthersSaw /\ Aside
    BY DEF OtherActs
  <1>2. /\ who # role /\ object \in Thing /\ object.status \in StatusOf[page]
    BY DEF DetailIInv, DetailTypeOK, ThingOK, OtherRole, Role
  <1> HIDE DEF who
  <1>3. Leaves(op, who, object')
    BY <1>1, <1>2, AllLeave
  <1>4. page = "event" => op.name \in {"cancel", "complete"}
    BY <1>1, Pages, Names
  <1>5. page = "challenge" => op.name \in {"accept", "decline", "cancel", "result"}
    BY Pages, Names
  <1> QED
    BY <1>1, <1>2, <1>3, <1>4, <1>5, AnotherStep DEF Leaves

\* So does what else others do to the thing.
LEMMA OthersChangeStep ==
    ASSUME DetailIInv, OthersChange
    PROVE  DetailIInv'
  <1>1. object \in Thing /\ UNCHANGED started /\ OthersSaw /\ Aside
    BY DEF OthersChange, DetailIInv, DetailTypeOK
  <1>2. CASE page \in {"event", "tournament", "attendance"} /\ object.status \in {"open", "full"}
             /\ object' \in {[object EXCEPT !.status = s] : s \in {"open", "full"}}
    <2>1. PICK s \in {"open", "full"} : object' = [object EXCEPT !.status = s]
      BY <1>2
    <2>2. s \in StatusOf[page] /\ s \in UNION {StatusOf[p] : p \in AllPages} /\ page \in AllPages
      BY <1>2, <2>1, Pages DEF EventStatus, TournamentStatus, AllPages
    <2>3. object' \in Thing /\ object'.status = s /\ object'.joined = object.joined
      BY <1>1, <2>1, <2>2 DEF Thing
    <2> QED
      BY <1>1, <1>2, <2>2, <2>3, AnotherStep
  <1>3. CASE page \in {"event", "attendance"}
             /\ object' \in {[object EXCEPT !.mine = m] : m \in AttendanceStatus}
    <2>1. PICK m \in AttendanceStatus : object' = [object EXCEPT !.mine = m]
      BY <1>3
    <2>2. object' \in Thing /\ object'.status = object.status /\ object'.joined = object.joined
      BY <1>1, <2>1 DEF Thing, Mark
    <2>3. page \in AllPages /\ object.status \in StatusOf[page]
      BY <1>3 DEF DetailIInv, ThingOK, AllPages
    <2> QED
      BY <1>1, <1>3, <2>2, <2>3, AnotherStep
  <1>4. CASE page = "attendance" /\ object' = [object EXCEPT !.joined = FALSE, !.status = "open"]
    <2>1. "open" \in StatusOf[page] /\ "open" \in UNION {StatusOf[p] : p \in AllPages}
          /\ page \in AllPages
      BY <1>4, Pages DEF EventStatus, AllPages
    <2>2. object' \in Thing /\ object'.status = "open"
      BY <1>1, <1>4, <2>1 DEF Thing
    <2> QED
      BY <1>1, <1>4, <2>1, <2>2, AnotherStep
  <1>5. CASE page = "tournament"
             /\ object' \in {[object EXCEPT !.status = s] : s \in {"closed", "completed", "cancelled"}}
    <2>1. PICK s \in {"closed", "completed", "cancelled"} : object' = [object EXCEPT !.status = s]
      BY <1>5
    <2>2. s \in StatusOf[page] /\ s \in UNION {StatusOf[p] : p \in AllPages} /\ page \in AllPages
      BY <1>5, <2>1, Pages DEF TournamentStatus, AllPages
    <2>3. object' \in Thing /\ object'.status = s
      BY <1>1, <2>1, <2>2 DEF Thing
    <2> QED
      BY <1>1, <1>5, <2>2, <2>3, AnotherStep
  <1>6. SelfAttendanceStatus \subseteq AttendanceStatus
    BY DEF AttendanceStatus
  <1> QED
    BY <1>2, <1>3, <1>4, <1>5, <1>6 DEF OthersChange

\* The start of a game changes no copy.
LEMMA GameStartsStep ==
    ASSUME DetailIInv, GameStarts
    PROVE  DetailIInv'
  <1>1. /\ UNCHANGED <<page, role, object, detail, data, errors, loads, calls, said, got, stale>>
        /\ started' \in BOOLEAN
    BY DEF GameStarts, Aside
  <1>2. DetailTypeOK' /\ Idle' /\ ThingOK' /\ FlagsOK'
    BY <1>1 DEF DetailIInv, DetailTypeOK, Idle, ThingOK, FlagsOK
  <1>3. SaidInv' /\ LoadsInv' /\ ReadInv' /\ CopyInv'
    BY <1>1 DEF DetailIInv, SaidInv, LoadsInv, ReadInv, CopyInv, Accepted
  <1> QED
    BY <1>2, <1>3 DEF DetailIInv

\* What is not touched stays.
LEMMA DetailStutters ==
    ASSUME DetailIInv, UNCHANGED detailVars
    PROVE  DetailIInv'
  <1>1. UNCHANGED <<page, role, object, started, detail, data, errors, loads, calls, said,
                    got, stale>>
    BY DEF detailVars, historyVars
  <1>2. DetailTypeOK' /\ Idle' /\ ThingOK' /\ FlagsOK'
    BY <1>1 DEF DetailIInv, DetailTypeOK, Idle, ThingOK, FlagsOK
  <1>3. SaidInv' /\ LoadsInv' /\ ReadInv' /\ CopyInv'
    BY <1>1 DEF DetailIInv, SaidInv, LoadsInv, ReadInv, CopyInv, Accepted
  <1> QED
    BY <1>2, <1>3 DEF DetailIInv

\* At first no screen is open.
LEMMA DetailInitInv ==
    ASSUME DetailInit
    PROVE  DetailIInv
  <1>1. /\ page = None /\ role = "maker" /\ object = Blank /\ started = FALSE
        /\ detail = None /\ data = None /\ errors = {}
        /\ loads = [h \in Hook |-> None] /\ calls = [f \in Flag |-> None]
        /\ said = "pending" /\ got = {} /\ stale = {}
    BY DEF DetailInit
  <1>2. \A f \in Flag : calls[f] = None
    BY <1>1
  <1>3. loads["detail"] = None /\ loads["data"] = None
    BY <1>1 DEF Hook
  <1>4. /\ page \notin AllPages /\ page # "event" /\ page # "challenge" /\ page # "attendance"
        /\ page # "profile"
    BY <1>1, PageAssumption DEF AllPages
  <1>5. DetailTypeOK
    BY <1>1, <1>2, <1>4, BlankTyped DEF DetailTypeOK, Role, Mark, AttendanceStatus
  <1>6. Idle /\ ThingOK /\ FlagsOK
    BY <1>1, <1>2, <1>4 DEF Idle, ThingOK, FlagsOK
  <1>7. SaidInv /\ CopyInv
    BY <1>1, <1>2, <1>4 DEF SaidInv, CopyInv, Accepted
  <1>8. LoadsInv /\ ReadInv
    BY <1>1, <1>2, <1>3, <1>4 DEF LoadsInv, ReadInv
  <1> QED
    BY <1>5, <1>6, <1>7, <1>8 DEF DetailIInv

\* Every step keeps the invariant.
LEMMA DetailNextStep ==
    ASSUME DetailIInv, [DetailNext]_detailVars
    PROVE  DetailIInv'
  <1>1. ASSUME page = None, NEW p \in Page, NEW who \in Role, NEW begun \in BOOLEAN,
               NEW o \in Openable(p, who), OpenDetail(p, who, o, begun)
        PROVE  DetailIInv'
    BY <1>1, OpenDetailStep
  <1>2. ASSUME NEW hook \in Hook, LoadEnds(hook)
        PROVE  DetailIInv'
    BY <1>2, LoadReadStep, LoadOverStep DEF LoadEnds
  <1>3. ASSUME NEW flag \in Flag, CallEnds(flag)
        PROVE  DetailIInv'
    BY <1>3, CallServedStep, CallAnsweredStep, CallFailedStep DEF CallEnds
  <1>4. ASSUME page \in AllPages, NEW op \in CallsOf[page], Press(op) \/ OtherActs(op)
        PROVE  DetailIInv'
    BY <1>4, PressStep, OtherActsStep
  <1> QED
    BY <1>1, <1>2, <1>3, <1>4, RetryStep, OthersChangeStep, GameStartsStep, DetailStutters
       DEF DetailNext

\* The invariant of the screens of one thing: loads and calls in flight carry what the
\* server had, and the copy is up to date or about to be, unless another has changed
\* the thing since or an answer was lost.
THEOREM DetailInvariance == DetailSpec => []DetailIInv
  <1> QED
    BY DetailInitInv, DetailNextStep, PTL DEF DetailSpec

-----------------------------------------------------------------------------
(* What the screens offer, and what they say.                              *)

\* The offers of an event's screen, case by case.
LEMMA GameOffers ==
    ASSUME DetailIInv, Fresh, page = "event", NEW op \in DetailOffers
    PROVE  Accepts(op, role, object) \/ Unaware(op)
  <1>1. /\ detail.status = object.status /\ detail.joined = object.joined
        /\ object.status \in EventStatus /\ role \in Role
    BY SeenTyped, Pages DEF Fresh, DetailIInv, DetailTypeOK, ThingOK, AllPages
  <1>2. op \in CtaOffers \cup HostOffers \cup ReportOffers
    BY DEF DetailOffers, BattleOffers
  <1>3. SUFFICES EventAccepts(op, role, object) \/ Unaware(op)
    BY DEF Accepts
  <1>4. CASE op \in CtaOffers
    <2>1. ctaState \notin {"full", "disabled"}
          /\ op = Do(IF ctaState = "joined" THEN "leave" ELSE "join")
      BY <1>4 DEF CtaOffers
    <2>2. CASE object.joined
      <3>1. object.status \in {"open", "full"} /\ op.name = "leave"
        BY <1>1, <2>1, <2>2 DEF ctaState, Do, EventStatus
      <3> QED
        BY <1>1, <2>2, <3>1 DEF EventAccepts, Unaware, Role
    <2>3. CASE ~object.joined
      <3>1. object.status = "open" /\ op.name = "join"
        BY <1>1, <2>1, <2>3 DEF ctaState, Do, EventStatus
      <3> QED
        BY <1>1, <2>3, <3>1 DEF EventAccepts
    <2> QED
      BY <2>2, <2>3
  <1>5. CASE op \in HostOffers
    <2>1. role = "maker" /\ object.status \notin {"cancelled", "completed"}
          /\ (op = Do("cancel") \/ (op = Do("complete") /\ started))
      BY <1>1, <1>5 DEF HostOffers
    <2> QED
      BY <2>1 DEF EventAccepts, Do
  <1>6. CASE op \in ReportOffers
    <2>1. op \in ReportCalls /\ object.joined /\ attendanceOpen
      BY <1>1, <1>6 DEF ReportOffers
    <2>2. attendanceIsOpen(object)
      BY <1>1, <2>1 DEF attendanceOpen, attendanceIsOpen, EventStatus
    <2> QED
      BY <2>1, <2>2, Names DEF EventAccepts
  <1> QED
    BY <1>2, <1>4, <1>5, <1>6

\* Whatever a screen offers on an up-to-date copy the server accepts, with the named
\* exceptions, on every page, in every role and whatever the other flags stand for.
THEOREM OffersAccepted == DetailSpec => []OfferedIsAccepted
  <1>1. DetailIInv => OfferedIsAccepted
    <2> SUFFICES ASSUME DetailIInv, Fresh, NEW op \in DetailOffers
                 PROVE  Accepts(op, role, object) \/ Unaware(op)
      BY DEF OfferedIsAccepted
    <2>1. page \in AllPages
      BY DEF DetailOffers, AllPages
    <2>2. /\ detail.status = object.status /\ detail.joined = object.joined /\ detail # None
          /\ object.status \in StatusOf[page] /\ role \in Role
      BY <2>1, SeenTyped DEF Fresh, DetailIInv, DetailTypeOK, ThingOK
    <2>3. CASE page = "booking"
      <3>1. op \in BookingOffers
        BY <2>3 DEF DetailOffers
      <3>2. SUFFICES BookingAccepts(op, role, object) \/ Unaware(op)
        BY <2>3 DEF Accepts
      <3>3. CASE detail.status = "proposed"
        BY <2>2, <2>3, <3>1, <3>3 DEF BookingOffers, BookingAccepts, Unaware, Do, Role
      <3>4. CASE detail.status = "confirmed"
        BY <2>2, <3>1, <3>4 DEF BookingOffers, BookingAccepts, Do
      <3>5. CASE detail.status \notin {"proposed", "confirmed"}
        BY <3>1, <3>5 DEF BookingOffers
      <3> QED
        BY <3>3, <3>4, <3>5
    <2>4. CASE page = "event"
      BY <2>4, GameOffers
    <2>5. CASE page = "attendance"
      <3>1. /\ op \in MarkCalls /\ markable /\ data.joined
        BY <2>5 DEF DetailOffers, AttendanceOffers, ParticipantRowOffers
      <3>2. object.joined
        BY <2>5, <3>1, SeenTyped DEF Fresh, DetailIInv, DetailTypeOK
      <3>3. role = "maker" /\ attendanceOpen
        BY <2>2, <3>1 DEF markable
      <3>4. attendanceIsOpen(object)
        BY <2>2, <2>5, <3>3, Pages DEF attendanceOpen, attendanceIsOpen, EventStatus
      <3> QED
        BY <2>5, <3>1, <3>2, <3>3, <3>4, Names DEF Accepts, EventAccepts
    <2>6. CASE page = "challenge"
      <3>1. op \in ChallengeOffers
        BY <2>6 DEF DetailOffers
      <3>2. SUFFICES ChallengeAccepts(op, role, object) \/ Unaware(op)
        BY <2>6 DEF Accepts
      <3>3. CASE detail.status = "pending"
        BY <2>2, <3>1, <3>3 DEF ChallengeOffers, ChallengeAccepts, Do, Role
      <3>4. CASE detail.status = "accepted"
        <4>1. op.name = "result"
          BY <3>1, <3>4 DEF ChallengeOffers, ResultFormOffers
        <4> QED
          BY <2>2, <3>4, <4>1 DEF ChallengeAccepts, Unaware
      <3>5. CASE detail.status \notin {"pending", "accepted"}
        BY <3>1, <3>5 DEF ChallengeOffers
      <3> QED
        BY <3>3, <3>4, <3>5
    <2>7. CASE page = "tournament"
      <3>1. op \in TournamentOffers
        BY <2>7 DEF DetailOffers
      <3>2. \/ isJoinable /\ op = Do("join")
            \/ canLeave /\ op = Do("leave")
        BY <3>1 DEF TournamentOffers
      <3>3. object.status \in TournamentStatus
        BY <2>2, <2>7, Pages
      <3>4. TournamentAccepts(op, role, object)
        BY <2>2, <3>2, <3>3 DEF isJoinable, canLeave, TournamentAccepts, TournamentStatus, Do
      <3> QED
        BY <2>7, <3>4 DEF Accepts
    <2>8. CASE page = "profile"
      BY <2>8 DEF DetailOffers, ProfileOffers, Accepts, Do
    <2> QED
      BY <2>1, <2>3, <2>4, <2>5, <2>6, <2>7, <2>8 DEF AllPages
  <1> QED
    BY <1>1, DetailInvariance, PTL

\* When all is quiet a screen shows what has become of the thing, its user's own acts
\* included, unless another has changed it since the copy was read, or the answer or
\* the load that would have brought it was lost; and it only says "saved" of what the
\* server has accepted.
THEOREM TruthShown == DetailSpec => []ScreenTellsTruth
  <1>1. DetailIInv => ScreenTellsTruth
    <2> SUFFICES ASSUME DetailIInv
                 PROVE  ScreenTellsTruth
      OBVIOUS
    <2>1. OwnActsShown
      BY DEF DetailIInv, CopyInv, OwnActsShown, Accepted, Hook, Flag
    <2>2. SaidIsStored
      <3>1. said # "pending" /\ page = "challenge" => object.mine = said
        BY DEF DetailIInv, SaidInv
      <3> QED
        BY <3>1 DEF DetailIInv, SaidInv, SaidIsStored, Accepted
    <2> QED
      BY <2>1, <2>2 DEF ScreenTellsTruth
  <1> QED
    BY <1>1, DetailInvariance, PTL

-----------------------------------------------------------------------------
(* The conversation.                                                       *)

\* No message twice.
Unique(s) == \A i, j \in 1 .. Len(s) : s[i] = s[j] => i = j

\* Where the messages are: each is shown once, and each of them is stored.
ListInv ==
    /\ Unique(messages)
    /\ ToSet(messages) \cup ToSet(frames) \cup unsent \subseteq 1 .. Len(history)
    /\ sending # None => sending.stored <= Len(history)
    /\ load.upto <= Len(history)
    /\ load.got => load.waits /\ load.read
    /\ load.fetchError => notes.missed
    /\ chat = None => ~load.waits /\ ~notes.early

\* With a socket that was open when the history was read, and as long as nothing is
\* lost, a message that is not shown yet is on its way.
HeldInv ==
    notes.early /\ ~notes.missed /\ chat # "left" =>
        /\ socket = "open"
        /\ Len(history) <= Limit =>
              \A m \in 1 .. Len(history) :
                  \/ m \in ToSet(messages) \cup ToSet(frames) \cup unsent
                  \/ load.waits /\ load.read /\ m <= load.upto

\* What the cards are of was proposed.
KnownInv ==
    /\ \A p \in Proposal : booked[p] = None =>
          /\ proposals[p] = None
          /\ \A s \in RefreshSlot : refreshes[s] # None => refreshes[s].items[p] = None
    /\ deciding # None => booked[deciding.id] # None

\* A card with the answer to a decision.
Answered(cards) ==
    [cards EXCEPT ![deciding.id] = IF @ = None THEN None ELSE [@ EXCEPT !.status = deciding.to]]

\* While the screen is in front and nobody else acts, the cards are those of the
\* server, or a fetch or an answer is on its way that makes them so.
CardInv ==
    /\ Crossing => notes.others
    /\ chat = None => deciding = None /\ \A s \in RefreshSlot : refreshes[s] = None
    /\ chat = "front" /\ ~notes.others /\ ~notes.missed =>
          /\ \A s \in RefreshSlot :
                refreshes[s] # None /\ refreshes[s].read => refreshes[s].items = Visible(booked)
          /\ (\A s \in RefreshSlot : refreshes[s] = None) =>
                IF deciding # None /\ deciding.phase = "accepted"
                THEN Answered(proposals) = Visible(booked)
                ELSE proposals = Visible(booked)

\* A set of natural numbers that is not empty has a least one.
LEMMA Least ==
    ASSUME NEW T, T \subseteq Nat, T # {}
    PROVE  \E x \in T : \A y \in T : x <= y
  <1>1. IsWellFoundedOn(OpToRel(<, Nat), Nat)
    BY NatLessThanWellFounded
  <1>2. PICK x \in T : \A y \in T : ~ (<<y, x>> \in OpToRel(<, Nat))
    BY <1>1, WFMin
  <1>3. \A y \in T : ~(y < x)
    BY <1>2, Zenon DEF OpToRel
  <1>4. \A y \in T : y \in Nat
    OBVIOUS
  <1>5. ASSUME NEW y \in T
        PROVE  x <= y
    <2>1. y \in Nat /\ x \in Nat /\ ~(y < x)
      BY <1>3, <1>4
    <2> QED
      BY <2>1, SMT
  <1> QED
    BY <1>5

\* What holds of 0, and of n + 1 when it holds of n, holds of every number up to N.
LEMMA UpTo ==
    ASSUME NEW N \in Nat, NEW T, 0 \in T, \A n \in 0 .. N - 1 : n \in T => n + 1 \in T
    PROVE  0 .. N \subseteq T
  <1> SUFFICES ASSUME NEW k \in 0 .. N, k \notin T
               PROVE  FALSE
    OBVIOUS
  <1> DEFINE rest == {n \in 0 .. N : n \notin T}
  <1>1. PICK n \in rest : \A m \in rest : n <= m
    <2>1. rest \subseteq Nat /\ rest # {}
      OBVIOUS
    <2> HIDE DEF rest
    <2> QED
      BY <2>1, Least
  <1>2. n # 0 /\ n - 1 \in 0 .. N - 1
    BY <1>1
  <1>3. n - 1 \in T
    BY <1>1, <1>2
  <1>4. (n - 1) + 1 = n
    BY <1>1
  <1> QED
    BY <1>1, <1>2, <1>3, <1>4

\* The loop of dedupeMessagesById goes through.
LEMMA OutLoop ==
    ASSUME NEW s \in Seq(Message)
    PROVE  \E out : /\ dedupeMessagesById(s) = out[Len(s)]
                    /\ out = [i \in 0 .. Len(s) |->
                          IF i = 0 THEN <<>>
                          ELSE IF s[i] \in ToSet(out[i - 1]) THEN out[i - 1]
                          ELSE Append(out[i - 1], s[i])]
  <1> DEFINE Loop(f, n) ==
                f = [i \in 0 .. n |->
                        IF i = 0 THEN <<>>
                        ELSE IF s[i] \in ToSet(f[i - 1]) THEN f[i - 1] ELSE Append(f[i - 1], s[i])]
             T == {n \in Nat : \E f : Loop(f, n)}
  <1>1. 0 \in T
    <2>1. Loop([i \in 0 .. 0 |-> <<>>], 0)
      OBVIOUS
    <2> QED
      BY <2>1
  <1>2. ASSUME NEW n \in Nat, n \in T
        PROVE  n + 1 \in T
    <2>1. PICK f : Loop(f, n)
      BY <1>2
    <2> DEFINE g == [i \in 0 .. n + 1 |->
                        IF i <= n THEN f[i]
                        ELSE IF s[i] \in ToSet(f[n]) THEN f[n] ELSE Append(f[n], s[i])]
    <2>2. \A i \in 0 .. n : g[i] = f[i]
      OBVIOUS
    <2>3. g[n + 1] = IF s[n + 1] \in ToSet(f[n]) THEN f[n] ELSE Append(f[n], s[n + 1])
      OBVIOUS
    <2>4. \A i \in 0 .. n : f[i] = IF i = 0 THEN <<>>
                                   ELSE IF s[i] \in ToSet(f[i - 1]) THEN f[i - 1]
                                   ELSE Append(f[i - 1], s[i])
      BY <2>1
    <2>5. ASSUME NEW i \in 0 .. n + 1
          PROVE  g[i] = IF i = 0 THEN <<>>
                        ELSE IF s[i] \in ToSet(g[i - 1]) THEN g[i - 1] ELSE Append(g[i - 1], s[i])
      <3>1. CASE i \in 1 .. n
        <4>1. i - 1 \in 0 .. n /\ i \in 0 .. n /\ i # 0
          BY <3>1
        <4>2. g[i] = f[i] /\ g[i - 1] = f[i - 1]
          BY <2>2, <4>1
        <4> HIDE DEF g
        <4> QED
          BY <2>4, <4>1, <4>2
      <3>2. CASE i = 0
        <4>1. g[0] = f[0] /\ f[0] = <<>>
          BY <2>2, <2>4
        <4> HIDE DEF g
        <4> QED
          BY <3>2, <4>1
      <3>3. CASE i = n + 1
        <4>1. i - 1 = n /\ i # 0 /\ g[n] = f[n]
          BY <2>2, <3>3
        <4> HIDE DEF g
        <4> QED
          BY <2>3, <3>3, <4>1
      <3> QED
        BY <3>1, <3>2, <3>3
    <2>6. g = [i \in 0 .. n + 1 |-> g[i]]
      OBVIOUS
    <2> HIDE DEF g
    <2>7. Loop(g, n + 1)
      BY <2>5, <2>6
    <2> QED
      BY <2>7
  <1>3. Len(s) \in T
    <2>1. Len(s) \in Nat /\ Len(s) \in 0 .. Len(s)
      OBVIOUS
    <2>2. \A n \in 0 .. Len(s) - 1 : n \in T => n + 1 \in T
      BY <1>2
    <2> HIDE DEF T
    <2>3. 0 .. Len(s) \subseteq T
      BY <1>1, <2>1, <2>2, UpTo
    <2> QED
      BY <2>1, <2>3
  <1>4. Loop((CHOOSE f : Loop(f, Len(s))), Len(s))
    <2>1. \E f : Loop(f, Len(s))
      BY <1>3
    <2> HIDE DEF Loop
    <2> QED
      BY <2>1
  <1>5. dedupeMessagesById(s) = (CHOOSE f : Loop(f, Len(s)))[Len(s)]
    BY DEF dedupeMessagesById
  <1> QED
    BY <1>4, <1>5

\* The messages of a list, with one appended.
LEMMA ToSetTyped ==
    ASSUME NEW s \in Seq(Message)
    PROVE  /\ ToSet(s) \subseteq Message
           /\ ToSet(s) = {s[i] : i \in 1 .. Len(s)}
           /\ \A m \in Message : /\ Append(s, m) \in Seq(Message)
                                /\ ToSet(Append(s, m)) = ToSet(s) \cup {m}
  <1>1. ToSet(s) = {s[i] : i \in 1 .. Len(s)} /\ ToSet(s) \subseteq Message
    BY DEF ToSet
  <1>2. ASSUME NEW m \in Message
        PROVE  Append(s, m) \in Seq(Message) /\ ToSet(Append(s, m)) = ToSet(s) \cup {m}
    <2> DEFINE t == Append(s, m)
    <2>1. /\ t \in Seq(Message) /\ Len(t) = Len(s) + 1 /\ t[Len(s) + 1] = m
          /\ \A i \in 1 .. Len(s) : t[i] = s[i]
      OBVIOUS
    <2> HIDE DEF t
    <2>2. ToSet(t) = {t[i] : i \in 1 .. Len(t)}
      BY <2>1 DEF ToSet
    <2>3. 1 .. Len(t) = 1 .. Len(s) \cup {Len(s) + 1}
      BY <2>1
    <2>4. ToSet(t) = ToSet(s) \cup {m}
      BY <1>1, <2>1, <2>2, <2>3
    <2> QED
      BY <2>1, <2>4 DEF t
  <1> QED
    BY <1>1, <1>2

\* lib/messages.ts, for every list: the same messages, each of them once.
LEMMA Deduped ==
    ASSUME NEW s \in Seq(Message)
    PROVE  /\ dedupeMessagesById(s) \in Seq(Message)
           /\ ToSet(dedupeMessagesById(s)) = ToSet(s)
           /\ Unique(dedupeMessagesById(s))
  <1>1. PICK out : /\ dedupeMessagesById(s) = out[Len(s)]
                   /\ out = [i \in 0 .. Len(s) |->
                         IF i = 0 THEN <<>>
                         ELSE IF s[i] \in ToSet(out[i - 1]) THEN out[i - 1]
                         ELSE Append(out[i - 1], s[i])]
    BY OutLoop
  <1> DEFINE T == {n \in 0 .. Len(s) : /\ out[n] \in Seq(Message)
                                      /\ ToSet(out[n]) = {s[i] : i \in 1 .. n}
                                      /\ Unique(out[n])}
  <1>2. 0 \in T
    <2>1. out[0] = <<>>
      BY <1>1
    <2>2. ToSet(<<>>) = {}
      BY DEF ToSet
    <2>3. {s[i] : i \in 1 .. 0} = {} /\ 0 \in 0 .. Len(s)
      OBVIOUS
    <2>4. <<>> \in Seq(Message) /\ Unique(<<>>)
      BY DEF Unique
    <2> QED
      BY <2>1, <2>2, <2>3, <2>4
  <1>3. ASSUME NEW n \in 0 .. Len(s) - 1, n \in T
        PROVE  n + 1 \in T
    <2>1. /\ n + 1 \in 1 .. Len(s) /\ n + 1 # 0 /\ (n + 1) - 1 = n /\ s[n + 1] \in Message
          /\ 1 .. n + 1 = 1 .. n \cup {n + 1}
      OBVIOUS
    <2>2. out[n + 1] = IF s[n + 1] \in ToSet(out[n]) THEN out[n] ELSE Append(out[n], s[n + 1])
      <3>1. \A i \in 0 .. Len(s) : out[i] = IF i = 0 THEN <<>>
                         ELSE IF s[i] \in ToSet(out[i - 1]) THEN out[i - 1]
                         ELSE Append(out[i - 1], s[i])
        BY <1>1
      <3> QED
        BY <2>1, <3>1
    <2>3. PICK t : t = out[n]
      OBVIOUS
    <2>4. t \in Seq(Message) /\ ToSet(t) = {s[i] : i \in 1 .. n} /\ Unique(t)
      BY <1>3, <2>3
    <2>5. {s[i] : i \in 1 .. n + 1} = ToSet(t) \cup {s[n + 1]}
      BY <2>1, <2>4
    <2>6. CASE s[n + 1] \in ToSet(t)
      BY <2>1, <2>2, <2>3, <2>4, <2>5, <2>6
    <2>7. CASE s[n + 1] \notin ToSet(t)
      <3>1. PICK u : u = Append(t, s[n + 1])
        OBVIOUS
      <3>2. u \in Seq(Message) /\ ToSet(u) = {s[i] : i \in 1 .. n + 1}
        BY <2>1, <2>4, <2>5, <3>1, ToSetTyped
      <3>3. /\ Len(u) = Len(t) + 1 /\ u[Len(t) + 1] = s[n + 1] /\ Len(t) \in Nat
            /\ \A i \in 1 .. Len(t) : u[i] = t[i] /\ t[i] \in ToSet(t)
        <4>1. ToSet(t) = {t[i] : i \in 1 .. Len(t)}
          BY <2>4, ToSetTyped
        <4>2. \A i \in 1 .. Len(t) : t[i] \in ToSet(t)
          BY <4>1
        <4>3. /\ Len(u) = Len(t) + 1 /\ u[Len(t) + 1] = s[n + 1] /\ Len(t) \in Nat
              /\ \A i \in 1 .. Len(t) : u[i] = t[i]
          BY <2>1, <2>4, <3>1
        <4> QED
          BY <4>2, <4>3
      <3>4. Unique(u)
        <4> SUFFICES ASSUME NEW i \in 1 .. Len(u), NEW j \in 1 .. Len(u), u[i] = u[j]
                     PROVE  i = j
          BY DEF Unique
        <4>1. i \in 1 .. Len(t) \/ i = Len(t) + 1
          BY <3>3
        <4>2. j \in 1 .. Len(t) \/ j = Len(t) + 1
          BY <3>3
        <4> QED
          BY <2>4, <2>7, <3>3, <4>1, <4>2 DEF Unique
      <3>5. out[n + 1] = u /\ n + 1 \in 0 .. Len(s)
        BY <2>1, <2>2, <2>3, <2>7, <3>1
      <3> QED
        BY <3>2, <3>4, <3>5
    <2> QED
      BY <2>6, <2>7
  <1>4. Len(s) \in T
    <2>1. Len(s) \in Nat /\ Len(s) \in 0 .. Len(s)
      OBVIOUS
    <2> HIDE DEF T
    <2>2. 0 .. Len(s) \subseteq T
      BY <1>2, <1>3, <2>1, UpTo
    <2> QED
      BY <2>1, <2>2
  <1> QED
    BY <1>1, <1>4, ToSetTyped

\* A list without repetition is as long as the set of its messages.
LEMMA UniqueShort ==
    ASSUME NEW s \in Seq(Message), Unique(s)
    PROVE  Cardinality(ToSet(s)) = Len(s) /\ Len(s) <= MaxMessages
  <1>1. Len(s) \in Nat /\ ToSet(s) = {s[i] : i \in 1 .. Len(s)} /\ ToSet(s) \subseteq Message
    BY ToSetTyped
  <1>2. s \in Bijection(1 .. Len(s), ToSet(s))
    <2>1. s \in [1 .. Len(s) -> ToSet(s)]
      BY <1>1
    <2>2. s \in Injection(1 .. Len(s), ToSet(s))
      BY <2>1 DEF Unique, Injection, IsInjective
    <2>3. s \in Surjection(1 .. Len(s), ToSet(s))
      BY <1>1, <2>1 DEF Surjection
    <2> QED
      BY <2>2, <2>3 DEF Bijection
  <1>3. Cardinality(ToSet(s)) = Len(s)
    BY <1>1, <1>2, FS_CountingElements DEF ExistsBijection
  <1>4. IsFiniteSet(Message) /\ Cardinality(Message) = MaxMessages
    BY LimitAssumption, FS_Interval DEF Message
  <1>5. Cardinality(ToSet(s)) <= Cardinality(Message)
    BY <1>1, <1>4, FS_Subset
  <1> QED
    BY <1>3, <1>4, <1>5

\* No load is a state of the load, of which nothing is waited for.
LEMMA NoLoadTyped ==
    /\ NoLoad \in LoadState
    /\ ~NoLoad.waits /\ ~NoLoad.read /\ ~NoLoad.got /\ NoLoad.upto = 0 /\ ~NoLoad.fetchError
  BY LimitAssumption DEF NoLoad, LoadState

\* A load that is over, or that starts again.
LEMMA LoadMade ==
    ASSUME NEW w \in BOOLEAN, NEW f \in BOOLEAN, NEW l,
           l = [NoLoad EXCEPT !.waits = w, !.fetchError = f]
    PROVE  /\ l \in LoadState /\ l.waits = w /\ l.fetchError = f
           /\ l.read = FALSE /\ l.got = FALSE /\ l.upto = 0
  <1>1. /\ NoLoad \in LoadState
        /\ NoLoad.read = FALSE /\ NoLoad.got = FALSE /\ NoLoad.upto = 0
    BY NoLoadTyped DEF NoLoad
  <1>2. /\ l \in LoadState /\ l.waits = w /\ l.fetchError = f
        /\ l.read = NoLoad.read /\ l.got = NoLoad.got /\ l.upto = NoLoad.upto
    BY <1>1 DEF LoadState
  <1> QED
    BY <1>1, <1>2

\* A load that has ended, well or not.
LEMMA LoadEnded ==
    ASSUME NEW f \in BOOLEAN, NEW l, l = [NoLoad EXCEPT !.fetchError = f]
    PROVE  /\ l \in LoadState /\ l.waits = FALSE /\ l.fetchError = f
           /\ l.read = FALSE /\ l.got = FALSE /\ l.upto = 0
  <1>1. /\ NoLoad \in LoadState
        /\ NoLoad.waits = FALSE /\ NoLoad.read = FALSE /\ NoLoad.got = FALSE /\ NoLoad.upto = 0
    BY NoLoadTyped DEF NoLoad
  <1>2. /\ l \in LoadState /\ l.waits = NoLoad.waits /\ l.fetchError = f
        /\ l.read = NoLoad.read /\ l.got = NoLoad.got /\ l.upto = NoLoad.upto
    BY <1>1 DEF LoadState
  <1> QED
    BY <1>1, <1>2

\* The answers of both requests put the history before the messages that are there.
LEMMA LoadProgressLeaves ==
    ASSUME messages \in Seq(Message), Unique(messages), NEW l \in LoadState, LoadProgress(l)
    PROVE  /\ messages' \in Seq(Message) /\ Unique(messages') /\ load' \in LoadState
           /\ load'.fetchError = l.fetchError
           /\ \/ messages' = messages /\ load' = l
              \/ /\ l.got /\ ToSet(messages') = 1 .. l.upto \cup ToSet(messages)
                 /\ ~load'.waits /\ ~load'.got /\ load'.upto = 0
  <1>1. CASE l.got /\ l.cards
    <2> DEFINE page0 == [i \in 1 .. l.upto |-> i]
    <2>1. messages' = dedupeMessagesById(page0 \o messages)
          /\ load' = [NoLoad EXCEPT !.fetchError = l.fetchError]
      BY <1>1 DEF LoadProgress, Merged
    <2>2. l.upto \in 0 .. MaxMessages /\ l.fetchError \in BOOLEAN
      BY DEF LoadState
    <2>3. page0 \in Seq(Message) /\ Len(page0) = l.upto /\ \A i \in 1 .. l.upto : page0[i] = i
      BY <2>2, LimitAssumption DEF Message
    <2> HIDE DEF page0
    <2>4. PICK s : s = page0 \o messages
      OBVIOUS
    <2>5. /\ s \in Seq(Message) /\ Len(s) = l.upto + Len(messages) /\ Len(messages) \in Nat
          /\ \A i \in 1 .. l.upto : s[i] = i
          /\ \A i \in 1 .. Len(messages) : s[l.upto + i] = messages[i]
      <3>1. PICK n, t : n = l.upto /\ t = messages
        OBVIOUS
      <3>2. n \in Nat /\ t \in Seq(Message) /\ Len(t) \in Nat /\ Len(page0) = n
        BY <2>2, <2>3, <3>1, LimitAssumption
      <3>3. s \in Seq(Message) /\ Len(s) = n + Len(t)
        BY <2>3, <2>4, <3>1, <3>2
      <3>4. \A i \in 1 .. n : s[i] = page0[i]
        BY <2>3, <2>4, <3>1, <3>2
      <3>5. \A i \in 1 .. Len(t) : s[n + i] = t[i]
        BY <2>3, <2>4, <3>1, <3>2
      <3> QED
        BY <2>3, <3>1, <3>2, <3>3, <3>4, <3>5
    <2>6. ToSet(s) = 1 .. l.upto \cup ToSet(messages)
      <3>1. ToSet(s) = {s[i] : i \in 1 .. Len(s)}
            /\ ToSet(messages) = {messages[i] : i \in 1 .. Len(messages)}
        BY <2>5, ToSetTyped
      <3>2. ASSUME NEW i \in 1 .. Len(s)
            PROVE  s[i] \in 1 .. l.upto \cup ToSet(messages)
        <4>1. CASE i <= l.upto
          BY <2>2, <2>5, <4>1
        <4>2. CASE i > l.upto
          <5>1. i - l.upto \in 1 .. Len(messages) /\ l.upto + (i - l.upto) = i
            BY <2>2, <2>5, <4>2
          <5> QED
            BY <2>5, <3>1, <5>1
        <4> QED
          BY <2>2, <2>5, <4>1, <4>2
      <3>3. ASSUME NEW m \in 1 .. l.upto
            PROVE  m \in ToSet(s)
        <4>1. m \in 1 .. Len(s) /\ s[m] = m
          BY <2>2, <2>5
        <4> QED
          BY <3>1, <4>1
      <3>4. ASSUME NEW i \in 1 .. Len(messages)
            PROVE  messages[i] \in ToSet(s)
        <4>1. l.upto + i \in 1 .. Len(s) /\ s[l.upto + i] = messages[i]
          BY <2>2, <2>5
        <4> QED
          BY <3>1, <4>1
      <3> QED
        BY <3>1, <3>2, <3>3, <3>4
    <2>7. messages' = dedupeMessagesById(s)
      BY <2>1, <2>4
    <2>8. messages' \in Seq(Message) /\ Unique(messages') /\ ToSet(messages') = ToSet(s)
      BY <2>5, <2>7, Deduped
    <2>9. /\ load' \in LoadState /\ load'.fetchError = l.fetchError
          /\ load'.waits = FALSE /\ load'.got = FALSE /\ load'.upto = 0
      BY <2>1, <2>2, LoadEnded
    <2> QED
      BY <1>1, <2>6, <2>8, <2>9
  <1>2. CASE ~(l.got /\ l.cards)
    BY <1>2 DEF LoadProgress
  <1> QED
    BY <1>1, <1>2

\* A message that is added is shown, once, and nothing else changes.
LEMMA Appended ==
    ASSUME messages \in Seq(Message), NEW m \in Message,
           messages' = dedupeMessagesById(Append(messages, m))
    PROVE  /\ messages' \in Seq(Message) /\ Unique(messages')
           /\ ToSet(messages') = ToSet(messages) \cup {m}
  BY ToSetTyped, Deduped

\* The first frame and the others.
LEMMA FramesFirst ==
    ASSUME NEW s \in Seq(Message), s # <<>>
    PROVE  /\ Head(s) \in Message /\ Tail(s) \in Seq(Message)
           /\ ToSet(s) = {Head(s)} \cup ToSet(Tail(s))
  <1>1. PICK t : t = Tail(s)
    OBVIOUS
  <1>2. /\ Len(s) \in Nat \ {0} /\ Head(s) = s[1] /\ t \in Seq(Message) /\ Len(t) = Len(s) - 1
        /\ \A i \in 1 .. Len(t) : t[i] = s[i + 1]
    BY <1>1
  <1>3. ToSet(s) = {s[i] : i \in 1 .. Len(s)} /\ ToSet(t) = {t[i] : i \in 1 .. Len(t)}
    BY <1>2, ToSetTyped
  <1>4. ASSUME NEW i \in 1 .. Len(s)
        PROVE  s[i] \in {s[1]} \cup ToSet(t)
    <2>1. i = 1 \/ (i - 1 \in 1 .. Len(t) /\ (i - 1) + 1 = i)
      BY <1>2
    <2> QED
      BY <1>2, <1>3, <2>1
  <1>5. ASSUME NEW i \in 1 .. Len(t)
        PROVE  t[i] \in ToSet(s)
    <2>1. i + 1 \in 1 .. Len(s) /\ t[i] = s[i + 1]
      BY <1>2
    <2> QED
      BY <1>3, <2>1
  <1>6. s[1] \in ToSet(s) /\ s[1] \in Message
    BY <1>2, <1>3
  <1> QED
    BY <1>1, <1>2, <1>3, <1>4, <1>5, <1>6

\* A fetch of the proposals takes one free slot and has read nothing.
LEMMA RefreshedTyped ==
    ASSUME refreshes \in [RefreshSlot -> RefreshState \cup {None}], NEW ofLoad \in BOOLEAN,
           Refreshed(ofLoad)
    PROVE  /\ refreshes' \in [RefreshSlot -> RefreshState \cup {None}]
           /\ \E s \in RefreshSlot :
                 /\ refreshes[s] = None /\ refreshes'[s] # None /\ ~refreshes'[s].read
                 /\ refreshes'[s].items = NoCards
                 /\ \A q \in RefreshSlot \ {s} : refreshes'[q] = refreshes[q]
  <1>1. PICK s \in RefreshSlot :
            /\ refreshes[s] = None
            /\ refreshes' = [refreshes EXCEPT ![s] =
                                [ofLoad |-> ofLoad, read |-> FALSE, items |-> NoCards]]
    BY DEF Refreshed
  <1>2. PICK r : r = [ofLoad |-> ofLoad, read |-> FALSE, items |-> NoCards]
    OBVIOUS
  <1>3. r \in RefreshState /\ r.read = FALSE /\ r.items = NoCards
    BY <1>2 DEF RefreshState, NoCards, Cards
  <1>4. r # None
    BY <1>3, NoChatAssumption
  <1> QED
    BY <1>1, <1>2, <1>3, <1>4

\* What the server shows of the proposals is theirs.
LEMMA VisibleTyped ==
    ASSUME booked \in Cards
    PROVE  /\ Visible(booked) \in Cards
           /\ \A p \in Proposal : /\ booked[p] = None => Visible(booked)[p] = None
                                  /\ Visible(booked)[p] \in {booked[p], None}
  BY DEF Visible, Cards

-----------------------------------------------------------------------------
(* The messages.                                                           *)

ListTyped ==
    /\ chat \in {None, "front", "under", "left"}
    /\ history \in Seq(Sender) /\ Len(history) <= MaxMessages
    /\ unsent \in SUBSET Message
    /\ socket \in {"closed", "opening", "open", "lost"}
    /\ frames \in Seq(Message) /\ messages \in Seq(Message)
    /\ load \in LoadState
    /\ draft \in BOOLEAN /\ sending \in Sending \cup {None}
    /\ notes \in Notes

ListIInv == ListTyped /\ ListInv /\ HeldInv

\* The numbers the messages are counted with.
LEMMA Lengths ==
    ASSUME ListTyped
    PROVE  /\ Len(history) \in Nat /\ Len(history) \in 0 .. MaxMessages
           /\ 1 .. Len(history) \subseteq Message
           /\ load.upto \in Nat /\ MaxMessages \in Nat /\ Limit \in Nat \ {0}
           /\ sending # None => sending.stored \in Nat
  BY LimitAssumption DEF ListTyped, LoadState, Sending, Message

\* What leaves the messages and the load alone.
LEMMA ListFrame ==
    ASSUME ListIInv, UNCHANGED <<history, unsent, socket, frames, messages, draft, sending, load>>,
           notes' \in Notes, notes'.early = notes.early, notes.missed => notes'.missed,
           chat' \in {None, "front", "under", "left"}, chat' = None => chat = None,
           chat = "left" => chat' = "left"
    PROVE  ListIInv'
  BY DEF ListIInv, ListTyped, ListInv, HeldInv

\* Noting that the partner has acted changes no other note.
LEMMA OthersTyped ==
    ASSUME notes \in Notes, NEW b \in BOOLEAN
    PROVE  /\ [notes EXCEPT !.others = b] \in Notes
           /\ [notes EXCEPT !.others = b].early = notes.early
           /\ [notes EXCEPT !.others = b].missed = notes.missed
           /\ [notes EXCEPT !.others = b].others = b
  BY DEF Notes

\* The chat opens empty, with the history asked for.
LEMMA OpenChatList ==
    ASSUME ListIInv, OpenChat
    PROVE  ListIInv'
  <1>1. /\ chat = None /\ chat' = "front" /\ socket' = "opening"
        /\ load' = [load EXCEPT !.waits = TRUE, !.isLoading = TRUE]
        /\ UNCHANGED <<history, unsent, frames, messages, draft, sending, notes>>
    BY DEF OpenChat
  <1>2. /\ load' \in LoadState /\ load'.waits /\ load'.read = load.read /\ load'.got = load.got
        /\ load'.upto = load.upto /\ load'.fetchError = load.fetchError
    BY <1>1 DEF ListIInv, ListTyped, LoadState
  <1>3. ~notes.early /\ "front" # None
    BY <1>1, NoChatAssumption DEF ListIInv, ListInv
  <1>4. ListTyped'
    BY <1>1, <1>2 DEF ListIInv, ListTyped
  <1>5. ListInv' /\ HeldInv'
    BY <1>1, <1>2, <1>3 DEF ListIInv, ListInv, HeldInv
  <1> QED
    BY <1>4, <1>5 DEF ListIInv

\* Try again asks for it once more.
LEMMA TryAgainList ==
    ASSUME ListIInv, TryAgain
    PROVE  ListIInv'
  <1>1. load.fetchError /\ chat = "front"
    <2>1. "again" \in TimelineOffers /\ chat = "front"
      BY DEF TryAgain, ChatOffers, HeaderOffers, SafetyMenu
    <2>2. CASE load.isLoading
      BY <2>1, <2>2 DEF TimelineOffers
    <2>3. CASE ~load.isLoading /\ ~load.fetchError
      <3>1. "again" \in {"type"} \cup (IF draft /\ sending = None THEN {"send"} ELSE {}) \cup
                        UNION {CardOffers(p) : p \in Proposal}
        BY <2>1, <2>3 DEF TimelineOffers
      <3>2. PICK p \in Proposal : "again" \in CardOffers(p)
        BY <3>1
      <3> QED
        BY <3>2, NoProposalAssumption DEF CardOffers
    <2> QED
      BY <2>1, <2>2, <2>3
  <1>2. /\ load' = [NoLoad EXCEPT !.waits = TRUE, !.fetchError = load.fetchError]
        /\ UNCHANGED <<chat, history, unsent, socket, frames, messages, draft, sending>>
        /\ notes' = [notes EXCEPT !.others = @ \/ Crossing']
    BY DEF TryAgain, listVars, Crossed
  <1>3. /\ load' \in LoadState /\ load'.waits /\ load'.got = FALSE /\ load'.upto = 0
        /\ load'.fetchError = load.fetchError
    <2>1. load.fetchError \in BOOLEAN
      BY DEF ListIInv, ListTyped, LoadState
    <2>2. PICK r : r = [NoLoad EXCEPT !.waits = TRUE, !.fetchError = load.fetchError]
      OBVIOUS
    <2>3. TRUE \in BOOLEAN
      OBVIOUS
    <2>4. /\ r \in LoadState /\ r.fetchError = load.fetchError
          /\ r.waits = TRUE /\ r.got = FALSE /\ r.upto = 0
      BY <2>1, <2>2, <2>3, LoadMade
    <2> QED
      BY <1>2, <2>2, <2>4
  <1>4. notes' \in Notes /\ notes'.early = notes.early /\ notes'.missed = notes.missed
    <2>1. PICK b \in BOOLEAN : b = (notes.others \/ Crossing')
      OBVIOUS
    <2> QED
      BY <1>2, <2>1, OthersTyped DEF ListIInv, ListTyped
  <1>5. notes.missed
    BY <1>1 DEF ListIInv, ListInv
  <1>6. ListTyped'
    BY <1>2, <1>3, <1>4 DEF ListIInv, ListTyped
  <1>7. Len(history) \in Nat /\ "front" # None
    BY Lengths, NoChatAssumption DEF ListIInv
  <1>8. ListInv' /\ HeldInv'
    BY <1>1, <1>2, <1>3, <1>4, <1>5, <1>7 DEF ListIInv, ListInv, HeldInv
  <1> QED
    BY <1>6, <1>8 DEF ListIInv

\* The history that is read has every message so far, or the page is full.
LEMMA HistoryReadList ==
    ASSUME ListIInv, HistoryRead
    PROVE  ListIInv'
  <1>1. /\ load.waits /\ ~load.read
        /\ load' = [load EXCEPT !.read = TRUE,
                                !.upto = IF Len(history) < Limit THEN Len(history) ELSE Limit]
        /\ notes' = [notes EXCEPT !.early = socket = "open"]
        /\ UNCHANGED <<chat, history, unsent, socket, frames, messages, draft, sending>>
    BY DEF HistoryRead, listVars
  <1>2. PICK n : n = IF Len(history) < Limit THEN Len(history) ELSE Limit
    OBVIOUS
  <1>3. n \in 0 .. MaxMessages /\ n <= Len(history) /\ (Len(history) <= Limit => n = Len(history))
    BY <1>2, Lengths DEF ListIInv
  <1>4. /\ load' \in LoadState /\ load'.waits /\ load'.read = TRUE /\ load'.got = load.got
        /\ load'.upto = n /\ load'.fetchError = load.fetchError
    BY <1>1, <1>2, <1>3 DEF ListIInv, ListTyped, LoadState
  <1>5. /\ notes' \in Notes /\ notes'.early = (socket = "open") /\ notes'.missed = notes.missed
    BY <1>1 DEF ListIInv, ListTyped, Notes
  <1>6. ListTyped'
    BY <1>1, <1>4, <1>5 DEF ListIInv, ListTyped
  <1>7. ListInv'
    BY <1>1, <1>3, <1>4, <1>5 DEF ListIInv, ListInv
  <1>8. HeldInv'
    <2> SUFFICES ASSUME notes'.early
                 PROVE  /\ socket' = "open"
                        /\ Len(history') <= Limit =>
                              \A m \in 1 .. Len(history') : m <= load'.upto
      BY <1>4 DEF HeldInv
    <2>1. Len(history) \in Nat /\ history' = history /\ socket' = socket
      BY <1>1, Lengths DEF ListIInv
    <2>2. \A m \in 1 .. Len(history) : Len(history) <= Limit => m <= n
      BY <1>3, <2>1
    <2>3. socket = "open" /\ load'.upto = n
      BY <1>4, <1>5
    <2> QED
      BY <2>1, <2>2, <2>3
  <1> QED
    BY <1>6, <1>7, <1>8 DEF ListIInv

\* An answer to one of the two requests of fetchMessages.
LEMMA ProgressList ==
    ASSUME ListIInv, NEW l \in LoadState, LoadProgress(l),
           l.waits = load.waits, l.read = load.read, l.upto = load.upto,
           l.fetchError = load.fetchError, l.got => l.waits /\ l.read,
           UNCHANGED <<chat, history, unsent, socket, frames, draft, sending, notes>>
    PROVE  ListIInv'
  <1>1. messages \in Seq(Message) /\ Unique(messages)
    BY DEF ListIInv, ListTyped, ListInv
  <1>2. /\ messages' \in Seq(Message) /\ Unique(messages') /\ load' \in LoadState
        /\ load'.fetchError = load.fetchError
        /\ \/ messages' = messages /\ load' = l
           \/ /\ l.got /\ ToSet(messages') = 1 .. l.upto \cup ToSet(messages)
              /\ ~load'.waits /\ ~load'.got /\ load'.upto = 0
    BY <1>1, LoadProgressLeaves
  <1>3. ListTyped'
    BY <1>2 DEF ListIInv, ListTyped
  <1>4. CASE messages' = messages /\ load' = l
    BY <1>2, <1>3, <1>4 DEF ListIInv, ListInv, HeldInv
  <1>5. CASE /\ l.got /\ ToSet(messages') = 1 .. l.upto \cup ToSet(messages)
             /\ ~load'.waits /\ ~load'.got /\ load'.upto = 0
    <2>1. Len(history) \in Nat /\ load.upto \in Nat /\ load.upto <= Len(history)
      BY Lengths DEF ListIInv, ListInv
    <2>2. ToSet(messages') \subseteq 1 .. Len(history)
      BY <1>5, <2>1 DEF ListIInv, ListInv
    <2>3. ListInv'
      BY <1>2, <1>5, <2>1, <2>2 DEF ListIInv, ListInv
    <2>4. \A m \in 1 .. Len(history) : m <= load.upto => m \in ToSet(messages')
      BY <1>5, <2>1
    <2>5. HeldInv'
      BY <1>5, <2>4 DEF ListIInv, HeldInv
    <2> QED
      BY <1>3, <2>3, <2>5 DEF ListIInv
  <1> QED
    BY <1>2, <1>4, <1>5

\* One of them fails.
LEMMA GivenUpList ==
    ASSUME ListIInv, load' = LoadGivenUp, notes' \in Notes, notes'.missed,
           notes'.early = notes.early,
           UNCHANGED <<chat, history, unsent, socket, frames, messages, draft, sending>>
    PROVE  ListIInv'
  <1>1. load' \in LoadState /\ load'.waits = FALSE /\ load'.got = FALSE /\ load'.upto = 0
    <2>1. PICK r : r = [NoLoad EXCEPT !.fetchError = TRUE]
      OBVIOUS
    <2>2. TRUE \in BOOLEAN
      OBVIOUS
    <2>3. r \in LoadState /\ r.waits = FALSE /\ r.got = FALSE /\ r.upto = 0
      BY <2>1, <2>2, LoadEnded
    <2> QED
      BY <2>1, <2>3 DEF LoadGivenUp
  <1>2. Len(history) \in Nat
    BY Lengths DEF ListIInv
  <1>3. ListTyped'
    BY <1>1 DEF ListIInv, ListTyped
  <1>4. ListInv' /\ HeldInv'
    BY <1>1, <1>2 DEF ListIInv, ListInv, HeldInv
  <1> QED
    BY <1>3, <1>4 DEF ListIInv

\* The history is merged into what has arrived by other ways, so that nothing is
\* there twice.
LEMMA HistoryEndsList ==
    ASSUME ListIInv, HistoryEnds
    PROVE  ListIInv'
  <1>1. CASE HistoryArrived
    <2>1. PICK l : l = [load EXCEPT !.got = TRUE]
      OBVIOUS
    <2>2. /\ load.waits /\ load.read /\ LoadProgress(l)
          /\ UNCHANGED <<chat, history, unsent, socket, frames, draft, sending, notes>>
      BY <1>1, <2>1 DEF HistoryArrived
    <2>3. /\ l \in LoadState /\ l.waits = load.waits /\ l.read = load.read
          /\ l.upto = load.upto /\ l.fetchError = load.fetchError
      BY <2>1 DEF ListIInv, ListTyped, LoadState
    <2> QED
      BY <2>2, <2>3, ProgressList
  <1>2. CASE HistoryFailed
    <2>1. notes' \in Notes /\ notes'.missed /\ notes'.early = notes.early
      BY <1>2 DEF HistoryFailed, ListIInv, ListTyped, Notes
    <2> QED
      BY <1>2, <2>1, GivenUpList DEF HistoryFailed, listVars
  <1> QED
    BY <1>1, <1>2, HistoryReadList DEF HistoryEnds

\* Proposals do not meet the messages.
LEMMA RefreshEndsList ==
    ASSUME ListIInv, refreshes \in [RefreshSlot -> RefreshState \cup {None}],
           NEW s \in RefreshSlot, RefreshEnds(s)
    PROVE  ListIInv'
  <1>1. CASE RefreshRead(s)
    BY <1>1, ListFrame DEF RefreshRead, listVars, ListIInv, ListTyped
  <1>2. CASE RefreshArrived(s)
    <2>1. UNCHANGED <<chat, history, unsent, socket, frames, draft, sending, notes>>
      BY <1>2 DEF RefreshArrived
    <2>2. CASE refreshes[s].ofLoad
      <3>1. PICK l : l = [load EXCEPT !.cards = TRUE]
        OBVIOUS
      <3>2. LoadProgress(l)
        BY <1>2, <2>2, <3>1 DEF RefreshArrived
      <3>3. /\ l \in LoadState /\ l.waits = load.waits /\ l.read = load.read /\ l.got = load.got
            /\ l.upto = load.upto /\ l.fetchError = load.fetchError
        BY <3>1 DEF ListIInv, ListTyped, LoadState
      <3>4. l.got => l.waits /\ l.read
        BY <3>3 DEF ListIInv, ListInv
      <3> QED
        BY <2>1, <3>2, <3>3, <3>4, ProgressList
    <2>3. CASE ~refreshes[s].ofLoad
      <3>1. UNCHANGED <<load, messages>>
        BY <1>2, <2>3 DEF RefreshArrived
      <3> QED
        BY <2>1, <3>1, ListFrame DEF ListIInv, ListTyped
    <2> QED
      BY <2>2, <2>3
  <1>3. CASE RefreshFailed(s)
    <2>1. /\ UNCHANGED <<chat, history, unsent, socket, frames, messages, draft, sending>>
          /\ load' = IF refreshes[s].ofLoad THEN LoadGivenUp ELSE load
          /\ notes' = [notes EXCEPT !.others = TRUE, !.missed = @ \/ refreshes[s].ofLoad]
      BY <1>3 DEF RefreshFailed, listVars
    <2>2. refreshes[s].ofLoad \in BOOLEAN
      BY <1>3 DEF RefreshFailed, RefreshState
    <2>3. /\ notes' \in Notes /\ notes'.early = notes.early
          /\ notes'.missed = (notes.missed \/ refreshes[s].ofLoad)
      BY <2>1, <2>2 DEF ListIInv, ListTyped, Notes
    <2>4. CASE refreshes[s].ofLoad
      BY <2>1, <2>3, <2>4, GivenUpList
    <2>5. CASE ~refreshes[s].ofLoad
      BY <2>1, <2>3, <2>5, ListFrame DEF ListIInv, ListTyped
    <2> QED
      BY <2>4, <2>5
  <1> QED
    BY <1>1, <1>2, <1>3 DEF RefreshEnds

\* A message that the server stores is broadcast later.
LEMMA StoredLeaves ==
    ASSUME ListIInv, NEW sender \in Sender, Stored(sender)
    PROVE  /\ history' \in Seq(Sender) /\ Len(history') = Len(history) + 1
           /\ Len(history') <= MaxMessages /\ Len(history') \in Message
           /\ 1 .. Len(history') = 1 .. Len(history) \cup {Len(history')}
           /\ unsent' = unsent \cup {Len(history')} /\ unsent' \in SUBSET Message
  <1>1. history \in Seq(Sender) /\ Len(history) \in Nat /\ unsent \in SUBSET Message
        /\ MaxMessages \in Nat
    BY Lengths DEF ListIInv, ListTyped
  <1>2. /\ Len(history) < MaxMessages /\ history' = Append(history, sender)
        /\ unsent' = unsent \cup {Len(history')}
    BY DEF Stored
  <1>3. history' \in Seq(Sender) /\ Len(history') = Len(history) + 1
    BY <1>1, <1>2
  <1>4. /\ Len(history') <= MaxMessages /\ Len(history') \in Message
        /\ 1 .. Len(history') = 1 .. Len(history) \cup {Len(history')}
    BY <1>1, <1>2, <1>3 DEF Message
  <1> QED
    BY <1>1, <1>2, <1>3, <1>4

\* A message that is stored is about to be broadcast.
LEMMA StoredList ==
    ASSUME ListIInv, NEW sender \in Sender, Stored(sender),
           sending' \in Sending \cup {None}, sending' # None => sending'.stored <= Len(history'),
           UNCHANGED <<chat, socket, frames, messages, draft, load, notes>>
    PROVE  ListIInv'
  <1>1. /\ history' \in Seq(Sender) /\ Len(history') = Len(history) + 1
        /\ Len(history') <= MaxMessages /\ Len(history') \in Message
        /\ 1 .. Len(history') = 1 .. Len(history) \cup {Len(history')}
        /\ unsent' = unsent \cup {Len(history')} /\ unsent' \in SUBSET Message
    BY StoredLeaves
  <1>2. Len(history) \in Nat /\ load.upto \in Nat /\ Limit \in Nat
    BY Lengths DEF ListIInv
  <1>3. ListTyped'
    BY <1>1 DEF ListIInv, ListTyped
  <1>4. ListInv'
    <2>1. load.upto <= Len(history')
      BY <1>1, <1>2 DEF ListIInv, ListInv
    <2>2. ToSet(messages) \cup ToSet(frames) \cup unsent' \subseteq 1 .. Len(history')
      BY <1>1 DEF ListIInv, ListInv
    <2> QED
      BY <2>1, <2>2 DEF ListIInv, ListInv
  <1>5. HeldInv'
    <2>1. Len(history') <= Limit => Len(history) <= Limit
      BY <1>1, <1>2
    <2> QED
      BY <1>1, <2>1 DEF ListIInv, HeldInv
  <1> QED
    BY <1>3, <1>4, <1>5 DEF ListIInv

\* A broadcast reaches the socket, if it is open.
LEMMA BroadcastList ==
    ASSUME ListIInv, NEW m \in Message, Broadcast(m)
    PROVE  ListIInv'
  <1>1. /\ m \in unsent /\ unsent' = unsent \ {m}
        /\ frames' = IF socket = "open" THEN Append(frames, m) ELSE frames
        /\ UNCHANGED <<chat, history, socket, messages, draft, sending, load, notes>>
    BY DEF Broadcast
  <1>2. /\ frames' \in Seq(Message) /\ ToSet(frames') \subseteq ToSet(frames) \cup {m}
        /\ socket = "open" => ToSet(frames') = ToSet(frames) \cup {m}
    BY <1>1, ToSetTyped DEF ListIInv, ListTyped
  <1>3. ListTyped'
    BY <1>1, <1>2 DEF ListIInv, ListTyped
  <1>4. ListInv' /\ HeldInv'
    BY <1>1, <1>2 DEF ListIInv, ListInv, HeldInv
  <1> QED
    BY <1>3, <1>4 DEF ListIInv

\* The socket opens, or is lost for good, which is noted.
LEMMA SocketList ==
    ASSUME ListIInv, SocketOpened \/ SocketLost
    PROVE  ListIInv'
  <1>1. CASE SocketOpened
    <2>1. /\ socket' = "open"
          /\ UNCHANGED <<chat, history, unsent, frames, messages, draft, sending, load, notes>>
      BY <1>1 DEF SocketOpened
    <2> QED
      BY <2>1 DEF ListIInv, ListTyped, ListInv, HeldInv
  <1>2. CASE SocketLost
    <2>1. /\ socket' = "lost" /\ frames' = <<>> /\ notes' = [notes EXCEPT !.missed = TRUE]
          /\ UNCHANGED <<chat, history, unsent, messages, draft, sending, load>>
      BY <1>2 DEF SocketLost
    <2>2. notes' \in Notes /\ notes'.missed = TRUE /\ notes'.early = notes.early
      BY <2>1 DEF ListIInv, ListTyped, Notes
    <2>3. frames' \in Seq(Message) /\ ToSet(frames') = {}
      BY <2>1 DEF ToSet
    <2> QED
      BY <2>1, <2>2, <2>3 DEF ListIInv, ListTyped, ListInv, HeldInv
  <1> QED
    BY <1>1, <1>2

\* A frame is added unless its message is there.
LEMMA FrameArrivedList ==
    ASSUME ListIInv, FrameArrived
    PROVE  ListIInv'
  <1>1. /\ frames # <<>> /\ messages' = dedupeMessagesById(Append(messages, Head(frames)))
        /\ frames' = Tail(frames)
        /\ UNCHANGED <<chat, history, unsent, socket, draft, sending, load, notes>>
    BY DEF FrameArrived
  <1>2. /\ Head(frames) \in Message /\ frames' \in Seq(Message)
        /\ ToSet(frames) = {Head(frames)} \cup ToSet(frames')
    BY <1>1, FramesFirst DEF ListIInv, ListTyped
  <1>3. PICK m \in Message : m = Head(frames)
    BY <1>2
  <1>4. /\ messages' \in Seq(Message) /\ Unique(messages')
        /\ ToSet(messages') = ToSet(messages) \cup {m}
    BY <1>1, <1>3, Appended DEF ListIInv, ListTyped
  <1>5. ListTyped'
    BY <1>1, <1>2, <1>4 DEF ListIInv, ListTyped
  <1>6. ListInv' /\ HeldInv'
    BY <1>1, <1>2, <1>3, <1>4 DEF ListIInv, ListInv, HeldInv
  <1> QED
    BY <1>5, <1>6 DEF ListIInv

\* The answer to sending is added likewise.
LEMMA SendList ==
    ASSUME ListIInv, Type \/ Send \/ SendEnds
    PROVE  ListIInv'
  <1>1. CASE Type
    <2>1. /\ draft' \in BOOLEAN
          /\ UNCHANGED <<chat, history, unsent, socket, frames, messages, sending, load, notes>>
      BY <1>1 DEF Type
    <2> QED
      BY <2>1 DEF ListIInv, ListTyped, ListInv, HeldInv
  <1>2. CASE Send
    <2>1. /\ draft' = FALSE /\ sending' = [stored |-> 0]
          /\ UNCHANGED <<chat, history, unsent, socket, frames, messages, load, notes>>
      BY <1>2 DEF Send
    <2>2. sending' \in Sending /\ sending'.stored = 0
      BY <2>1, LimitAssumption DEF Sending
    <2>3. Len(history) \in Nat
      BY Lengths DEF ListIInv
    <2>4. ListTyped'
      BY <2>1, <2>2 DEF ListIInv, ListTyped
    <2>5. ListInv'
      BY <2>1, <2>2, <2>3 DEF ListIInv, ListInv
    <2>6. HeldInv'
      BY <2>1 DEF ListIInv, HeldInv
    <2> QED
      BY <2>4, <2>5, <2>6 DEF ListIInv
  <1>3. CASE SendServed
    <2>1. /\ Stored("me") /\ sending' = [stored |-> Len(history')]
          /\ UNCHANGED <<chat, socket, frames, messages, draft, load, notes>>
      BY <1>3 DEF SendServed
    <2>2. Len(history') \in Message /\ "me" \in Sender
      BY <2>1, StoredLeaves DEF Sender
    <2>3. sending' \in Sending /\ sending'.stored = Len(history')
      BY <2>1, <2>2 DEF Sending, Message
    <2>4. sending'.stored <= Len(history')
      BY <2>2, <2>3 DEF Message
    <2> QED
      BY <2>1, <2>2, <2>3, <2>4, StoredList
  <1>4. CASE SendAnswered
    <2>1. /\ sending # None /\ sending.stored # 0
          /\ messages' = dedupeMessagesById(Append(messages, sending.stored)) /\ sending' = None
          /\ UNCHANGED <<chat, history, unsent, socket, frames, draft, load, notes>>
      BY <1>4 DEF SendAnswered
    <2>2. sending.stored \in 1 .. Len(history) /\ sending.stored \in Message
      BY <2>1, Lengths DEF ListIInv, ListTyped, ListInv, Sending, Message
    <2>3. /\ messages' \in Seq(Message) /\ Unique(messages')
          /\ ToSet(messages') = ToSet(messages) \cup {sending.stored}
      BY <2>1, <2>2, Appended DEF ListIInv, ListTyped
    <2> QED
      BY <2>1, <2>2, <2>3 DEF ListIInv, ListTyped, ListInv, HeldInv
  <1>5. CASE SendFailed
    <2>1. /\ draft' = TRUE /\ sending' = None
          /\ UNCHANGED <<chat, history, unsent, socket, frames, messages, load, notes>>
      BY <1>5 DEF SendFailed
    <2> QED
      BY <2>1 DEF ListIInv, ListTyped, ListInv, HeldInv
  <1> QED
    BY <1>1, <1>2, <1>3, <1>4, <1>5 DEF SendEnds

\* The screens above the conversation, the proposals and the blocking.
LEMMA CardsList ==
    ASSUME ListIInv, NEW p,
           \/ LeaveChat \/ ReturnToChat \/ ProposeThere(p) \/ CancelThere(p) \/ PartnerBooks(p)
           \/ (\E to \in {"confirmed", "declined"} : Decide(p, to)) \/ DecisionEnds
           \/ performBlock \/ BlockEnds
    PROVE  ListIInv'
  <1>1. chat \in {None, "front", "under", "left"} /\ notes \in Notes
        /\ {"front", "under", "left"} \cap {None} = {}
    BY NoChatAssumption DEF ListIInv, ListTyped
  <1>2. CASE LeaveChat
    BY <1>1, <1>2, ListFrame DEF LeaveChat, listVars, ChatOffers
  <1>3. CASE ReturnToChat
    <2>1. PICK b \in BOOLEAN : b = (notes.others \/ Crossing')
      OBVIOUS
    <2>2. notes' = [notes EXCEPT !.others = b]
      BY <1>3, <2>1 DEF ReturnToChat, Crossed
    <2> QED
      BY <1>1, <1>3, <2>2, OthersTyped, ListFrame DEF ReturnToChat, listVars
  <1>4. CASE ProposeThere(p) \/ CancelThere(p)
    BY <1>1, <1>4, ListFrame DEF ProposeThere, CancelThere, listVars
  <1>5. CASE PartnerBooks(p)
    <2>1. PICK b \in BOOLEAN :
              b = (notes.others \/ \A s \in RefreshSlot : refreshes[s] = None \/ refreshes[s].read)
      BY <1>1 DEF Notes
    <2>2. notes' = [notes EXCEPT !.others = b]
      BY <1>5, <2>1 DEF PartnerBooks
    <2> QED
      BY <1>1, <1>5, <2>2, OthersTyped, ListFrame DEF PartnerBooks, listVars
  <1>6. CASE \E to \in {"confirmed", "declined"} : Decide(p, to)
    <2>1. PICK b \in BOOLEAN : b = (notes.others \/ Crossing')
      OBVIOUS
    <2>2. notes' = [notes EXCEPT !.others = b]
      BY <1>6, <2>1 DEF Decide, Crossed
    <2> QED
      BY <1>1, <1>6, <2>2, OthersTyped, ListFrame DEF Decide, listVars
  <1>7. CASE DecisionServed \/ DecisionAnswered
    BY <1>1, <1>7, ListFrame DEF DecisionServed, DecisionAnswered, listVars
  <1>8. CASE DecisionFailed
    <2>1. PICK b \in BOOLEAN : b = (notes.others \/ deciding.phase = "accepted")
      BY <1>1 DEF Notes
    <2>2. notes' = [notes EXCEPT !.others = b]
      BY <1>8, <2>1 DEF DecisionFailed
    <2> QED
      BY <1>1, <1>8, <2>2, OthersTyped, ListFrame DEF DecisionFailed, listVars
  <1>9. CASE performBlock \/ BlockFailed
    BY <1>1, <1>9, ListFrame DEF performBlock, BlockFailed, listVars
  <1>10. CASE BlockAnswered
    <2>1. /\ chat' = "left" /\ socket' = "closed" /\ frames' = <<>>
          /\ UNCHANGED <<history, unsent, messages, draft, sending, load, notes>>
      BY <1>10 DEF BlockAnswered
    <2>2. frames' \in Seq(Message) /\ ToSet(frames') = {}
      BY <2>1 DEF ToSet
    <2> QED
      BY <1>1, <2>1, <2>2 DEF ListIInv, ListTyped, ListInv, HeldInv
  <1> QED
    BY <1>2, <1>3, <1>4, <1>5, <1>6, <1>7, <1>8, <1>9, <1>10 DEF DecisionEnds, BlockEnds

\* Every step keeps the invariant of the messages.
LEMMA ListNext ==
    ASSUME ListIInv, refreshes \in [RefreshSlot -> RefreshState \cup {None}],
           [ChatNext]_chatVars
    PROVE  ListIInv'
  <1>1. CASE PartnerSends
    <2>1. Stored("partner") /\ UNCHANGED <<chat, socket, frames, messages, draft, sending, load, notes>>
      BY <1>1 DEF PartnerSends
    <2>2. sending' \in Sending \cup {None} /\ "partner" \in Sender
      BY <2>1 DEF ListIInv, ListTyped, Sender
    <2>3. sending' # None => sending'.stored <= Len(history')
      <3>1. sending # None => sending.stored <= Len(history) /\ sending.stored \in Nat
        BY Lengths DEF ListIInv, ListInv
      <3>2. Len(history') = Len(history) + 1 /\ Len(history) \in Nat
        BY <2>1, <2>2, StoredLeaves, Lengths DEF ListIInv
      <3> QED
        BY <2>1, <3>1, <3>2
    <2> QED
      BY <2>1, <2>2, <2>3, StoredList
  <1>2. CASE UNCHANGED chatVars
    BY <1>2, ListFrame DEF chatVars, listVars, ListIInv, ListTyped
  <1>3. CASE \E s \in RefreshSlot : RefreshEnds(s)
    BY <1>3, RefreshEndsList
  <1>4. CASE \E m \in Message : Broadcast(m)
    BY <1>4, BroadcastList
  <1> QED
    BY <1>1, <1>2, <1>3, <1>4, OpenChatList, TryAgainList, HistoryEndsList, SocketList,
       FrameArrivedList, SendList, CardsList DEF ChatNext

-----------------------------------------------------------------------------
(* The cards.                                                              *)

CardsTyped ==
    /\ booked \in Cards /\ proposals \in Cards
    /\ refreshes \in [RefreshSlot -> RefreshState \cup {None}]
    /\ deciding \in Deciding \cup {None} /\ blocking \in BOOLEAN

CardIInv == CardsTyped /\ KnownInv /\ CardInv

\* The inductive invariant of the conversation.
ChatIInv == ListIInv /\ CardIInv

\* What leaves the cards alone.
LEMMA CardFrame ==
    ASSUME CardIInv, UNCHANGED <<booked, proposals, refreshes, deciding>>, blocking' \in BOOLEAN,
           notes.others => notes'.others, notes.missed => notes'.missed,
           chat' = "front" => chat = "front", chat' = None => chat = None
    PROVE  CardIInv'
  <1>1. CardsTyped'
    BY DEF CardIInv, CardsTyped
  <1>2. KnownInv'
    BY DEF CardIInv, KnownInv
  <1>3. Crossing' = Crossing
    BY DEF Crossing
  <1>4. Visible(booked)' = Visible(booked) /\ Answered(proposals)' = Answered(proposals)
    BY DEF Visible, Answered
  <1>5. CardInv'
    BY <1>3, <1>4 DEF CardIInv, CardInv
  <1> QED
    BY <1>1, <1>2, <1>5 DEF CardIInv

\* A fetch that starts, on a screen that is in front.
LEMMA RefreshedCards ==
    ASSUME CardIInv, NEW ofLoad \in BOOLEAN, Refreshed(ofLoad),
           UNCHANGED <<booked, proposals, deciding, blocking>>,
           Crossing' => notes'.others, chat' = "front"
    PROVE  CardIInv'
  <1>1. /\ refreshes' \in [RefreshSlot -> RefreshState \cup {None}]
        /\ \E s \in RefreshSlot :
                 /\ refreshes[s] = None /\ refreshes'[s] # None /\ ~refreshes'[s].read
                 /\ refreshes'[s].items = NoCards
                 /\ \A q \in RefreshSlot \ {s} : refreshes'[q] = refreshes[q]
    BY RefreshedTyped DEF CardIInv, CardsTyped
  <1>2. PICK s \in RefreshSlot :
            /\ refreshes[s] = None /\ refreshes'[s] # None /\ ~refreshes'[s].read
            /\ refreshes'[s].items = NoCards
            /\ \A q \in RefreshSlot \ {s} : refreshes'[q] = refreshes[q]
    BY <1>1
  <1>3. CardsTyped'
    BY <1>1 DEF CardIInv, CardsTyped
  <1>4. KnownInv'
    BY <1>2 DEF CardIInv, KnownInv, NoCards
  <1>5. ~notes'.others => \A q \in RefreshSlot \ {s} : refreshes'[q] = None
    BY <1>2 DEF Crossing
  <1>6. CardInv'
    BY <1>2, <1>5, NoChatAssumption DEF CardInv
  <1> QED
    BY <1>3, <1>4, <1>6 DEF CardIInv

\* The chat opens with the proposals asked for.
LEMMA OpenChatCards ==
    ASSUME CardIInv, notes \in Notes, OpenChat
    PROVE  CardIInv'
  <1>1. /\ Refreshed(TRUE) /\ UNCHANGED <<booked, proposals, deciding, blocking, notes>>
        /\ chat = None /\ chat' = "front"
    BY DEF OpenChat
  <1>2. /\ deciding = None /\ \A s \in RefreshSlot : refreshes[s] = None
    BY <1>1 DEF CardIInv, CardInv
  <1>3. PICK s \in RefreshSlot : \A q \in RefreshSlot \ {s} : refreshes'[q] = refreshes[q]
    BY <1>1, RefreshedTyped DEF CardIInv, CardsTyped
  <1>4. ~Crossing'
    BY <1>1, <1>2, <1>3 DEF Crossing
  <1> QED
    BY <1>1, <1>4, RefreshedCards

\* A fetch that may cross another one says so.
LEMMA FetchCards ==
    ASSUME CardIInv, notes \in Notes, chat' = "front", \E ofLoad \in BOOLEAN : Refreshed(ofLoad),
           UNCHANGED <<booked, proposals, deciding, blocking>>, notes' = Crossed
    PROVE  CardIInv'
  <1>1. PICK b \in BOOLEAN : b = (notes.others \/ Crossing')
    OBVIOUS
  <1>2. notes'.others = b
    BY <1>1, OthersTyped DEF Crossed
  <1> QED
    BY <1>1, <1>2, RefreshedCards

\* A fetch that ends makes the cards those of the server, unless it crossed
\* something.
LEMMA RefreshEndsCards ==
    ASSUME CardIInv, notes \in Notes, NEW s \in RefreshSlot, RefreshEnds(s)
    PROVE  CardIInv'
  <1>1. refreshes[s] # None /\ refreshes[s] \in RefreshState
    BY DEF CardIInv, CardsTyped, RefreshEnds, RefreshRead, RefreshArrived, RefreshFailed
  <1>2. CASE RefreshRead(s)
    <2>1. PICK r : r = [refreshes[s] EXCEPT !.read = TRUE, !.items = Visible(booked)]
      OBVIOUS
    <2>2. r \in RefreshState /\ r.items = Visible(booked)
      BY <1>1, <2>1, VisibleTyped DEF CardIInv, CardsTyped, RefreshState
    <2>3. /\ refreshes' = [refreshes EXCEPT ![s] = r]
          /\ UNCHANGED <<chat, booked, proposals, deciding, blocking, notes>>
      BY <1>2, <2>1 DEF RefreshRead
    <2>4. r # None
      BY <2>2, NoChatAssumption
    <2>5. /\ \A q \in RefreshSlot : (refreshes'[q] = None) = (refreshes[q] = None)
          /\ refreshes'[s] = r /\ \A q \in RefreshSlot \ {s} : refreshes'[q] = refreshes[q]
      BY <1>1, <2>3, <2>4 DEF CardIInv, CardsTyped
    <2>6. CardsTyped'
      BY <2>2, <2>3 DEF CardIInv, CardsTyped
    <2>7. KnownInv'
      BY <2>2, <2>3, <2>5, VisibleTyped DEF CardIInv, KnownInv, CardsTyped
    <2>8. Crossing' = Crossing
      BY <2>3, <2>5 DEF Crossing
    <2>9. Visible(booked)' = Visible(booked) /\ Answered(proposals)' = Answered(proposals)
      BY <2>3 DEF Visible, Answered
    <2>10. CardInv'
      BY <1>1, <2>2, <2>3, <2>5, <2>8, <2>9 DEF CardIInv, CardInv
    <2> QED
      BY <2>6, <2>7, <2>10 DEF CardIInv
  <1>3. CASE RefreshArrived(s)
    <2>1. /\ refreshes[s].read /\ proposals' = refreshes[s].items
          /\ refreshes' = [refreshes EXCEPT ![s] = None]
          /\ UNCHANGED <<chat, booked, deciding, blocking, notes>>
      BY <1>3 DEF RefreshArrived
    <2>2. /\ refreshes'[s] = None /\ \A q \in RefreshSlot \ {s} : refreshes'[q] = refreshes[q]
      BY <2>1 DEF CardIInv, CardsTyped
    <2>3. CardsTyped'
      BY <1>1, <2>1 DEF CardIInv, CardsTyped, RefreshState
    <2>4. KnownInv'
      BY <1>1, <2>1, <2>2 DEF CardIInv, KnownInv
    <2>5. Crossing' => Crossing
      BY <2>1, <2>2 DEF Crossing
    <2>6. Visible(booked)' = Visible(booked)
      BY <2>1 DEF Visible
    <2>7. ~notes.others => deciding = None
      BY <1>1 DEF CardIInv, CardInv, Crossing
    <2>8. CardInv'
      <3>1. chat = "front" /\ ~notes.others /\ ~notes.missed => proposals' = Visible(booked)
        BY <1>1, <2>1 DEF CardIInv, CardInv
      <3>2. /\ Crossing' => notes'.others
            /\ chat' = None => deciding' = None /\ \A q \in RefreshSlot : refreshes'[q] = None
        BY <2>1, <2>2, <2>5 DEF CardIInv, CardInv
      <3>3. chat = "front" /\ ~notes.others /\ ~notes.missed =>
                \A q \in RefreshSlot :
                    refreshes'[q] # None /\ refreshes'[q].read => refreshes'[q].items = Visible(booked)
        BY <2>2 DEF CardIInv, CardInv
      <3> QED
        BY <2>1, <2>6, <2>7, <3>1, <3>2, <3>3 DEF CardInv
    <2> QED
      BY <2>3, <2>4, <2>8 DEF CardIInv
  <1>4. CASE RefreshFailed(s)
    <2>1. /\ refreshes' = [refreshes EXCEPT ![s] = None]
          /\ notes' = [notes EXCEPT !.others = TRUE, !.missed = @ \/ refreshes[s].ofLoad]
          /\ UNCHANGED <<chat, booked, proposals, deciding, blocking>>
      BY <1>4 DEF RefreshFailed
    <2>2. /\ refreshes'[s] = None /\ \A q \in RefreshSlot \ {s} : refreshes'[q] = refreshes[q]
          /\ notes'.others = TRUE
      BY <2>1 DEF CardIInv, CardsTyped, Notes
    <2>3. CardsTyped' /\ KnownInv'
      BY <2>1, <2>2 DEF CardIInv, CardsTyped, KnownInv
    <2>4. CardInv'
      BY <2>1, <2>2 DEF CardIInv, CardInv
    <2> QED
      BY <2>3, <2>4 DEF CardIInv
  <1> QED
    BY <1>2, <1>3, <1>4 DEF RefreshEnds

\* The fetches stay on their way when the history fails.
LEMMA HistoryEndsCards ==
    ASSUME CardIInv, notes \in Notes, HistoryEnds
    PROVE  CardIInv'
  <1>1. CASE HistoryRead \/ HistoryArrived
    <2>1. /\ UNCHANGED <<chat, booked, proposals, refreshes, deciding, blocking>>
          /\ notes'.others = notes.others /\ notes'.missed = notes.missed
      BY <1>1 DEF HistoryRead, HistoryArrived, cardVars, Notes
    <2> QED
      BY <2>1, CardFrame DEF CardIInv, CardsTyped
  <1>2. CASE HistoryFailed
    <2>1. /\ refreshes' = [s \in RefreshSlot |-> IF refreshes[s] = None THEN None
                                    ELSE [refreshes[s] EXCEPT !.ofLoad = FALSE]]
          /\ UNCHANGED <<chat, booked, proposals, deciding, blocking>>
          /\ notes'.missed = TRUE /\ notes'.others = notes.others
      BY <1>2 DEF HistoryFailed, Notes
    <2>2. ASSUME NEW s \in RefreshSlot, refreshes[s] # None
          PROVE  /\ refreshes'[s] \in RefreshState
                 /\ refreshes'[s] # None /\ refreshes'[s].items = refreshes[s].items
      <3>1. refreshes[s] \in RefreshState /\ refreshes'[s] = [refreshes[s] EXCEPT !.ofLoad = FALSE]
        BY <2>1, <2>2 DEF CardIInv, CardsTyped
      <3>2. refreshes'[s] \in RefreshState /\ refreshes'[s].items = refreshes[s].items
        BY <3>1 DEF RefreshState
      <3> QED
        BY <3>2, NoChatAssumption
    <2>3. \A s \in RefreshSlot : refreshes[s] = None => refreshes'[s] = None
      BY <2>1
    <2>4. refreshes' \in [RefreshSlot -> RefreshState \cup {None}]
      <3>1. PICK r : r = [s \in RefreshSlot |-> IF refreshes[s] = None THEN None
                                    ELSE [refreshes[s] EXCEPT !.ofLoad = FALSE]]
        OBVIOUS
      <3>2. refreshes' = r /\ \A s \in RefreshSlot : r[s] \in RefreshState \cup {None}
        BY <2>1, <2>2, <2>3, <3>1
      <3> QED
        BY <3>1, <3>2
    <2>5. CardsTyped'
      BY <2>1, <2>4 DEF CardIInv, CardsTyped
    <2>6. KnownInv'
      BY <2>1, <2>2, <2>3 DEF CardIInv, KnownInv
    <2>7. Crossing' => Crossing
      BY <2>1, <2>3 DEF Crossing
    <2>8. CardInv'
      BY <2>1, <2>3, <2>7 DEF CardIInv, CardInv
    <2> QED
      BY <2>5, <2>6, <2>8 DEF CardIInv
  <1> QED
    BY <1>1, <1>2 DEF HistoryEnds

\* A booking that changes is still known.
LEMMA BookedLeaves ==
    ASSUME CardIInv, NEW p \in Proposal, NEW b \in BookingItem,
           booked' = [booked EXCEPT ![p] = b], UNCHANGED <<proposals, refreshes, deciding, blocking>>
    PROVE  /\ CardsTyped' /\ KnownInv' /\ booked'[p] = b
           /\ \A q \in Proposal \ {p} : booked'[q] = booked[q]
  <1>1. /\ booked'[p] = b /\ b # None
        /\ \A q \in Proposal \ {p} : booked'[q] = booked[q]
    BY NoChatAssumption DEF CardIInv, CardsTyped, Cards
  <1>2. CardsTyped'
    BY DEF CardIInv, CardsTyped, Cards
  <1>3. KnownInv'
    <2>1. deciding # None => deciding.id \in Proposal
      BY DEF CardIInv, CardsTyped, Deciding
    <2> QED
      BY <1>1, <2>1 DEF CardIInv, KnownInv
  <1> QED
    BY <1>1, <1>2, <1>3

\* What is proposed or cancelled on another screen is fetched on return.
LEMMA ElsewhereCards ==
    ASSUME CardIInv, NEW p \in Proposal, ProposeThere(p) \/ CancelThere(p)
    PROVE  CardIInv'
  <1>1. /\ UNCHANGED <<chat, proposals, refreshes, deciding, blocking, notes>>
        /\ chat = "under"
    BY DEF ProposeThere, CancelThere
  <1>2. \E b \in BookingItem : booked' = [booked EXCEPT ![p] = b]
    <2>1. CASE ProposeThere(p)
      <3>1. [proposer |-> "me", status |-> "proposed"] \in BookingItem
        BY DEF BookingItem, Sender, ProposalStatus
      <3> QED
        BY <2>1, <3>1 DEF ProposeThere
    <2>2. CASE CancelThere(p)
      <3>1. booked[p] \in BookingItem
        BY <2>2 DEF CancelThere, CardIInv, CardsTyped, Cards
      <3>2. [booked[p] EXCEPT !.status = "cancelled"] \in BookingItem
        BY <3>1 DEF BookingItem, ProposalStatus
      <3>3. booked' = [booked EXCEPT ![p] = [booked[p] EXCEPT !.status = "cancelled"]]
        BY <2>2 DEF CancelThere
      <3> QED
        BY <3>2, <3>3
    <2> QED
      BY <2>1, <2>2
  <1>3. CardsTyped' /\ KnownInv'
    BY <1>1, <1>2, BookedLeaves
  <1>4. Crossing' = Crossing
    BY <1>1 DEF Crossing
  <1>5. CardInv'
    BY <1>1, <1>4, NoChatAssumption DEF CardIInv, CardInv
  <1> QED
    BY <1>3, <1>5 DEF CardIInv

\* What the partner does is noted.
LEMMA PartnerBooksCards ==
    ASSUME CardIInv, notes \in Notes, NEW p \in Proposal, PartnerBooks(p)
    PROVE  CardIInv'
  <1>1. /\ UNCHANGED <<chat, proposals, refreshes, deciding, blocking>>
        /\ chat # None
    BY DEF PartnerBooks
  <1>2. \E b \in BookingItem : booked' = [booked EXCEPT ![p] = b]
    <2>1. CASE booked[p] = None
      <3>1. [proposer |-> "partner", status |-> "proposed"] \in BookingItem
        BY DEF BookingItem, Sender, ProposalStatus
      <3> QED
        BY <2>1, <3>1 DEF PartnerBooks
    <2>2. CASE booked[p] # None
      <3>1. booked[p] \in BookingItem
        BY <2>2 DEF CardIInv, CardsTyped, Cards
      <3>2. \E to : to \in ProposalStatus
                    /\ booked' = [booked EXCEPT ![p] = [booked[p] EXCEPT !.status = to]]
        <4>1. CASE booked[p].status = "confirmed"
          BY <2>2, <4>1 DEF PartnerBooks, ProposalStatus
        <4>2. CASE booked[p].status # "confirmed" /\ booked[p].status # "proposed"
          BY <2>2, <4>2 DEF PartnerBooks
        <4>3. CASE booked[p].status = "proposed"
          BY <2>2, <4>3 DEF PartnerBooks, ProposalStatus
        <4> QED
          BY <4>1, <4>2, <4>3
      <3>3. \A to \in ProposalStatus : [booked[p] EXCEPT !.status = to] \in BookingItem
        BY <3>1 DEF BookingItem
      <3> QED
        BY <3>2, <3>3
    <2> QED
      BY <2>1, <2>2
  <1>3. CardsTyped' /\ KnownInv'
    BY <1>1, <1>2, BookedLeaves
  <1>4. PICK o \in BOOLEAN :
            o = (notes.others \/ \A s \in RefreshSlot : refreshes[s] = None \/ refreshes[s].read)
    BY DEF Notes
  <1>5. notes'.others = o
    <2>1. notes' = [notes EXCEPT !.others = o]
      BY <1>4 DEF PartnerBooks
    <2> QED
      BY <2>1, OthersTyped
  <1>6. Crossing' = Crossing
    BY <1>1 DEF Crossing
  \* A fetch that is still to read is the only one.
  <1>7. ~notes'.others => /\ \E s \in RefreshSlot : refreshes[s] # None
                          /\ \A s \in RefreshSlot : refreshes[s] # None => ~refreshes[s].read
    BY <1>4, <1>5 DEF CardIInv, CardInv, Crossing
  <1>8. CardInv'
    BY <1>1, <1>4, <1>5, <1>6, <1>7 DEF CardIInv, CardInv
  <1> QED
    BY <1>3, <1>8 DEF CardIInv

\* Only a proposal of the partner that nobody has answered has buttons.
LEMMA DecideGuard ==
    ASSUME NEW p \in Proposal, p \in ChatOffers
    PROVE  chat = "front" /\ showActionButtons(p) /\ deciding = None
  <1>1. p \in HeaderOffers \cup TimelineOffers /\ chat = "front"
    BY DEF ChatOffers
  <1>2. p \notin {"propose", "report", "block", "again", "type", "send"}
    BY NoProposalAssumption
  <1>3. p \in TimelineOffers
    BY <1>1, <1>2 DEF HeaderOffers, SafetyMenu
  <1>4. p \in UNION {CardOffers(q) : q \in Proposal}
    <2>1. CASE load.isLoading
      BY <1>3, <2>1 DEF TimelineOffers
    <2>2. CASE ~load.isLoading /\ load.fetchError
      BY <1>2, <1>3, <2>2 DEF TimelineOffers
    <2>3. CASE ~load.isLoading /\ ~load.fetchError
      <3>1. p \in {"type"} \cup (IF draft /\ sending = None THEN {"send"} ELSE {}) \cup
                  UNION {CardOffers(q) : q \in Proposal}
        BY <1>3, <2>3 DEF TimelineOffers
      <3> QED
        BY <1>2, <3>1
    <2> QED
      BY <2>1, <2>2, <2>3
  <1>5. PICK q \in Proposal : p \in CardOffers(q)
    BY <1>4
  <1> QED
    BY <1>1, <1>5 DEF CardOffers

\* A decision is sent while the card shows the proposal.
LEMMA DecideCards ==
    ASSUME CardIInv, notes \in Notes, NEW p \in Proposal, NEW to \in {"confirmed", "declined"},
           Decide(p, to)
    PROVE  CardIInv'
  <1>1. PICK d : d = [id |-> p, to |-> to, phase |-> "sent"]
    OBVIOUS
  <1>2. d \in Deciding /\ d # None /\ d.id = p /\ d.phase = "sent"
    <2>1. d \in Deciding /\ d.id = p /\ d.phase = "sent"
      BY <1>1 DEF Deciding
    <2> QED
      BY <2>1, NoChatAssumption
  <1>3. /\ UNCHANGED <<chat, booked, proposals, refreshes, blocking>> /\ deciding' = d
        /\ p \in ChatOffers
    BY <1>1 DEF Decide
  <1>4. chat = "front" /\ deciding = None /\ proposals[p] # None
    BY <1>3, DecideGuard DEF showActionButtons
  <1>5. CardsTyped'
    BY <1>2, <1>3 DEF CardIInv, CardsTyped
  <1>6. KnownInv'
    BY <1>2, <1>3, <1>4 DEF CardIInv, KnownInv
  <1>7. PICK b \in BOOLEAN : b = (notes.others \/ Crossing')
    OBVIOUS
  <1>8. notes'.others = b /\ notes'.missed = notes.missed
    <2>1. notes' = [notes EXCEPT !.others = b]
      BY <1>7 DEF Decide, Crossed
    <2> QED
      BY <2>1, OthersTyped
  <1>9. ~notes'.others => \A s \in RefreshSlot : refreshes[s] = None
    BY <1>2, <1>3, <1>7, <1>8 DEF Crossing
  <1>10. Visible(booked)' = Visible(booked)
    BY <1>3 DEF Visible
  <1>11. CardInv'
    <2>1. Crossing' => notes'.others
      BY <1>7, <1>8
    <2>2. chat' # None
      BY <1>3, <1>4, NoChatAssumption
    <2>3. ~notes'.others /\ ~notes'.missed => proposals = Visible(booked)
      BY <1>4, <1>7, <1>8, <1>9 DEF CardIInv, CardInv
    <2> QED
      BY <1>2, <1>3, <1>9, <1>10, <2>1, <2>2, <2>3 DEF CardInv
  <1> QED
    BY <1>5, <1>6, <1>11 DEF CardIInv

\* The server changes a proposal that the card shows: the answer, when it comes,
\* makes the card what the server has.
LEMMA DecisionServedCards ==
    ASSUME CardIInv, DecisionServed
    PROVE  CardIInv'
  <1>1. /\ UNCHANGED <<chat, proposals, refreshes, blocking, notes>>
        /\ deciding # None /\ deciding.phase = "sent"
    BY DEF DecisionServed
  <1>2. deciding \in Deciding
    BY <1>1 DEF CardIInv, CardsTyped
  <1>3. PICK i, t : i = deciding.id /\ t = deciding.to
    OBVIOUS
  <1>4. i \in Proposal /\ t \in {"confirmed", "declined"}
    BY <1>2, <1>3 DEF Deciding
  <1>5. booked[i] # None /\ booked[i] \in BookingItem
    BY <1>1, <1>3, <1>4 DEF CardIInv, CardsTyped, KnownInv, Cards
  <1>6. ~notes.others => \A s \in RefreshSlot : refreshes[s] = None
    BY <1>1 DEF CardIInv, CardInv, Crossing
  <1>7. chat = "front" /\ ~notes.others /\ ~notes.missed => proposals = Visible(booked)
    BY <1>1, <1>6 DEF CardIInv, CardInv
  <1>8. CASE booked[i].status = "proposed" /\ booked[i].proposer = "partner"
    <2>1. PICK b : b = [booked[i] EXCEPT !.status = t]
      OBVIOUS
    <2>2. b \in BookingItem /\ b.status = t
      BY <1>4, <1>5, <2>1 DEF BookingItem, ProposalStatus
    <2>3. booked' = [booked EXCEPT ![i] = b] /\ deciding' = [deciding EXCEPT !.phase = "accepted"]
      BY <1>3, <1>8, <2>1 DEF DecisionServed
    <2>4. PICK d : d = [deciding EXCEPT !.phase = "accepted"]
      OBVIOUS
    <2>5. d \in Deciding /\ d.id = i /\ d.to = t /\ d.phase = "accepted"
      BY <1>2, <1>3, <2>4 DEF Deciding
    <2>6. d # None /\ b # None
      BY <2>2, <2>5, NoChatAssumption
    <2>7. deciding' = d
      BY <2>3, <2>4
    <2>8. CardsTyped'
      BY <1>1, <1>4, <2>2, <2>3, <2>5, <2>7 DEF CardIInv, CardsTyped, Cards
    <2>9. booked'[i] = b /\ \A q \in Proposal \ {i} : booked'[q] = booked[q]
      BY <1>4, <2>3 DEF CardIInv, CardsTyped, Cards
    <2>10. KnownInv'
      BY <1>1, <1>4, <2>5, <2>6, <2>7, <2>9 DEF CardIInv, KnownInv
    <2>11. (deciding' # None) = (deciding # None)
      BY <1>1, <2>6, <2>7
    <2>12. Crossing' = Crossing
      BY <1>1, <2>11 DEF Crossing
    <2>13. Visible(booked)' = [Visible(booked) EXCEPT ![i] = b]
      <3>1. Visible(booked)' = [p \in Proposal |->
                IF booked'[p] # None /\ booked'[p].status \in PROPOSAL_FETCH_STATUSES
                THEN booked'[p] ELSE None]
        BY DEF Visible
      <3>2. t \in PROPOSAL_FETCH_STATUSES
        BY <1>4 DEF PROPOSAL_FETCH_STATUSES
      <3> QED
        BY <1>4, <2>2, <2>6, <2>9, <3>1, <3>2 DEF Visible
    <2>14. proposals = Visible(booked) => Answered(proposals)' = [Visible(booked) EXCEPT ![i] = b]
      <3>1. Answered(proposals)' = [proposals EXCEPT ![i] =
                                      IF @ = None THEN None ELSE [@ EXCEPT !.status = t]]
        BY <1>1, <2>5, <2>7 DEF Answered
      <3>2. Visible(booked)[i] = booked[i]
        BY <1>4, <1>5, <1>8 DEF Visible, PROPOSAL_FETCH_STATUSES
      <3> QED
        BY <1>5, <2>1, <3>1, <3>2
    <2>15. CardInv'
      <3>1. chat # "front" => (chat' # "front")
        BY <1>1
      <3>2. /\ Crossing' => notes'.others
            /\ chat' = None => deciding' = None /\ \A q \in RefreshSlot : refreshes'[q] = None
        BY <1>1, <2>12 DEF CardIInv, CardInv
      <3>3. chat = "front" /\ ~notes.others /\ ~notes.missed =>
                Answered(proposals)' = Visible(booked)'
        BY <1>7, <2>13, <2>14
      <3> QED
        BY <1>1, <1>6, <2>5, <2>6, <2>7, <3>1, <3>2, <3>3 DEF CardInv
    <2> QED
      BY <2>8, <2>10, <2>15 DEF CardIInv
  <1>9. CASE ~(booked[i].status = "proposed" /\ booked[i].proposer = "partner")
    <2>1. UNCHANGED booked /\ deciding' = [deciding EXCEPT !.phase = "refused"]
      BY <1>3, <1>9 DEF DecisionServed
    <2>2. PICK d : d = [deciding EXCEPT !.phase = "refused"]
      OBVIOUS
    <2>3. d \in Deciding /\ d.id = i /\ d.phase = "refused"
      BY <1>2, <1>3, <2>2 DEF Deciding
    <2>4. d # None /\ deciding' = d
      BY <2>1, <2>2, <2>3, NoChatAssumption
    <2>5. CardsTyped' /\ KnownInv'
      BY <1>1, <1>5, <2>1, <2>3, <2>4 DEF CardIInv, CardsTyped, KnownInv
    <2>6. (deciding' # None) = (deciding # None)
      BY <1>1, <2>4
    <2>7. Crossing' = Crossing
      BY <1>1, <2>6 DEF Crossing
    <2>8. Visible(booked)' = Visible(booked)
      BY <2>1 DEF Visible
    <2>9. CardInv'
      BY <1>1, <1>6, <1>7, <2>3, <2>4, <2>7, <2>8 DEF CardIInv, CardInv
    <2> QED
      BY <2>5, <2>9 DEF CardIInv
  <1> QED
    BY <1>8, <1>9

\* Its answer makes the card that of the server; a lost one is noted.
LEMMA DecisionEndsCards ==
    ASSUME CardIInv, notes \in Notes, DecisionEnds
    PROVE  CardIInv'
  <1>1. CASE DecisionServed
    BY <1>1, DecisionServedCards
  <1>2. CASE DecisionAnswered
    <2>1. /\ UNCHANGED <<chat, booked, refreshes, blocking, notes>> /\ deciding' = None
          /\ deciding # None /\ deciding.phase = "accepted" /\ deciding \in Deciding
          /\ proposals' = Answered(proposals)
      BY <1>2 DEF DecisionAnswered, Answered, CardIInv, CardsTyped
    <2>2. PICK i, t : i = deciding.id /\ t = deciding.to
      OBVIOUS
    <2>3. i \in Proposal /\ t \in ProposalStatus
      BY <2>1, <2>2 DEF Deciding, ProposalStatus
    <2>4. proposals' = [proposals EXCEPT ![i] = IF @ = None THEN None ELSE [@ EXCEPT !.status = t]]
      BY <2>1, <2>2 DEF Answered
    <2>5. PICK c : c = IF proposals[i] = None THEN None ELSE [proposals[i] EXCEPT !.status = t]
      OBVIOUS
    <2>6. c \in BookingItem \cup {None} /\ (proposals[i] = None => c = None)
      BY <2>3, <2>5 DEF CardIInv, CardsTyped, Cards, BookingItem
    <2>7. proposals' = [proposals EXCEPT ![i] = c]
      BY <2>4, <2>5
    <2>8. CardsTyped'
      BY <2>1, <2>3, <2>6, <2>7 DEF CardIInv, CardsTyped, Cards
    <2>9. \A p \in Proposal : proposals[p] = None => proposals'[p] = None
      BY <2>3, <2>6, <2>7 DEF CardIInv, CardsTyped, Cards
    <2>10. KnownInv'
      BY <2>1, <2>9 DEF CardIInv, KnownInv
    <2>11. Crossing' => Crossing
      BY <2>1 DEF Crossing
    <2>12. Visible(booked)' = Visible(booked)
      BY <2>1 DEF Visible
    <2>13. CardInv'
      BY <2>1, <2>11, <2>12 DEF CardIInv, CardInv
    <2> QED
      BY <2>8, <2>10, <2>13 DEF CardIInv
  <1>3. CASE DecisionFailed
    <2>1. /\ UNCHANGED <<chat, booked, proposals, refreshes, blocking>> /\ deciding' = None
      BY <1>3 DEF DecisionFailed
    <2>2. PICK b \in BOOLEAN : b = (notes.others \/ deciding.phase = "accepted")
      BY DEF Notes
    <2>3. notes'.others = b /\ notes'.missed = notes.missed
      <3>1. notes' = [notes EXCEPT !.others = b]
        BY <1>3, <2>2 DEF DecisionFailed
      <3> QED
        BY <3>1, OthersTyped
    <2>4. CardsTyped' /\ KnownInv'
      BY <2>1 DEF CardIInv, CardsTyped, KnownInv
    <2>5. Crossing' => Crossing
      BY <2>1 DEF Crossing
    <2>6. Visible(booked)' = Visible(booked)
      BY <2>1 DEF Visible
    <2>7. CardInv'
      BY <2>1, <2>2, <2>3, <2>5, <2>6 DEF CardIInv, CardInv
    <2> QED
      BY <2>4, <2>7 DEF CardIInv
  <1> QED
    BY <1>1, <1>2, <1>3 DEF DecisionEnds

\* What happens to the messages leaves the cards alone.
LEMMA MessagesCards ==
    ASSUME CardIInv, notes \in Notes,
           \/ PartnerSends \/ SocketOpened \/ SocketLost \/ FrameArrived
           \/ (\E m \in Message : Broadcast(m))
           \/ Type \/ Send \/ SendEnds \/ UNCHANGED chatVars
    PROVE  CardIInv'
  <1>1. UNCHANGED <<chat, booked, proposals, refreshes, deciding, blocking>>
    BY DEF PartnerSends, SocketOpened, SocketLost, FrameArrived, Broadcast, Type, Send, SendEnds,
           SendServed, SendAnswered, SendFailed, cardVars, chatVars
  <1>2. (notes.others => notes'.others) /\ (notes.missed => notes'.missed)
    <2>1. CASE SocketLost
      BY <2>1 DEF SocketLost, Notes
    <2>2. CASE ~SocketLost
      BY <2>2 DEF PartnerSends, SocketOpened, FrameArrived, Broadcast, Type, Send, SendEnds,
                  SendServed, SendAnswered, SendFailed, chatVars
    <2> QED
      BY <2>1, <2>2
  <1>3. blocking' \in BOOLEAN
    BY <1>1 DEF CardIInv, CardsTyped
  <1> QED
    BY <1>1, <1>2, <1>3, CardFrame

\* The screen goes under another one, or is left.
LEMMA LeavingCards ==
    ASSUME CardIInv, LeaveChat \/ performBlock \/ BlockEnds
    PROVE  CardIInv'
  <1>1. /\ UNCHANGED <<booked, proposals, refreshes, deciding, notes>> /\ blocking' \in BOOLEAN
        /\ chat' = chat \/ chat' \in {"under", "left"}
    BY DEF LeaveChat, performBlock, BlockEnds, BlockAnswered, BlockFailed, cardVars, CardIInv,
           CardsTyped
  <1>2. "under" # None /\ "left" # None /\ "under" # "front" /\ "left" # "front"
    BY NoChatAssumption
  <1> QED
    BY <1>1, <1>2, CardFrame

\* Every step keeps the invariant of the cards.
LEMMA CardNext ==
    ASSUME CardIInv, ListIInv, [ChatNext]_chatVars
    PROVE  CardIInv'
  <1>1. notes \in Notes
    BY DEF ListIInv, ListTyped
  <1>2. CASE OpenChat
    BY <1>1, <1>2, OpenChatCards
  <1>3. CASE TryAgain
    <2>1. chat = "front" /\ Refreshed(TRUE) /\ notes' = Crossed
          /\ UNCHANGED <<chat, booked, proposals, deciding, blocking>>
      BY <1>3 DEF TryAgain, ChatOffers
    <2> QED
      BY <1>1, <2>1, FetchCards
  <1>4. CASE ReturnToChat
    <2>1. chat' = "front" /\ Refreshed(FALSE) /\ notes' = Crossed
          /\ UNCHANGED <<booked, proposals, deciding, blocking>>
      BY <1>4 DEF ReturnToChat
    <2> QED
      BY <1>1, <2>1, FetchCards
  <1>5. CASE HistoryEnds \/ \E s \in RefreshSlot : RefreshEnds(s)
    BY <1>1, <1>5, HistoryEndsCards, RefreshEndsCards
  <1>6. CASE \E p \in Proposal : ProposeThere(p) \/ CancelThere(p) \/ PartnerBooks(p)
    BY <1>1, <1>6, ElsewhereCards, PartnerBooksCards
  <1>7. CASE \E p \in Proposal : \E to \in {"confirmed", "declined"} : Decide(p, to)
    BY <1>1, <1>7, DecideCards
  <1>8. CASE DecisionEnds
    BY <1>1, <1>8, DecisionEndsCards
  <1>9. CASE \/ PartnerSends \/ SocketOpened \/ SocketLost \/ FrameArrived
             \/ (\E m \in Message : Broadcast(m))
             \/ Type \/ Send \/ SendEnds \/ UNCHANGED chatVars
    BY <1>1, <1>9, MessagesCards
  <1>10. CASE LeaveChat \/ performBlock \/ BlockEnds
    BY <1>10, LeavingCards
  <1> QED
    BY <1>2, <1>3, <1>4, <1>5, <1>6, <1>7, <1>8, <1>9, <1>10 DEF ChatNext

\* At first no chat is open.
LEMMA ChatInitHolds == ChatInit => ListIInv /\ CardIInv
  <1> SUFFICES ASSUME ChatInit
               PROVE  ListIInv /\ CardIInv
    OBVIOUS
  <1>1. messages = <<>> /\ frames = <<>> /\ ToSet(messages) = {} /\ ToSet(frames) = {}
        /\ history = <<>> /\ Len(history) = 0 /\ Len(messages) = 0
    BY DEF ChatInit, ToSet
  <1>2. notes = [early |-> FALSE, missed |-> FALSE, others |-> FALSE]
    BY DEF ChatInit
  <1>3. notes \in Notes /\ ~notes.early
    BY <1>2 DEF Notes
  <1>4. messages \in Seq(Message) /\ frames \in Seq(Message) /\ history \in Seq(Sender)
    BY <1>1
  <1>5. ListTyped
    <2>1. chat = None /\ unsent = {} /\ socket = "closed" /\ draft = FALSE /\ sending = None
          /\ load = NoLoad
      BY DEF ChatInit
    <2>2. Len(history) <= MaxMessages
      BY <1>1, LimitAssumption
    <2> QED
      BY <1>3, <1>4, <2>1, <2>2, NoLoadTyped DEF ListTyped
  <1>6. ListInv /\ HeldInv
    BY <1>1, <1>3, NoLoadTyped DEF ChatInit, ListInv, HeldInv, Unique
  <1>7. NoCards \in Cards /\ \A p \in Proposal : NoCards[p] = None
    BY DEF NoCards, Cards
  <1>8. CardsTyped
    BY <1>7 DEF ChatInit, CardsTyped
  <1>9. \A s \in RefreshSlot : refreshes[s] = None
    BY DEF ChatInit
  <1>10. KnownInv /\ CardInv
    BY <1>7, <1>9, NoChatAssumption DEF ChatInit, KnownInv, CardInv, Crossing
  <1> QED
    BY <1>5, <1>6, <1>8, <1>10 DEF ListIInv, CardIInv

\* The conversation's inductive invariant, and with it the type of every variable.
THEOREM ChatInvariance == ChatSpec => [](ChatIInv /\ ChatTypeOK)
  <1>1. ChatInit => ChatIInv
    BY ChatInitHolds DEF ChatIInv
  <1>2. ChatIInv /\ [ChatNext]_chatVars => ChatIInv'
    BY ListNext, CardNext DEF ChatIInv, CardIInv, CardsTyped
  <1>3. ChatIInv => ChatTypeOK
    <2> SUFFICES ASSUME ListIInv, CardIInv
                 PROVE  ChatTypeOK
      BY DEF ChatIInv
    <2>1. Len(messages) <= MaxMessages
      BY UniqueShort DEF ListIInv, ListTyped, ListInv
    <2> QED
      BY <2>1 DEF ListIInv, ListTyped, CardIInv, CardsTyped, ChatTypeOK
  <1> QED
    BY <1>1, <1>2, <1>3, PTL DEF ChatSpec

\* dedupeMessagesById, fetchMessages, the socket and the cards together: every message
\* of the conversation is shown, once, and the cards are those of the server.
THEOREM ConversationWhole == ChatSpec => []ConversationIsWhole
  <1>1. ChatIInv => ConversationIsWhole
    <2> SUFFICES ASSUME ListIInv, CardIInv
                 PROVE  ConversationIsWhole
      BY DEF ChatIInv
    <2>1. NothingMissed
      <3> SUFFICES ASSUME chat \in {"front", "under"}, ~load.waits, frames = <<>>, unsent = {},
                          notes.early, ~notes.missed, Len(history) <= Limit
                   PROVE  Shown = 1 .. Len(history)
        BY DEF NothingMissed
      <3>1. ToSet(frames) = {}
        BY DEF ToSet
      <3>2. ToSet(messages) \subseteq 1 .. Len(history)
        BY DEF ListIInv, ListInv
      <3>3. \A m \in 1 .. Len(history) : m \in ToSet(messages)
        BY <3>1 DEF ListIInv, HeldInv
      <3> QED
        BY <3>2, <3>3 DEF Shown
    <2>2. ShownOnce
      BY UniqueShort DEF ListIInv, ListTyped, ListInv, ShownOnce, Shown
    <2>3. OwnCardsShown
      BY DEF CardIInv, CardInv, OwnCardsShown
    <2> QED
      BY <2>1, <2>2, <2>3 DEF ConversationIsWhole
  <1> QED
    BY <1>1, ChatInvariance, PTL
=============================================================================
