-------------------------- MODULE ChallengesProofs --------------------------
(* Proofs that the invariants of Challenges hold for every set of users,    *)
(* challenges, ladders and concurrent requests.                             *)
EXTENDS Challenges, FiniteSetTheorems, TLAPS

\* Every kind of loaded or written profile row is a profile row.
LEMMA BaselineType == BaselineProfile \in RankProfile
BY EconomyAssumption DEF BaselineProfile, RankProfile

\* The rows of the winner and of the loser after a result are rank profiles.
LEMMA ProfileRowType ==
    ASSUME NEW p \in RankProfile, NEW q \in RankProfile
    PROVE  WinnerRow(p, q) \in RankProfile /\ LoserRow(p, q) \in RankProfile
<1>1. RatingAfterLoss(q.rating) \in Nat
  BY EconomyAssumption DEF RankProfile, RatingAfterLoss
<1>2. QED
  BY <1>1, EconomyAssumption DEF RankProfile, WinnerRow, LoserRow, Written

\* The empty database has its type.
LEMMA InitType == Init => TypeOK
BY BaselineType
   DEF Init, TypeOK, Submissions, Titles, NoChallenge, ChallengeRow, ChallengeStatus,
       NoArguments, Arguments,
       NothingLoaded, Loaded, PC, Transfer

\* The parts of TypeOK that the three ways of moving a request can change.
LEMMA EndType ==
    ASSUME TypeOK, NEW r \in Request, End(r)
    PROVE  pc' \in [Request -> PC] /\ req' \in [Request -> Arguments]
           /\ seen' \in [Request -> Loaded]
BY BaselineType
   DEF End, Goto, TypeOK, Submissions, Titles, PC, NoArguments, Arguments,
       NothingLoaded, Loaded

\* The end of a transaction keeps the type of the locks.
LEMMA ReleaseType ==
    ASSUME TypeOK, NEW r \in Request, ReleaseLocks(r)
    PROVE  rowLock' \in [Challenge -> Request \cup {Nobody}]
           /\ profileLock' \in [Ladder -> [User -> Request \cup {Nobody}]]
BY DEF ReleaseLocks, TypeOK, Submissions, Titles

\* And a rollback that of everything.
LEMMA RollbackType ==
    ASSUME TypeOK, NEW r \in Request, Rollback(r)
    PROVE  TypeOK'
BY EndType, ReleaseType DEF Rollback, TypeOK, Submissions, Titles, rows

-----------------------------------------------------------------------------
(* What a step of one request must leave alone for another request s to    *)
(* keep its part of the invariant.                                         *)

Untouched(s) == pc'[s] = pc[s] /\ req'[s] = req[s] /\ seen'[s] = seen[s]

\* The players and the ladder of a challenge never change.
PlayersKept ==
    \A c \in Challenge : Created(c) =>
       /\ challenge'[c].status # "none"
       /\ challenge'[c].challenger = challenge[c].challenger
       /\ challenge'[c].opponent = challenge[c].opponent
       /\ challenge'[c].ladder = challenge[c].ladder

\* The row a submission has locked and the reports on it stay as they are.
RowKept(s) ==
    pc[s] \in SubmitPC =>
       /\ rowLock'[req[s].chal] = s
       /\ challenge'[req[s].chal].status = "accepted"
       /\ submission'[req[s].chal] = submission[req[s].chal]

ProfilesKept(s) ==
    \A l \in Ladder, u \in User : profileLock[l][u] = s => profileLock'[l][u] = s

\* What a request relies on survives a step that touches neither it nor the rows it
\* has locked.
LEMMA RequestFrame ==
    ASSUME IInv, NEW s \in Request, Untouched(s), PlayersKept, RowKept(s)
    PROVE  RequestOK(s)' /\ ReportOK(s)'
<1>1. RequestOK(s) /\ ReportOK(s)
  BY DEF IInv, RequestInv
<1>2. pc[s] # "idle" =>
        /\ req[s].chal \in Challenge /\ req[s].user \in User
        /\ challenge'[req[s].chal].status # "none"
        /\ challenge'[req[s].chal].challenger = challenge[req[s].chal].challenger
        /\ challenge'[req[s].chal].opponent = challenge[req[s].chal].opponent
  BY <1>1 DEF RequestOK, PlayersKept
<1>3. RequestOK(s)'
  BY <1>1, <1>2 DEF RequestOK, Untouched, RowKept, Created, Participants, SubmitPC
<1>4. ReportOK(s)'
  BY <1>1, <1>2 DEF ReportOK, Untouched, RowKept, OtherParticipant, SubmitPC, AgreedPC
<1>5. QED
  BY <1>3, <1>4

\* A submission and its ladder, as the invariant types them.
LEMMA SubmissionFacts ==
    ASSUME IInv, NEW s \in Request, pc[s] \in SubmitPC
    PROVE  /\ req[s].chal \in Challenge /\ req[s].user \in User
           /\ req[s].winner \in User /\ req[s].loser \in User
           /\ req[s].winner # req[s].loser
           /\ LadderOf(s) \in Ladder
           /\ Created(req[s].chal)
BY DEF IInv, RequestInv, RequestOK, ChallengeInv, ChallengeOK, SubmitPC, LadderOf, Created

\* So does what it has read of the title, as long as the ladder's holder and the
\* profiles it locked stay.
LEMMA TitleFrame ==
    ASSUME IInv, NEW s \in Request, Untouched(s), PlayersKept, ProfilesKept(s),
           pc[s] = "commit" => holder'[LadderOf(s)] = holder[LadderOf(s)]
    PROVE  TitleOK(s)'
<1>1. CASE pc[s] \in {"title", "commit"}
  <2>1. pc[s] \in SubmitPC
    BY <1>1 DEF SubmitPC, PC
  <2>2. TitleOK(s)
    BY DEF IInv, RequestInv
  <2>3. LadderOf(s)' = LadderOf(s)
    BY <2>1, SubmissionFacts DEF Untouched, PlayersKept, LadderOf
  <2>4. QED
    BY <1>1, <2>1, <2>2, <2>3, SubmissionFacts DEF TitleOK, Untouched, ProfilesKept
<1>2. CASE pc[s] \notin {"title", "commit"}
  BY <1>2 DEF TitleOK, Untouched
<1>3. QED
  BY <1>1, <1>2

\* A slot that is free relies on nothing.
LEMMA IdleInv ==
    ASSUME NEW r \in Request, pc'[r] = "idle"
    PROVE  RequestOK(r)' /\ ReportOK(r)' /\ TitleOK(r)'
BY DEF RequestOK, ReportOK, TitleOK, SubmitPC, AgreedPC

\* The end of a request leaves the other requests alone.
LEMMA EndFrame ==
    ASSUME IInv, NEW r \in Request, End(r)
    PROVE  pc'[r] = "idle" /\ \A s \in Request \ {r} : Untouched(s)
BY DEF IInv, TypeOK, Submissions, Titles, End, Goto, Untouched

\* A request that lets go of its locks takes none from another one.
LEMMA ReleaseFrame ==
    ASSUME IInv, NEW r \in Request, ReleaseLocks(r), NEW s \in Request \ {r}
    PROVE  /\ \A c \in Challenge : rowLock[c] = s => rowLock'[c] = s
           /\ ProfilesKept(s)
BY DEF ReleaseLocks, ProfilesKept

\* A step that writes no row keeps what the invariant says of the rows.
LEMMA RowsFrame ==
    ASSUME IInv, UNCHANGED rows
    PROVE  ChallengeInv' /\ StatusTellsOutcome' /\ TitleFollowsHistory' /\ PlayersKept
BY DEF IInv, rows, ChallengeInv, ChallengeOK, OutcomeOK, Created, Participants, AgreedOn,
       StatusTellsOutcome, TitleFollowsHistory, PlayersKept

\* A submission that holds a row lock keeps it when r releases its own.
LEMMA RowKeptByRelease ==
    ASSUME IInv, NEW r \in Request, ReleaseLocks(r), NEW s \in Request \ {r},
           \A c \in Challenge : rowLock[c] = s =>
              challenge'[c].status = challenge[c].status /\ submission'[c] = submission[c]
    PROVE  RowKept(s)
BY ReleaseFrame, SubmissionFacts DEF IInv, RequestInv, RequestOK, RowKept

-----------------------------------------------------------------------------
(* The steps that end a request without touching a row.                    *)

\* A rollback changes no row, so every other request is as it was.
LEMMA RollbackInv ==
    ASSUME IInv, NEW r \in Request, Rollback(r)
    PROVE  IInv'
<1>1. TypeOK'
  BY RollbackType DEF IInv
<1>2. RequestInv'
  <2> SUFFICES ASSUME NEW s \in Request
               PROVE  (RequestOK(s) /\ ReportOK(s) /\ TitleOK(s))'
    BY DEF RequestInv
  <2>1. CASE s = r
    BY <2>1, EndFrame, IdleInv DEF Rollback
  <2>2. CASE s # r
    <3>1. Untouched(s) /\ PlayersKept
      BY <2>2, EndFrame, RowsFrame DEF Rollback
    <3>2. RowKept(s) /\ ProfilesKept(s)
      BY <2>2, ReleaseFrame, RowKeptByRelease DEF Rollback, rows
    <3>3. QED
      BY <3>1, <3>2, RequestFrame, TitleFrame DEF Rollback, rows
  <2>3. QED
    BY <2>1, <2>2
<1>3. QED
  BY <1>1, <1>2, RowsFrame DEF IInv, Rollback

-----------------------------------------------------------------------------
(* Creation and the lifecycle transitions.                                 *)

\* A new challenge was nobody's: no request knows of it.
LEMMA CreateInv ==
    ASSUME IInv, NEW c \in Challenge, NEW u \in User, NEW v \in User, NEW l \in Ladder,
           CreateChallenge(c, u, v, l)
    PROVE  IInv'
<1> DEFINE new == [status |-> "pending", challenger |-> u, opponent |-> v, ladder |-> l]
<1>1. /\ challenge' = [challenge EXCEPT ![c] = new] /\ u # v
      /\ challenge[c].status = "none" /\ challenge \in [Challenge -> ChallengeRow]
      /\ UNCHANGED <<submission, profile, profileRow, holder, history, applied,
                     locks, pc, req, seen>>
  BY DEF CreateChallenge, IInv, TypeOK, Submissions, Titles
<1>2. TypeOK'
  BY <1>1 DEF IInv, TypeOK, Submissions, Titles, ChallengeRow, ChallengeStatus, locks
<1>3. ChallengeInv'
  <2> SUFFICES ASSUME NEW d \in Challenge PROVE (ChallengeOK(d) /\ OutcomeOK(d))'
    BY DEF ChallengeInv
  <2>1. ChallengeOK(d) /\ OutcomeOK(d)
    BY DEF IInv, ChallengeInv
  <2>2. CASE d = c
    <3>1. challenge'[c] = new /\ applied'[c] = 0 /\ submission'[c][u] = Nobody
          /\ submission'[c][v] = Nobody
      BY <1>1, <2>1, <2>2 DEF ChallengeOK, Created
    <3>2. QED
      BY <1>1, <2>2, <3>1, NobodyAssumption
         DEF ChallengeOK, OutcomeOK, Created, Participants, AgreedOn
  <2>3. CASE d # c
    BY <1>1, <2>1, <2>3 DEF ChallengeOK, OutcomeOK, Created, Participants, AgreedOn
  <2>4. QED
    BY <2>2, <2>3
<1>4. RequestInv'
  <2> SUFFICES ASSUME NEW s \in Request
               PROVE  (RequestOK(s) /\ ReportOK(s) /\ TitleOK(s))'
    BY DEF RequestInv
  <2>1. Untouched(s) /\ PlayersKept /\ ProfilesKept(s)
    BY <1>1 DEF Untouched, PlayersKept, ProfilesKept, Created, locks
  <2>2. RowKept(s)
    BY <1>1, SubmissionFacts DEF RowKept, IInv, RequestInv, RequestOK, Created, locks
  <2>3. QED
    BY <1>1, <2>1, <2>2, RequestFrame, TitleFrame
<1>5. StatusTellsOutcome'
  BY <1>1 DEF IInv, StatusTellsOutcome
<1>6. TitleFollowsHistory'
  BY <1>1 DEF IInv, TitleFollowsHistory
<1>7. QED
  BY <1>2, <1>3, <1>4, <1>5, <1>6 DEF IInv

\* accept, decline and cancel have only read.
LEMMA BeginTransitionInv ==
    ASSUME IInv, NEW r \in Request, NEW u \in User, NEW c \in Challenge,
           NEW label \in {"accept", "decline", "cancel"},
           BeginTransition(r, u, c, label)
    PROVE  IInv'
<1>1. /\ challenge[c].status = "pending" /\ pc[r] = "idle"
      /\ pc' = [pc EXCEPT ![r] = label]
      /\ req' = [req EXCEPT ![r] = [NoArguments EXCEPT !.user = u, !.chal = c]]
      /\ UNCHANGED <<rows, locks, seen>>
  BY DEF BeginTransition, Begin, Goto
<1>2. TypeOK'
  BY <1>1 DEF IInv, TypeOK, Submissions, Titles, rows, locks, NoArguments, Arguments, PC
<1>3. RequestInv'
  <2> SUFFICES ASSUME NEW s \in Request
               PROVE  (RequestOK(s) /\ ReportOK(s) /\ TitleOK(s))'
    BY DEF RequestInv
  <2>1. CASE s = r
    <3>1. pc'[r] = label /\ req'[r].user = u /\ req'[r].chal = c
      BY <1>1 DEF IInv, TypeOK, Submissions, Titles, NoArguments
    <3>2. Created(c)'
      BY <1>1 DEF rows, Created
    <3>3. QED
      BY <2>1, <3>1, <3>2 DEF RequestOK, ReportOK, TitleOK, SubmitPC, AgreedPC, Created
  <2>2. CASE s # r
    <3>1. Untouched(s) /\ ProfilesKept(s)
      BY <1>1, <2>2 DEF IInv, TypeOK, Submissions, Titles, Untouched, ProfilesKept, locks
    <3>2. RowKept(s)
      BY <1>1, SubmissionFacts DEF RowKept, IInv, RequestInv, RequestOK, rows, locks
    <3>3. QED
      BY <1>1, <3>1, <3>2, RowsFrame, RequestFrame, TitleFrame DEF rows
  <2>3. QED
    BY <2>1, <2>2
<1>4. QED
  BY <1>1, <1>2, <1>3, RowsFrame DEF IInv

\* The status is written without a look at what it has become: what saves the
\* invariant is that the row is not locked by a submission.
LEMMA WriteStatusInv ==
    ASSUME IInv, NEW r \in Request,
           NEW label \in {"accept", "decline", "cancel"},
           NEW status \in {"accepted", "declined", "cancelled"},
           WriteStatus(r, label, status)
    PROVE  IInv'
<1> DEFINE c == req[r].chal
<1>1. /\ c \in Challenge /\ Created(c) /\ rowLock[c] = Nobody
      /\ challenge' = [challenge EXCEPT ![c].status = status]
      /\ UNCHANGED <<submission, profile, profileRow, holder, history, applied, locks>>
      /\ End(r)
  BY DEF WriteStatus, IInv, RequestInv, RequestOK
<1>2. /\ challenge'[c] = [challenge[c] EXCEPT !.status = status]
      /\ \A d \in Challenge \ {c} : challenge'[d] = challenge[d]
      /\ challenge[c] \in ChallengeRow
  BY <1>1 DEF IInv, TypeOK, Submissions, Titles
<1>3. /\ challenge'[c].status = status
      /\ challenge'[c].challenger = challenge[c].challenger
      /\ challenge'[c].opponent = challenge[c].opponent
      /\ challenge'[c].ladder = challenge[c].ladder
  BY <1>2 DEF ChallengeRow
<1>4. TypeOK'
  <2>1. challenge'[c] \in ChallengeRow
    BY <1>2 DEF ChallengeRow, ChallengeStatus
  <2>2. challenge' \in [Challenge -> ChallengeRow]
    BY <1>1, <1>2, <2>1 DEF IInv, TypeOK, Submissions, Titles
  <2>3. QED
    BY <1>1, <2>2, EndType DEF IInv, TypeOK, Submissions, Titles, locks
<1>5. ChallengeInv'
  <2> SUFFICES ASSUME NEW d \in Challenge PROVE (ChallengeOK(d) /\ OutcomeOK(d))'
    BY DEF ChallengeInv
  <2>1. ChallengeOK(d) /\ OutcomeOK(d)
    BY DEF IInv, ChallengeInv
  <2>2. CASE d = c
    <3>1. ChallengeOK(d)'
      BY <1>1, <1>3, <2>1, <2>2 DEF ChallengeOK, Created
    <3>2. Participants(d)' = Participants(d)
      BY <1>3, <2>2 DEF Participants
    <3>3. \A w : AgreedOn(d, w)' <=> AgreedOn(d, w)
      BY <1>1, <3>2 DEF AgreedOn
    <3>4. QED
      BY <1>1, <2>1, <2>2, <3>1, <3>2, <3>3 DEF OutcomeOK
  <2>3. CASE d # c
    BY <1>1, <1>2, <2>1, <2>3 DEF ChallengeOK, OutcomeOK, Created, Participants, AgreedOn
  <2>4. QED
    BY <2>2, <2>3
<1>6. RequestInv'
  <2> SUFFICES ASSUME NEW s \in Request
               PROVE  (RequestOK(s) /\ ReportOK(s) /\ TitleOK(s))'
    BY DEF RequestInv
  <2>1. CASE s = r
    BY <1>1, <2>1, EndFrame, IdleInv
  <2>2. CASE s # r
    <3>1. Untouched(s) /\ PlayersKept /\ ProfilesKept(s)
      BY <1>1, <1>2, <1>3, <2>2, EndFrame DEF PlayersKept, ProfilesKept, Created, locks
    <3>2. pc[s] \in SubmitPC => /\ req[s].chal \in Challenge \ {c}
                               /\ rowLock[req[s].chal] = s
                               /\ challenge[req[s].chal].status = "accepted"
      <4>1. RequestOK(s) /\ s # Nobody
        BY NobodyAssumption DEF IInv, RequestInv
      <4>2. QED
        BY <1>1, <4>1, SubmissionFacts DEF RequestOK
    <3>3. RowKept(s)
      BY <1>1, <1>2, <3>2 DEF RowKept, locks
    <3>4. QED
      BY <1>1, <3>1, <3>3, RequestFrame, TitleFrame
  <2>3. QED
    BY <2>1, <2>2
<1>7. StatusTellsOutcome'
  <2> SUFFICES ASSUME NEW d \in Challenge
               PROVE  /\ challenge'[d].status = "verified" => applied[d] = 1
                      /\ challenge'[d].status = "disputed" =>
                            /\ applied[d] = 0
                            /\ submission[d][challenge'[d].challenger]
                                  # submission[d][challenge'[d].opponent]
    BY <1>1 DEF StatusTellsOutcome
  <2>1. CASE d = c
    BY <1>3, <2>1
  <2>2. CASE d # c
    BY <1>2, <2>2 DEF IInv, StatusTellsOutcome
  <2>3. QED
    BY <2>1, <2>2
<1>8. TitleFollowsHistory'
  BY <1>1 DEF IInv, TitleFollowsHistory
<1>9. QED
  BY <1>4, <1>5, <1>6, <1>7, <1>8 DEF IInv

-----------------------------------------------------------------------------
(* Submissions up to the decision.                                         *)

\* A submission that has the row lock has checked what it relies on, and nobody else
\* writes the row.
LEMMA SubmitLockInv ==
    ASSUME IInv, NEW r \in Request, NEW u \in User, NEW c \in Challenge,
           NEW w \in User, NEW x \in User, SubmitLock(r, u, c, w, x)
    PROVE  IInv'
<1>1. /\ rowLock[c] = Nobody /\ challenge[c].status = "accepted" /\ pc[r] = "idle"
      /\ pc' = [pc EXCEPT ![r] = "locked"]
      /\ req' = [req EXCEPT ![r] = [user |-> u, chal |-> c, winner |-> w, loser |-> x]]
      /\ rowLock' = [rowLock EXCEPT ![c] = r]
      /\ UNCHANGED <<rows, profileLock, seen>>
  BY DEF SubmitLock, RowLockFree, Begin, Goto
<1>2. TypeOK'
  BY <1>1 DEF IInv, TypeOK, Submissions, Titles, rows, Arguments, PC
<1>3. RequestInv'
  <2> SUFFICES ASSUME NEW s \in Request
               PROVE  (RequestOK(s) /\ ReportOK(s) /\ TitleOK(s))'
    BY DEF RequestInv
  <2>1. CASE s = r
    <3>1. /\ pc'[r] = "locked" /\ rowLock'[c] = r
          /\ req'[r] = [user |-> u, chal |-> c, winner |-> w, loser |-> x]
      BY <1>1 DEF IInv, TypeOK, Submissions, Titles
    <3>2. RequestOK(r)'
      BY <1>1, <3>1 DEF SubmitLock, RequestOK, Created, Participants, rows
    <3>3. QED
      BY <2>1, <3>1, <3>2 DEF ReportOK, TitleOK, SubmitPC, AgreedPC
  <2>2. CASE s # r
    <3>1. Untouched(s) /\ ProfilesKept(s)
      BY <1>1, <2>2 DEF IInv, TypeOK, Submissions, Titles, Untouched, ProfilesKept
    <3>2. RowKept(s)
      BY <1>1, SubmissionFacts, NobodyAssumption
         DEF RowKept, IInv, TypeOK, Submissions, Titles, RequestInv, RequestOK, rows
    <3>3. QED
      BY <1>1, <3>1, <3>2, RowsFrame, RequestFrame, TitleFrame DEF rows
  <2>3. QED
    BY <2>1, <2>2
<1>4. QED
  BY <1>1, <1>2, <1>3, RowsFrame DEF IInv

\* The steps of a submission between its checks and its commit: nothing
\* committed changes, no lock is given up, and r keeps its arguments.
LEMMA ProgressInv ==
    ASSUME IInv, NEW r \in Request, UNCHANGED <<rows, rowLock, req>>,
           NEW label \in SubmitPC, pc' = [pc EXCEPT ![r] = label], pc[r] \in SubmitPC,
           seen' \in [Request -> Loaded], \A s \in Request \ {r} : seen'[s] = seen[s],
           profileLock' \in [Ladder -> [User -> Request \cup {Nobody}]],
           \A s \in Request \ {r} : ProfilesKept(s),
           ReportOK(r)', TitleOK(r)'
    PROVE  IInv'
<1>1. TypeOK'
  BY DEF IInv, TypeOK, Submissions, Titles, rows, SubmitPC
<1>2. RequestInv'
  <2> SUFFICES ASSUME NEW s \in Request
               PROVE  (RequestOK(s) /\ ReportOK(s) /\ TitleOK(s))'
    BY DEF RequestInv
  <2>1. CASE s = r
    <3>1. RequestOK(r)'
      BY DEF IInv, TypeOK, Submissions, Titles, RequestInv, RequestOK, Created,
             Participants, rows, SubmitPC
    <3>2. QED
      BY <2>1, <3>1
  <2>2. CASE s # r
    <3>1. Untouched(s) /\ ProfilesKept(s)
      BY <2>2 DEF IInv, TypeOK, Submissions, Titles, Untouched
    <3>2. RowKept(s)
      BY SubmissionFacts DEF RowKept, IInv, RequestInv, RequestOK, rows
    <3>3. QED
      BY <3>1, <3>2, RowsFrame, RequestFrame, TitleFrame DEF rows
  <2>3. QED
    BY <2>1, <2>2
<1>3. QED
  BY <1>1, <1>2, RowsFrame DEF IInv

\* Under that lock the other report it reads is the committed one.
LEMMA SubmitInsertInv ==
    ASSUME IInv, NEW r \in Request, SubmitInsert(r)
    PROVE  IInv'
<1> DEFINE c == req[r].chal
           v == OtherParticipant(c, req[r].user)
<1>1. pc[r] \in SubmitPC /\ "inserted" \in SubmitPC /\ "inserted" \notin AgreedPC
  BY DEF SubmitInsert, SubmitPC, AgreedPC, PC
<1>2. submission[c][v] \in User \cup {Nobody}
  BY <1>1, SubmissionFacts
     DEF IInv, TypeOK, Submissions, Titles, ChallengeInv, ChallengeOK, OtherParticipant
<1>3. seen' \in [Request -> Loaded] /\ seen'[r].other = submission[c][v]
  <2>1. seen[r] \in Loaded /\ seen \in [Request -> Loaded]
    BY DEF IInv, TypeOK
  <2>2. [seen[r] EXCEPT !.other = submission[c][v]] \in Loaded
    BY <1>2, <2>1 DEF Loaded
  <2>3. seen' = [seen EXCEPT ![r] = [seen[r] EXCEPT !.other = submission[c][v]]]
    BY DEF SubmitInsert
  <2>4. seen'[r] = [seen[r] EXCEPT !.other = submission[c][v]]
    BY <2>1, <2>3
  <2>5. seen'[r].other = submission[c][v]
    BY <2>1, <2>4 DEF Loaded
  <2>6. QED
    BY <2>1, <2>2, <2>3, <2>5
<1>4. pc'[r] = "inserted"
  BY DEF SubmitInsert, Goto, IInv, TypeOK, Submissions, Titles
<1>5. ReportOK(r)' /\ TitleOK(r)'
  BY <1>1, <1>3, <1>4 DEF SubmitInsert, ReportOK, TitleOK, OtherParticipant, rows
<1>6. QED
  BY <1>1, <1>3, <1>5, ProgressInv
     DEF SubmitInsert, Goto, locks, IInv, TypeOK, Submissions, Titles, ProfilesKept

\* The commit of a submission that leaves the ladder alone: it was the first, or
\* it disputes the challenge.
LEMMA CommitReportInv ==
    ASSUME IInv, NEW r \in Request, pc[r] = "inserted",
           CommitSubmission(r), End(r), ReleaseLocks(r),
           UNCHANGED <<profile, profileRow, holder, history, applied>>,
           \/ seen[r].other = Nobody /\ UNCHANGED challenge
           \/ /\ seen[r].other \notin {Nobody, req[r].winner}
              /\ challenge' = FlipStatus(req[r].chal, "disputed")
    PROVE  IInv'
<1> DEFINE c == req[r].chal
           u == req[r].user
           v == OtherParticipant(c, u)
           w == req[r].winner
<1>1. /\ c \in Challenge /\ u \in User /\ w \in User /\ Created(c)
      /\ u \in Participants(c) /\ submission[c][u] = Nobody
      /\ seen[r].other = submission[c][v] /\ rowLock[c] = r
      /\ challenge[c].status = "accepted" /\ challenge[c] \in ChallengeRow
  BY SubmissionFacts DEF IInv, TypeOK, Submissions, Titles, RequestInv, RequestOK,
                         ReportOK, SubmitPC, PC
<1>2. Participants(c) = {u, v} /\ u # v /\ v \in User
  BY <1>1 DEF IInv, ChallengeInv, ChallengeOK, Participants, OtherParticipant
<1>3. /\ submission' \in [Challenge -> [User -> User \cup {Nobody}]]
      /\ submission'[c][u] = w /\ submission'[c][v] = submission[c][v]
      /\ \A d \in Challenge \ {c} : submission'[d] = submission[d]
  BY <1>1, <1>2 DEF CommitSubmission, IInv, TypeOK, Submissions, Titles
<1>4. /\ \A d \in Challenge \ {c} : challenge'[d] = challenge[d]
      /\ challenge'[c].status = IF submission[c][v] = Nobody THEN "accepted" ELSE "disputed"
      /\ challenge'[c].challenger = challenge[c].challenger
      /\ challenge'[c].opponent = challenge[c].opponent
      /\ challenge'[c].ladder = challenge[c].ladder
      /\ challenge' \in [Challenge -> ChallengeRow]
  <2>1. CASE UNCHANGED challenge /\ seen[r].other = Nobody
    BY <1>1, <2>1 DEF IInv, TypeOK, Submissions, Titles
  <2>2. CASE challenge' = [challenge EXCEPT ![c].status = "disputed"] /\ seen[r].other # Nobody
    <3>1. challenge'[c] = [challenge[c] EXCEPT !.status = "disputed"]
          /\ \A d \in Challenge \ {c} : challenge'[d] = challenge[d]
      BY <1>1, <2>2 DEF IInv, TypeOK, Submissions, Titles
    <3>2. [challenge[c] EXCEPT !.status = "disputed"] \in ChallengeRow
      BY <1>1 DEF ChallengeRow, ChallengeStatus
    <3>3. challenge' \in [Challenge -> ChallengeRow]
      BY <1>1, <2>2, <3>1, <3>2 DEF IInv, TypeOK, Submissions, Titles
    <3>4. QED
      BY <1>1, <2>2, <3>1, <3>3 DEF ChallengeRow
  <2>3. QED
    BY <1>1, <2>1, <2>2 DEF FlipStatus
<1>5. applied[c] = 0
  <2>1. \A y \in Participants(c) : ~AgreedOn(c, y)
    BY <1>1, <1>2, NobodyAssumption DEF AgreedOn
  <2>2. QED
    BY <1>1, <2>1 DEF IInv, ChallengeInv, OutcomeOK
<1>6. TypeOK'
  BY <1>3, <1>4, EndType, ReleaseType DEF IInv, TypeOK, Submissions, Titles
<1>7. ChallengeInv'
  <2> SUFFICES ASSUME NEW d \in Challenge PROVE (ChallengeOK(d) /\ OutcomeOK(d))'
    BY DEF ChallengeInv
  <2>1. ChallengeOK(d) /\ OutcomeOK(d)
    BY DEF IInv, ChallengeInv
  <2>2. CASE d = c
    <3>1. ChallengeOK(d)'
      BY <1>1, <1>4, <2>1, <2>2 DEF ChallengeOK, Created
    <3>2. Participants(d)' = {u, v}
      BY <1>2, <1>4, <2>2 DEF Participants
    <3>3. \A y \in {u, v} : ~ AgreedOn(d, y)'
      BY <1>1, <1>2, <1>3, <2>2, <3>2, NobodyAssumption DEF AgreedOn
    <3>4. QED
      BY <1>5, <2>2, <3>1, <3>2, <3>3 DEF OutcomeOK
  <2>3. CASE d # c
    BY <1>3, <1>4, <2>1, <2>3 DEF ChallengeOK, OutcomeOK, Created, Participants, AgreedOn
  <2>4. QED
    BY <2>2, <2>3
<1>8. RequestInv'
  <2> SUFFICES ASSUME NEW s \in Request
               PROVE  (RequestOK(s) /\ ReportOK(s) /\ TitleOK(s))'
    BY DEF RequestInv
  <2>1. CASE s = r
    BY <2>1, EndFrame, IdleInv
  <2>2. CASE s # r
    <3>1. Untouched(s) /\ PlayersKept /\ ProfilesKept(s)
      BY <1>1, <1>4, <2>2, EndFrame, ReleaseFrame DEF PlayersKept, Created
    <3>2. RowKept(s)
      BY <1>1, <1>3, <1>4, <2>2, RowKeptByRelease
    <3>3. QED
      BY <3>1, <3>2, RequestFrame, TitleFrame
  <2>3. QED
    BY <2>1, <2>2
<1>9. StatusTellsOutcome'
  <2> SUFFICES ASSUME NEW d \in Challenge
               PROVE  /\ challenge'[d].status = "verified" => applied'[d] = 1
                      /\ challenge'[d].status = "disputed" =>
                            /\ applied'[d] = 0
                            /\ submission'[d][challenge'[d].challenger]
                                  # submission'[d][challenge'[d].opponent]
    BY DEF StatusTellsOutcome
  <2>1. CASE d = c
    <3>1. {challenge'[d].challenger, challenge'[d].opponent} = {u, v}
      BY <1>2, <1>4, <2>1 DEF Participants
    <3>2. challenge'[d].status = "disputed" => submission'[d][v] # submission'[d][u]
      BY <1>1, <1>3, <1>4, <2>1
    <3>3. challenge'[d].status # "verified" /\ applied'[d] = 0
      BY <1>4, <1>5, <2>1
    <3>4. QED
      BY <1>2, <3>1, <3>2, <3>3
  <2>2. CASE d # c
    BY <1>3, <1>4, <2>2 DEF IInv, StatusTellsOutcome
  <2>3. QED
    BY <2>1, <2>2
<1>10. TitleFollowsHistory'
  BY DEF IInv, TitleFollowsHistory
<1>11. QED
  BY <1>6, <1>7, <1>8, <1>9, <1>10 DEF IInv

\* The first report writes what was checked under the lock.
LEMMA SubmitFirstInv ==
    ASSUME IInv, NEW r \in Request, SubmitFirst(r)
    PROVE  IInv'
BY CommitReportInv DEF SubmitFirst

\* So does a second one that disagrees.
LEMMA SubmitDisputeInv ==
    ASSUME IInv, NEW r \in Request, SubmitDispute(r)
    PROVE  IInv'
BY CommitReportInv DEF SubmitDispute

\* Under the row lock the conditional UPDATE always hits its row.
LEMMA SubmitAgreeInv ==
    ASSUME IInv, NEW r \in Request, SubmitAgree(r)
    PROVE  IInv'
<1>1. /\ pc[r] \in SubmitPC /\ pc[r] # "locked" /\ "loadWinner" \in SubmitPC
      /\ "loadWinner" \notin {"title", "commit"}
  BY DEF SubmitAgree, SubmitPC, PC
<1>2. challenge[req[r].chal].status = "accepted"
  BY <1>1 DEF IInv, RequestInv, RequestOK
<1>3. /\ pc' = [pc EXCEPT ![r] = "loadWinner"] /\ seen[r].other = req[r].winner
      /\ UNCHANGED <<rows, locks, req, seen>>
  BY <1>2 DEF SubmitAgree, Goto
<1>4. pc'[r] = "loadWinner"
  BY <1>3 DEF IInv, TypeOK, Submissions, Titles
<1>5. ReportOK(r)' /\ TitleOK(r)'
  BY <1>1, <1>3, <1>4
     DEF IInv, RequestInv, ReportOK, TitleOK, OtherParticipant, rows
<1>6. QED
  BY <1>1, <1>3, <1>5, ProgressInv DEF locks, IInv, TypeOK, Submissions, Titles,
                                       ProfilesKept

-----------------------------------------------------------------------------
(* The honor hook.                                                         *)

\* The steps of the hook before the title is read: they keep the other report
\* and may lock profiles nobody else has locked.
LEMMA HookStepInv ==
    ASSUME IInv, NEW r \in Request, UNCHANGED <<rows, rowLock, req>>,
           pc[r] \in AgreedPC, NEW label \in AgreedPC \ {"title", "commit"},
           Goto(r, label),
           seen' \in [Request -> Loaded], \A s \in Request \ {r} : seen'[s] = seen[s],
           seen'[r].other = seen[r].other,
           profileLock' \in [Ladder -> [User -> Request \cup {Nobody}]],
           \A s \in Request \ {r} : ProfilesKept(s)
    PROVE  IInv'
<1>1. pc[r] \in SubmitPC \ {"locked"} /\ label \in SubmitPC
  BY DEF AgreedPC
<1>2. pc'[r] = label
  BY DEF Goto, IInv, TypeOK, Submissions, Titles
<1>3. ReportOK(r)' /\ TitleOK(r)'
  BY <1>1, <1>2 DEF IInv, RequestInv, ReportOK, TitleOK, OtherParticipant, rows
<1>4. QED
  BY <1>1, <1>3, ProgressInv DEF Goto

\* What a request remembers of a profile is a profile, and the other requests
\* remember what they did.
LEMMA RememberType ==
    ASSUME IInv, NEW r \in Request, NEW role \in Role, NEW row \in RankProfile,
           Remember(r, role, row)
    PROVE  /\ seen' \in [Request -> Loaded]
           /\ \A s \in Request \ {r} : seen'[s] = seen[s]
           /\ seen'[r].other = seen[r].other
<1>1. seen \in [Request -> Loaded] /\ seen[r] \in Loaded
  BY DEF IInv, TypeOK
<1>2. CASE role = "winner"
  BY <1>1, <1>2 DEF Remember, Loaded
<1>3. CASE role = "loser"
  BY <1>1, <1>3 DEF Remember, Loaded
<1>4. QED
  BY <1>2, <1>3 DEF Role

\* The steps that load and insert profiles are steps of an agreed result before its
\* title is read.
LEMMA RoleLabels ==
    ASSUME NEW role \in Role
    PROVE  /\ {LoadLabel(role), InsertLabel(role)} \subseteq AgreedPC
           /\ {AfterLabel(role), InsertLabel(role)} \subseteq AgreedPC \ {"title", "commit"}
BY DEF Role, LoadLabel, InsertLabel, AfterLabel, AgreedPC, SubmitPC, PC

\* A request past its agreement is of two users and their ladder.
LEMMA ProfileUser ==
    ASSUME IInv, NEW r \in Request, NEW role \in Role, pc[r] \in AgreedPC
    PROVE  LadderOf(r) \in Ladder /\ UserOf(r, role) \in User
BY SubmissionFacts DEF AgreedPC, UserOf

\* Loading a profile locks nothing and changes no row.
LEMMA LoadProfileInv ==
    ASSUME IInv, NEW r \in Request, NEW role \in Role, LoadProfile(r, role)
    PROVE  IInv'
<1>1. pc[r] \in AgreedPC
  BY RoleLabels DEF LoadProfile
<1>2. profile[LadderOf(r)][UserOf(r, role)] \in RankProfile
  BY <1>1, ProfileUser DEF IInv, TypeOK, Submissions, Titles
<1>3. /\ UNCHANGED <<rows, locks, req>> /\ Goto(r, AfterLabel(role))
      /\ Remember(r, role, profile[LadderOf(r)][UserOf(r, role)])
  BY DEF LoadProfile
<1>4. QED
  BY <1>1, <1>2, <1>3, RoleLabels, RememberType, HookStepInv
     DEF locks, IInv, TypeOK, Submissions, Titles, ProfilesKept

\* Nor does finding none.
LEMMA MissProfileInv ==
    ASSUME IInv, NEW r \in Request, NEW role \in Role, MissProfile(r, role)
    PROVE  IInv'
<1>1. pc[r] \in AgreedPC
  BY RoleLabels DEF MissProfile
<1>2. UNCHANGED <<rows, locks, req, seen>> /\ Goto(r, InsertLabel(role))
  BY DEF MissProfile
<1>3. QED
  BY <1>1, <1>2, RoleLabels, HookStepInv DEF locks, IInv, TypeOK, Submissions, Titles,
                                             ProfilesKept

\* An inserted profile is locked by the request that inserts it.
LEMMA InsertProfileInv ==
    ASSUME IInv, NEW r \in Request, NEW role \in Role, InsertProfile(r, role)
    PROVE  IInv'
<1> DEFINE l == LadderOf(r)
           u == UserOf(r, role)
<1>1. pc[r] \in AgreedPC
  BY RoleLabels DEF InsertProfile
<1>2. /\ UNCHANGED <<rows, rowLock, req>> /\ Goto(r, AfterLabel(role))
      /\ Remember(r, role, BaselineProfile)
      /\ profileLock[l][u] = Nobody /\ profileLock' = [profileLock EXCEPT ![l][u] = r]
  BY DEF InsertProfile
<1>3. profileLock' \in [Ladder -> [User -> Request \cup {Nobody}]]
  BY <1>1, <1>2, ProfileUser DEF IInv, TypeOK, Submissions, Titles
<1>4. ASSUME NEW s \in Request \ {r} PROVE ProfilesKept(s)
  BY <1>1, <1>2, ProfileUser, NobodyAssumption DEF IInv, TypeOK, Submissions, Titles,
                                                   ProfilesKept
<1>5. QED
  BY <1>1, <1>2, <1>3, <1>4, BaselineType, RoleLabels, RememberType, HookStepInv

\* The flush takes both rows, so from here on the title cannot leave either.
LEMMA UpdateProfilesInv ==
    ASSUME IInv, NEW r \in Request, UpdateProfiles(r)
    PROVE  IInv'
<1> DEFINE l == LadderOf(r)
           w == req[r].winner
           x == req[r].loser
<1>1. /\ pc[r] \in SubmitPC \ {"locked"} /\ "title" \in AgreedPC /\ pc[r] \in AgreedPC
      /\ "title" \in SubmitPC
  BY DEF UpdateProfiles, AgreedPC, SubmitPC, PC
<1>2. /\ UNCHANGED <<rows, rowLock, req, seen>> /\ pc' = [pc EXCEPT ![r] = "title"]
      /\ profileLock[l][w] \in {Nobody, r} /\ profileLock[l][x] \in {Nobody, r}
      /\ profileLock' = [profileLock EXCEPT ![l] = [@ EXCEPT ![w] = r, ![x] = r]]
  BY DEF UpdateProfiles, Goto
<1>3. l \in Ladder /\ w \in User /\ x \in User
  BY <1>1, SubmissionFacts
<1>4. /\ profileLock' \in [Ladder -> [User -> Request \cup {Nobody}]]
      /\ profileLock'[l][w] = r /\ profileLock'[l][x] = r
  BY <1>2, <1>3 DEF IInv, TypeOK, Submissions, Titles
<1>5. ASSUME NEW s \in Request \ {r} PROVE ProfilesKept(s)
  BY <1>2, <1>3, NobodyAssumption DEF IInv, TypeOK, Submissions, Titles, ProfilesKept
<1>6. pc'[r] = "title" /\ LadderOf(r)' = l
  BY <1>2 DEF IInv, TypeOK, Submissions, Titles, LadderOf, rows
<1>7. ReportOK(r)' /\ TitleOK(r)'
  BY <1>1, <1>2, <1>4, <1>6
     DEF IInv, RequestInv, ReportOK, TitleOK, OtherParticipant, rows
<1>8. QED
  BY <1>1, <1>2, <1>4, <1>5, <1>7, ProgressInv DEF IInv, TypeOK, Submissions, Titles

\* The title is read after both profiles are locked, so that nobody can move it from
\* the loser any more.
LEMMA ReadTitleInv ==
    ASSUME IInv, NEW r \in Request, ReadTitle(r)
    PROVE  IInv'
<1>1. /\ pc[r] \in SubmitPC \ {"locked"} /\ "commit" \in AgreedPC /\ pc[r] \in AgreedPC
      /\ "commit" \in SubmitPC /\ pc[r] = "title"
  BY DEF ReadTitle, AgreedPC, SubmitPC, PC
<1>2. /\ UNCHANGED <<rows, locks, req>> /\ pc' = [pc EXCEPT ![r] = "commit"]
      /\ seen' = [seen EXCEPT ![r].holder = holder[LadderOf(r)]]
  BY DEF ReadTitle, Goto
<1>3. holder[LadderOf(r)] \in User \cup {Nobody}
  BY <1>1, SubmissionFacts DEF IInv, TypeOK, Submissions, Titles
<1>4. /\ seen' \in [Request -> Loaded] /\ seen'[r].other = seen[r].other
      /\ seen'[r].holder = holder[LadderOf(r)] /\ pc'[r] = "commit"
      /\ \A s \in Request \ {r} : seen'[s] = seen[s]
  BY <1>2, <1>3 DEF IInv, TypeOK, Submissions, Titles, Loaded
<1>5. ReportOK(r)'
  BY <1>1, <1>2, <1>4 DEF IInv, RequestInv, ReportOK, OtherParticipant, rows
<1>6. TitleOK(r)'
  BY <1>1, <1>2, <1>4 DEF IInv, RequestInv, TitleOK, LadderOf, rows, locks
<1>7. QED
  BY <1>1, <1>2, <1>4, <1>5, <1>6, ProgressInv DEF locks, IInv, TypeOK, Submissions,
                                                   Titles, ProfilesKept

-----------------------------------------------------------------------------
(* The commit of a result.                                                 *)

\* The decision taken on the loaded holder is the one the committed holder
\* asks for.
LEMMA TitleDecision ==
    ASSUME IInv, NEW r \in Request, pc[r] = "commit",
           seen[r].holder = Nobody => holder[LadderOf(r)] = Nobody
    PROVE  IF TitleMoves(r)
           THEN /\ seen[r].holder = holder[LadderOf(r)]
                /\ holder[LadderOf(r)] \in {Nobody, req[r].loser}
           ELSE holder[LadderOf(r)] \notin {Nobody, req[r].loser}
<1>1. TitleOK(r) /\ "commit" \in SubmitPC
  BY DEF IInv, RequestInv, SubmitPC, PC
<1>2. req[r].winner \in User /\ req[r].loser \in User /\ req[r].winner # req[r].loser
  BY <1>1, SubmissionFacts
<1>3. QED
  BY <1>1, <1>2, NobodyAssumption DEF TitleOK, TitleMoves

\* Moving the title of r's ladder keeps what another request has loaded of it.
LEMMA TitleMoveFrame ==
    ASSUME IInv, NEW r \in Request, pc[r] = "commit",
           seen[r].holder = Nobody => holder[LadderOf(r)] = Nobody,
           holder' = IF TitleMoves(r) THEN [holder EXCEPT ![LadderOf(r)] = req[r].winner]
                                      ELSE holder,
           NEW s \in Request \ {r}, Untouched(s), PlayersKept, ProfilesKept(s)
    PROVE  TitleOK(s)'
<1> DEFINE l == LadderOf(r)
           w == req[r].winner
           x == req[r].loser
<1>1. /\ l \in Ladder /\ w \in User /\ x \in User
      /\ profileLock[l][w] = r /\ profileLock[l][x] = r
  <2>1. pc[r] \in SubmitPC
    BY DEF SubmitPC, PC
  <2>2. QED
    BY <2>1, SubmissionFacts DEF IInv, RequestInv, TitleOK
<1>2. CASE pc[s] = "commit" /\ LadderOf(s) = l /\ TitleMoves(r)
  <2>1. pc[s] \in SubmitPC
    BY <1>2 DEF SubmitPC, PC
  <2>2. /\ TitleOK(s) /\ req[s].winner \in User /\ req[s].loser \in User
        /\ LadderOf(s)' = l
    BY <1>2, <2>1, SubmissionFacts
       DEF IInv, RequestInv, Untouched, PlayersKept, LadderOf
  <2>3. /\ profileLock[l][req[s].winner] = s /\ profileLock[l][req[s].loser] = s
        /\ profileLock'[l][req[s].winner] = s /\ profileLock'[l][req[s].loser] = s
    BY <1>1, <1>2, <2>2 DEF TitleOK, ProfilesKept
  <2>4. {w, x} \cap {req[s].winner, req[s].loser} = {}
    BY <1>1, <2>3
  <2>5. holder[l] \in {Nobody, x} /\ holder'[l] = w /\ w # Nobody
    BY <1>1, <1>2, TitleDecision, NobodyAssumption DEF IInv, TypeOK, Submissions, Titles
  <2>6. seen[s].holder # Nobody => seen[s].holder \notin {req[s].winner, req[s].loser}
    BY <1>2, <2>2, <2>4, <2>5, NobodyAssumption DEF TitleOK
  <2>7. QED
    BY <1>2, <2>2, <2>3, <2>4, <2>5, <2>6 DEF TitleOK, Untouched
<1>3. CASE ~(pc[s] = "commit" /\ LadderOf(s) = l /\ TitleMoves(r))
  <2>1. pc[s] = "commit" => holder'[LadderOf(s)] = holder[LadderOf(s)]
    BY <1>3 DEF IInv, TypeOK, Submissions, Titles
  <2>2. QED
    BY <2>1, TitleFrame
<1>4. QED
  BY <1>2, <1>3

\* The result is applied once, because the challenge was still accepted, and the
\* title moves from whom it was read of.
LEMMA CommitResultInv ==
    ASSUME IInv, NEW r \in Request, CommitResult(r)
    PROVE  IInv'
<1> DEFINE c == req[r].chal
           u == req[r].user
           v == OtherParticipant(c, u)
           w == req[r].winner
           x == req[r].loser
           l == LadderOf(r)
           row == [previous |-> seen[r].holder, new |-> w, source |-> c]
<1>1. /\ pc[r] = "commit" /\ pc[r] \in SubmitPC \ {"locked"} /\ pc[r] \in AgreedPC
      /\ seen[r].holder = Nobody => holder[l] = Nobody
      /\ End(r) /\ ReleaseLocks(r) /\ CommitSubmission(r)
      /\ challenge' = FlipStatus(c, "verified")
      /\ applied' = [applied EXCEPT ![c] = @ + 1]
      /\ holder' = IF TitleMoves(r) THEN [holder EXCEPT ![l] = w] ELSE holder
      /\ history' = IF TitleMoves(r) THEN [history EXCEPT ![l] = Append(@, row)] ELSE history
      /\ profileRow' = profileRow \cup {<<l, w>>, <<l, x>>}
      /\ profile' = [profile EXCEPT ![l][w] = WinnerRow(@, seen[r].winner),
                                    ![l][x] = LoserRow(@, seen[r].loser)]
  BY DEF CommitResult, InauguratedMeanwhile, SubmitPC, AgreedPC, PC
<1>2. /\ c \in Challenge /\ u \in User /\ w \in User /\ x \in User /\ w # x /\ Created(c)
      /\ l \in Ladder /\ u \in Participants(c) /\ {w, x} = Participants(c)
      /\ submission[c][u] = Nobody /\ submission[c][v] = w /\ rowLock[c] = r
      /\ challenge[c].status = "accepted" /\ challenge[c] \in ChallengeRow
      /\ seen[r] \in Loaded
  BY <1>1, SubmissionFacts DEF IInv, TypeOK, Submissions, Titles, RequestInv,
                               RequestOK, ReportOK
<1>3. Participants(c) = {u, v} /\ u # v /\ v \in User
  BY <1>2 DEF IInv, ChallengeInv, ChallengeOK, Participants, OtherParticipant
<1>4. /\ submission' \in [Challenge -> [User -> User \cup {Nobody}]]
      /\ submission'[c][u] = w /\ submission'[c][v] = w
      /\ \A d \in Challenge \ {c} : submission'[d] = submission[d]
  BY <1>1, <1>2, <1>3 DEF CommitSubmission, IInv, TypeOK, Submissions, Titles
<1>5. /\ \A d \in Challenge \ {c} : challenge'[d] = challenge[d]
      /\ challenge'[c] = [challenge[c] EXCEPT !.status = "verified"]
  BY <1>1, <1>2 DEF FlipStatus, IInv, TypeOK, Submissions, Titles
<1>6. /\ challenge'[c].status = "verified"
      /\ challenge'[c].challenger = challenge[c].challenger
      /\ challenge'[c].opponent = challenge[c].opponent
      /\ challenge'[c].ladder = challenge[c].ladder
      /\ challenge'[c] \in ChallengeRow
  BY <1>2, <1>5 DEF ChallengeRow, ChallengeStatus
<1>7. challenge' \in [Challenge -> ChallengeRow]
  BY <1>1, <1>2, <1>6 DEF FlipStatus, IInv, TypeOK, Submissions, Titles
<1>8. applied[c] = 0
  <2>1. \A y \in Participants(c) : ~AgreedOn(c, y)
    BY <1>2, <1>3, NobodyAssumption DEF AgreedOn
  <2>2. QED
    BY <1>2, <2>1 DEF IInv, ChallengeInv, OutcomeOK
<1>9. applied'[c] = 1 /\ \A d \in Challenge \ {c} : applied'[d] = applied[d]
  BY <1>1, <1>2, <1>8 DEF IInv, TypeOK, Submissions, Titles
<1>10. TypeOK'
  <2>1. profile' \in [Ladder -> [User -> RankProfile]]
    <3>1. /\ WinnerRow(profile[l][w], seen[r].winner) \in RankProfile
          /\ LoserRow(profile[l][x], seen[r].loser) \in RankProfile
      BY <1>2, ProfileRowType DEF IInv, TypeOK, Submissions, Titles, Loaded
    <3>2. QED
      BY <1>1, <1>2, <3>1 DEF IInv, TypeOK, Submissions, Titles
  <2>2. history' \in [Ladder -> Seq(Transfer)]
    <3>1. row \in Transfer
      BY <1>2 DEF Transfer, Loaded
    <3>2. QED
      BY <1>1, <1>2, <3>1 DEF IInv, TypeOK, Submissions, Titles
  <2>3. holder' \in [Ladder -> User \cup {Nobody}]
    BY <1>1, <1>2 DEF IInv, TypeOK, Submissions, Titles
  <2>4. profileRow' \in SUBSET (Ladder \X User)
    BY <1>1, <1>2 DEF IInv, TypeOK, Submissions, Titles
  <2>5. applied' \in [Challenge -> Nat]
    BY <1>1, <1>2, <1>8 DEF IInv, TypeOK, Submissions, Titles
  <2>6. QED
    BY <1>1, <1>4, <1>7, <2>1, <2>2, <2>3, <2>4, <2>5, EndType, ReleaseType
       DEF IInv, TypeOK, Submissions, Titles
<1>11. ChallengeInv'
  <2> SUFFICES ASSUME NEW d \in Challenge PROVE (ChallengeOK(d) /\ OutcomeOK(d))'
    BY DEF ChallengeInv
  <2>1. ChallengeOK(d) /\ OutcomeOK(d)
    BY DEF IInv, ChallengeInv
  <2>2. CASE d = c
    <3>1. ChallengeOK(d)'
      BY <1>2, <1>6, <2>1, <2>2 DEF ChallengeOK, Created
    <3>2. Participants(d)' = {u, v}
      BY <1>3, <1>6, <2>2 DEF Participants
    <3>3. \E y \in {u, v} : AgreedOn(d, y)'
      BY <1>2, <1>3, <1>4, <2>2, <3>2 DEF AgreedOn
    <3>4. QED
      BY <1>9, <2>2, <3>1, <3>2, <3>3 DEF OutcomeOK
  <2>3. CASE d # c
    BY <1>4, <1>5, <1>9, <2>1, <2>3
       DEF ChallengeOK, OutcomeOK, Created, Participants, AgreedOn
  <2>4. QED
    BY <2>2, <2>3
<1>12. RequestInv'
  <2> SUFFICES ASSUME NEW s \in Request
               PROVE  (RequestOK(s) /\ ReportOK(s) /\ TitleOK(s))'
    BY DEF RequestInv
  <2>1. CASE s = r
    BY <1>1, <2>1, EndFrame, IdleInv
  <2>2. CASE s # r
    <3>1. Untouched(s) /\ ProfilesKept(s)
      BY <1>1, <2>2, EndFrame, ReleaseFrame
    <3>2. PlayersKept
      BY <1>2, <1>5, <1>6 DEF PlayersKept, Created
    <3>3. \A d \in Challenge : rowLock[d] = s =>
             challenge'[d].status = challenge[d].status /\ submission'[d] = submission[d]
      BY <1>2, <1>4, <1>5, <2>2
    <3>4. RowKept(s)
      BY <1>1, <2>2, <3>3, RowKeptByRelease
    <3>5. QED
      BY <1>1, <2>2, <3>1, <3>2, <3>4, RequestFrame, TitleMoveFrame
  <2>3. QED
    BY <2>1, <2>2
<1>13. StatusTellsOutcome'
  <2> SUFFICES ASSUME NEW d \in Challenge
               PROVE  /\ challenge'[d].status = "verified" => applied'[d] = 1
                      /\ challenge'[d].status = "disputed" =>
                            /\ applied'[d] = 0
                            /\ submission'[d][challenge'[d].challenger]
                                  # submission'[d][challenge'[d].opponent]
    BY DEF StatusTellsOutcome
  <2>1. CASE d = c
    BY <1>6, <1>9, <2>1
  <2>2. CASE d # c
    BY <1>4, <1>5, <1>9, <2>2 DEF IInv, StatusTellsOutcome
  <2>3. QED
    BY <2>1, <2>2
<1>14. TitleFollowsHistory'
  <2>1. CASE ~TitleMoves(r)
    BY <1>1, <2>1 DEF IInv, TitleFollowsHistory
  <2>2. CASE TitleMoves(r)
    <3> SUFFICES ASSUME NEW m \in Ladder
                 PROVE  /\ holder'[m] = IF history'[m] = <<>> THEN Nobody
                                        ELSE history'[m][Len(history'[m])].new
                        /\ \A i \in 1 .. Len(history'[m]) :
                              history'[m][i].previous =
                                 IF i = 1 THEN Nobody ELSE history'[m][i - 1].new
      BY DEF TitleFollowsHistory
    <3>1. /\ holder[m] = IF history[m] = <<>> THEN Nobody ELSE history[m][Len(history[m])].new
          /\ \A i \in 1 .. Len(history[m]) :
                history[m][i].previous = IF i = 1 THEN Nobody ELSE history[m][i - 1].new
          /\ history[m] \in Seq(Transfer)
      BY DEF IInv, TypeOK, Submissions, Titles, TitleFollowsHistory
    <3>2. CASE m = l
      <4>1. history'[l] = Append(history[l], row) /\ holder'[l] = w
        BY <1>1, <1>2, <2>2 DEF IInv, TypeOK, Submissions, Titles
      <4>2. row.previous = holder[l] /\ row.new = w
        BY <1>1, <2>2, TitleDecision
      <4>3. /\ Len(history'[l]) = Len(history[l]) + 1
            /\ history'[l][Len(history[l]) + 1] = row
            /\ \A i \in 1 .. Len(history[l]) : history'[l][i] = history[l][i]
        BY <3>1, <3>2, <4>1, <1>2 DEF Transfer, Loaded
      <4>4. Len(history[l]) \in Nat /\ (history[l] = <<>> <=> Len(history[l]) = 0)
        BY <3>1, <3>2
      <4>5. holder'[l] = history'[l][Len(history'[l])].new /\ history'[l] # <<>>
        BY <4>1, <4>2, <4>3, <4>4
      <4>6. ASSUME NEW i \in 1 .. Len(history'[l])
            PROVE  history'[l][i].previous = IF i = 1 THEN Nobody ELSE history'[l][i - 1].new
        <5>1. CASE i \in 1 .. Len(history[l])
          <6>1. history'[l][i] = history[l][i]
            BY <4>3, <5>1
          <6>2. i # 1 => history'[l][i - 1] = history[l][i - 1]
            BY <4>3, <4>4, <5>1
          <6>3. QED
            BY <3>1, <3>2, <5>1, <6>1, <6>2
        <5>2. CASE i = Len(history[l]) + 1
          BY <3>1, <3>2, <4>2, <4>3, <4>4, <5>2
        <5>3. QED
          BY <4>3, <4>4, <5>1, <5>2
      <4>7. QED
        BY <3>2, <4>5, <4>6
    <3>3. CASE m # l
      BY <1>1, <1>2, <2>2, <3>1, <3>3 DEF IInv, TypeOK, Submissions, Titles
    <3>4. QED
      BY <3>2, <3>3
  <2>3. QED
    BY <2>1, <2>2
<1>15. QED
  BY <1>10, <1>11, <1>12, <1>13, <1>14 DEF IInv

-----------------------------------------------------------------------------
(* The invariant.                                                          *)

\* The empty database satisfies the invariant.
LEMMA InitInv == Init => IInv
<1> SUFFICES ASSUME Init PROVE IInv
  OBVIOUS
<1>1. TypeOK
  BY InitType
<1>2. ChallengeInv
  BY DEF Init, ChallengeInv, ChallengeOK, OutcomeOK, Created, NoChallenge
<1>3. RequestInv
  BY DEF Init, RequestInv, RequestOK, ReportOK, TitleOK, SubmitPC, AgreedPC
<1>4. StatusTellsOutcome
  BY DEF Init, StatusTellsOutcome, NoChallenge
<1>5. TitleFollowsHistory
  BY DEF Init, TitleFollowsHistory
<1>6. QED
  BY <1>1, <1>2, <1>3, <1>4, <1>5 DEF IInv

\* Every step of one request keeps it.
LEMMA StepInv ==
    ASSUME IInv, NEW r \in Request, Start(r) \/ Step(r) \/ Crash(r)
    PROVE  IInv'
<1>1. CASE Start(r)
  <2>1. PICK u \in User, c \in Challenge :
           \/ BeginAccept(r, u, c) \/ BeginDecline(r, u, c) \/ BeginCancel(r, u, c)
           \/ \E w, x \in User : SubmitLock(r, u, c, w, x)
    BY <1>1 DEF Start
  <2>2. CASE BeginAccept(r, u, c) \/ BeginDecline(r, u, c) \/ BeginCancel(r, u, c)
    BY <2>2, BeginTransitionInv DEF BeginAccept, BeginDecline, BeginCancel
  <2>3. CASE \E w, x \in User : SubmitLock(r, u, c, w, x)
    BY <2>3, SubmitLockInv
  <2>4. QED
    BY <2>1, <2>2, <2>3
<1>2. CASE FinishAccept(r) \/ FinishDecline(r) \/ FinishCancel(r)
  BY <1>2, WriteStatusInv DEF FinishAccept, FinishDecline, FinishCancel
<1>3. CASE SubmitInsert(r) \/ SubmitFirst(r) \/ SubmitDispute(r) \/ SubmitAgree(r)
  BY <1>3, SubmitInsertInv, SubmitFirstInv, SubmitDisputeInv, SubmitAgreeInv
<1>4. CASE \E role \in Role : \/ LoadProfile(r, role) \/ MissProfile(r, role)
                              \/ InsertProfile(r, role) \/ InsertConflict(r, role)
  BY <1>4, LoadProfileInv, MissProfileInv, InsertProfileInv,
                                                                             RollbackInv DEF InsertConflict
<1>5. CASE UpdateProfiles(r) \/ ReadTitle(r) \/ CommitResult(r)
  BY <1>5, UpdateProfilesInv, ReadTitleInv, CommitResultInv
<1>6. CASE TitleConflict(r) \/ Deadlock(r) \/ Crash(r)
  BY <1>6, RollbackInv DEF TitleConflict, Deadlock, Crash
<1>7. QED
  BY <1>1, <1>2, <1>3, <1>4, <1>5, <1>6 DEF Step

\* And every step of the system.
LEMMA NextInv == IInv /\ [Next]_vars => IInv'
<1> SUFFICES ASSUME IInv, [Next]_vars PROVE IInv'
  OBVIOUS
<1>1. CASE Create
  BY <1>1, CreateInv DEF Create
<1>2. CASE \E r \in Request : Start(r) \/ Step(r) \/ Crash(r)
  BY <1>2, StepInv
<1>3. CASE UNCHANGED vars
  <2>1. UNCHANGED rows /\ UNCHANGED <<locks, pc, req, seen>>
    BY <1>3 DEF vars
  <2>2. TypeOK'
    BY <2>1 DEF IInv, TypeOK, Submissions, Titles, rows, locks
  <2>3. RequestInv'
    <3> SUFFICES ASSUME NEW s \in Request
                 PROVE  (RequestOK(s) /\ ReportOK(s) /\ TitleOK(s))'
      BY DEF RequestInv
    <3>1. RequestOK(s) /\ ReportOK(s) /\ TitleOK(s)
      BY DEF IInv, RequestInv
    <3>2. RequestOK(s)'
      BY <2>1, <3>1 DEF RequestOK, Created, Participants, rows, locks
    <3>3. ReportOK(s)'
      BY <2>1, <3>1 DEF ReportOK, OtherParticipant, rows, locks
    <3>4. TitleOK(s)'
      BY <2>1, <3>1 DEF TitleOK, LadderOf, rows, locks
    <3>5. QED
      BY <3>2, <3>3, <3>4
  <2>4. QED
    BY <2>1, <2>2, <2>3, RowsFrame DEF IInv
<1>4. QED
  BY <1>1, <1>2, <1>3 DEF Next

\* The inductive invariant holds in every reachable state.
THEOREM Invariance == Spec => []IInv
BY InitInv, NextInv, PTL DEF Spec

\* Rows, arguments and loaded rows are well typed: in particular no rating,
\* win, loss or streak ever becomes negative.
THEOREM TypeCorrectness == Spec => []TypeOK
<1>1. IInv => TypeOK
  BY DEF IInv
<1>2. QED
  BY <1>1, Invariance, PTL

\* A result is applied at most once and only on agreement, for any number of
\* users, challenges and racing, crashing or retried requests.
THEOREM ResultsAppliedOnce == Spec => []AppliedOnceOnAgreement
<1>1. IInv => AppliedOnceOnAgreement
  BY DEF IInv, ChallengeInv, ChallengeOK, OutcomeOK, Created, AppliedOnceOnAgreement
<1>2. QED
  BY <1>1, Invariance, PTL

\* Verified challenges have been applied and disputed ones never are.
THEOREM OutcomeCorrectness == Spec => []StatusTellsOutcome
<1>1. IInv => StatusTellsOutcome
  BY DEF IInv
<1>2. QED
  BY <1>1, Invariance, PTL

\* Of a result the status, the reports and the ladder always say the same.
THEOREM ResultsAgreed == Spec => []ResultsAreAgreed
BY ResultsAppliedOnce, OutcomeCorrectness, PTL DEF ResultsAreAgreed

\* The honor history is one unbroken chain that ends at the title's holder.
THEOREM TitleConsistency == Spec => []TitleFollowsHistory
<1>1. IInv => TitleFollowsHistory
  BY DEF IInv
<1>2. QED
  BY <1>1, Invariance, PTL

-----------------------------------------------------------------------------
(* Challenges implements HonorLedger: creation opens a game, the commit of  *)
(* a submission reports, and every other step stutters.                     *)

GameOf(c) ==
    [challenger |-> challenge[c].challenger, opponent |-> challenge[c].opponent,
     ladder |-> challenge[c].ladder]

\* A step that keeps players, reports, applications and titles is a stutter.
LEMMA LedgerStutter ==
    ASSUME UNCHANGED <<submission, applied, holder, history>>,
           \A c \in Challenge : GameOf(c)' = GameOf(c)
    PROVE  UNCHANGED Ledger!vars
BY DEF Ledger!vars, GameOf

\* What the ledger shows is made of the rows alone.
LEMMA LedgerRows ==
    ASSUME UNCHANGED rows
    PROVE  UNCHANGED Ledger!vars
BY DEF Ledger!vars, rows

\* accept, decline and cancel write only the status, of which the ledger knows
\* nothing.
LEMMA LedgerWriteStatus ==
    ASSUME IInv, NEW r \in Request, NEW label \in PC, NEW status \in ChallengeStatus,
           label # "idle", WriteStatus(r, label, status)
    PROVE  UNCHANGED Ledger!vars
<1>1. req[r].chal \in Challenge /\ challenge \in [Challenge -> ChallengeRow]
  BY DEF WriteStatus, IInv, TypeOK, Submissions, Titles, RequestInv, RequestOK
<1>2. \A c \in Challenge : GameOf(c)' = GameOf(c)
  BY <1>1 DEF WriteStatus, GameOf, ChallengeRow
<1>3. QED
  BY <1>2, LedgerStutter DEF WriteStatus

\* create_challenge opens a game.
LEMMA LedgerCreate ==
    ASSUME IInv, NEW c \in Challenge, NEW u \in User, NEW v \in User, NEW l \in Ladder,
           CreateChallenge(c, u, v, l)
    PROVE  Ledger!Open(c, u, v, l)
<1>1. challenge[c] = NoChallenge
  BY DEF CreateChallenge, IInv, ChallengeInv, ChallengeOK, Created
<1>2. challenge' = [challenge EXCEPT ![c] =
         [status |-> "pending", challenger |-> u, opponent |-> v, ladder |-> l]]
      /\ challenge \in [Challenge -> ChallengeRow]
  BY DEF CreateChallenge, IInv, TypeOK, Submissions, Titles
<1>3. [d \in Challenge |-> GameOf(d)]' =
         [[d \in Challenge |-> GameOf(d)] EXCEPT
            ![c] = [challenger |-> u, opponent |-> v, ladder |-> l]]
  BY <1>2 DEF GameOf
<1>4. [d \in Challenge |-> GameOf(d)][c] = Ledger!NoGame
  BY <1>1 DEF GameOf, Ledger!NoGame, NoChallenge
<1>5. QED
  BY <1>3, <1>4 DEF CreateChallenge, Ledger!Open, GameOf

\* The facts about the submission that a commit reports.
LEMMA ReporterFacts ==
    ASSUME IInv, NEW r \in Request, pc[r] \in SubmitPC,
           NEW c, c = req[r].chal, NEW u, u = req[r].user,
           NEW v, v = OtherParticipant(c, u)
    PROVE  /\ c \in Challenge /\ u \in User /\ v \in User /\ u # v
           /\ {u, v} = {challenge[c].challenger, challenge[c].opponent}
           /\ {req[r].winner, req[r].loser} = {u, v}
           /\ submission[c][u] = Nobody
<1>1. RequestOK(r) /\ c \in Challenge /\ u \in User /\ Created(c)
  BY SubmissionFacts DEF IInv, RequestInv
<1>2. ChallengeOK(c)
  BY <1>1 DEF IInv, ChallengeInv
<1>3. QED
  BY <1>1, <1>2 DEF RequestOK, ChallengeOK, Participants, OtherParticipant

\* A first report, or one that disagrees, is a report of the ledger.
LEMMA LedgerCommitReport ==
    ASSUME IInv, NEW r \in Request, SubmitFirst(r) \/ SubmitDispute(r)
    PROVE  \E c \in Challenge, u, v, w, x \in User : Ledger!Report(c, u, v, w, x)
<1> DEFINE c == req[r].chal
           u == req[r].user
           v == OtherParticipant(c, u)
           w == req[r].winner
           x == req[r].loser
<1>1. /\ pc[r] = "inserted" /\ pc[r] \in SubmitPC \ {"locked"} /\ seen[r].other # w
      /\ CommitSubmission(r) /\ UNCHANGED <<applied, holder, history>>
      /\ challenge' = challenge \/ challenge' = FlipStatus(c, "disputed")
  <2>1. pc[r] = "inserted" /\ "inserted" \in SubmitPC
    BY DEF SubmitFirst, SubmitDispute, SubmitPC, PC
  <2>2. w # Nobody
    BY <2>1, SubmissionFacts, NobodyAssumption
  <2>3. QED
    BY <2>1, <2>2 DEF SubmitFirst, SubmitDispute
<1>2. /\ c \in Challenge /\ u \in User /\ v \in User /\ u # v
      /\ {u, v} = {challenge[c].challenger, challenge[c].opponent}
      /\ {w, x} = {u, v} /\ submission[c][u] = Nobody
  BY <1>1, ReporterFacts
<1>3. w \in User /\ x \in User /\ w # x /\ submission[c][v] # w
  BY <1>1, SubmissionFacts DEF IInv, RequestInv, ReportOK
<1>4. \A d \in Challenge : GameOf(d)' = GameOf(d)
  <2>1. challenge \in [Challenge -> ChallengeRow]
    BY DEF IInv, TypeOK, Submissions, Titles
  <2>2. challenge' = challenge \/ challenge' = [challenge EXCEPT ![c].status = "disputed"]
    BY <1>1 DEF FlipStatus
  <2>3. QED
    BY <1>2, <2>1, <2>2 DEF GameOf, ChallengeRow
<1>5. Ledger!Report(c, u, v, w, x)
  <2>1. [d \in Challenge |-> GameOf(d)]' = [d \in Challenge |-> GameOf(d)]
    BY <1>4
  <2>2. QED
    BY <1>1, <1>2, <1>3, <2>1 DEF Ledger!Report, CommitSubmission, GameOf
<1>6. QED
  BY <1>2, <1>3, <1>5

\* A second report that agrees is one, too, and applies the result and moves the
\* title in the same step.
LEMMA LedgerCommitResult ==
    ASSUME IInv, NEW r \in Request, CommitResult(r)
    PROVE  \E c \in Challenge, u, v, w, x \in User : Ledger!Report(c, u, v, w, x)
<1> DEFINE c == req[r].chal
           u == req[r].user
           v == OtherParticipant(c, u)
           w == req[r].winner
           x == req[r].loser
           l == LadderOf(r)
<1>1. /\ pc[r] = "commit" /\ pc[r] \in SubmitPC \ {"locked"} /\ pc[r] \in AgreedPC
  BY DEF CommitResult, SubmitPC, AgreedPC, PC
<1>2. /\ c \in Challenge /\ u \in User /\ v \in User /\ u # v
      /\ {u, v} = {challenge[c].challenger, challenge[c].opponent}
      /\ {w, x} = {u, v} /\ submission[c][u] = Nobody
  BY <1>1, ReporterFacts
<1>3. w \in User /\ x \in User /\ w # x /\ submission[c][v] = w
  BY <1>1, SubmissionFacts DEF IInv, RequestInv, ReportOK
<1>4. [d \in Challenge |-> GameOf(d)]' = [d \in Challenge |-> GameOf(d)]
  <2>1. \A d \in Challenge : GameOf(d)' = GameOf(d)
    BY <1>2 DEF CommitResult, IInv, TypeOK, Submissions, Titles, FlipStatus, GameOf,
                ChallengeRow
  <2>2. QED
    BY <2>1
<1>5. [d \in Challenge |-> GameOf(d)][c].ladder = l
  BY <1>2 DEF GameOf, LadderOf
<1>6. IF holder[l] \in {Nobody, x}
      THEN /\ holder' = [holder EXCEPT ![l] = w]
           /\ history' = [history EXCEPT ![l] =
                  Append(@, [previous |-> holder[l], new |-> w, source |-> c])]
      ELSE UNCHANGED <<holder, history>>
  BY TitleDecision DEF CommitResult, InauguratedMeanwhile
<1>7. Ledger!MoveTitle(c, w, x)
  BY <1>5, <1>6 DEF Ledger!MoveTitle, GameOf
<1>8. Ledger!Report(c, u, v, w, x)
  BY <1>1, <1>2, <1>3, <1>4, <1>7 DEF Ledger!Report, CommitResult, CommitSubmission,
                                      GameOf
<1>9. QED
  BY <1>2, <1>3, <1>8

\* Every step is a step of the ledger or none.
LEMMA LedgerNext == IInv /\ [Next]_vars => [Ledger!Next]_(Ledger!vars)
<1> SUFFICES ASSUME IInv, [Next]_vars PROVE [Ledger!Next]_(Ledger!vars)
  OBVIOUS
<1>1. CASE Create
  BY <1>1, LedgerCreate DEF Create, Ledger!Next
<1>2. ASSUME NEW r \in Request, Start(r)
      PROVE  UNCHANGED Ledger!vars
  <2>1. ASSUME NEW u, NEW c, NEW label, BeginTransition(r, u, c, label)
        PROVE  UNCHANGED rows
    BY <2>1 DEF BeginTransition
  <2>2. ASSUME NEW u, NEW c, NEW w, NEW x, SubmitLock(r, u, c, w, x)
        PROVE  UNCHANGED rows
    BY <2>2 DEF SubmitLock
  <2>3. UNCHANGED rows
    BY <1>2, <2>1, <2>2 DEF Start, BeginAccept, BeginDecline, BeginCancel
  <2>4. QED
    BY <2>3, LedgerRows
<1>3. ASSUME NEW r \in Request, Step(r)
      PROVE  [Ledger!Next]_(Ledger!vars)
  <2>1. CASE FinishAccept(r) \/ FinishDecline(r) \/ FinishCancel(r)
    BY <2>1, LedgerWriteStatus
       DEF FinishAccept, FinishDecline, FinishCancel, PC, ChallengeStatus
  <2>2. CASE SubmitFirst(r) \/ SubmitDispute(r) \/ CommitResult(r)
    <3>1. PICK c \in Challenge, u \in User, v \in User, w \in User, x \in User :
              Ledger!Report(c, u, v, w, x)
      BY <2>2, LedgerCommitReport, LedgerCommitResult
    <3>2. {w, x} = {u, v}
      BY <3>1 DEF Ledger!Report
    <3>3. w \in {u, v} /\ x \in {u, v}
      BY <3>2
    <3>4. QED
      BY <3>1, <3>3 DEF Ledger!Next
  <2>3. CASE SubmitAgree(r)
    <3>1. pc[r] \in SubmitPC
      BY <2>3 DEF SubmitAgree, SubmitPC, PC
    <3>2. challenge[req[r].chal].status = "accepted"
      BY <3>1 DEF IInv, RequestInv, RequestOK
    <3>3. QED
      BY <2>3, <3>2, LedgerRows DEF SubmitAgree
  <2>4. CASE SubmitInsert(r) \/ UpdateProfiles(r) \/ ReadTitle(r)
    BY <2>4, LedgerRows DEF SubmitInsert, UpdateProfiles, ReadTitle
  <2>5. CASE \E role \in Role : \/ LoadProfile(r, role) \/ MissProfile(r, role)
                                \/ InsertProfile(r, role) \/ InsertConflict(r, role)
    BY <2>5, LedgerRows DEF LoadProfile, MissProfile, InsertProfile, InsertConflict,
                            Rollback
  <2>6. CASE TitleConflict(r) \/ Deadlock(r)
    BY <2>6, LedgerRows DEF TitleConflict, Deadlock, Rollback
  <2>7. QED
    BY <1>3, <2>1, <2>2, <2>3, <2>4, <2>5, <2>6 DEF Step
<1>4. ASSUME NEW r \in Request, Crash(r)
      PROVE  UNCHANGED Ledger!vars
  BY <1>4, LedgerRows DEF Crash, Rollback
<1>5. CASE UNCHANGED vars
  BY <1>5, LedgerRows DEF vars
<1>6. QED
  BY <1>1, <1>2, <1>3, <1>4, <1>5 DEF Next

\* The empty database is an empty ledger.
LEMMA LedgerInit == Init => Ledger!Init
BY DEF Init, Ledger!Init, Ledger!NoGame, NoChallenge

\* The many-step handlers implement the one-instant ledger: the reports, the
\* applications and the title cannot be told from those of a system that
\* applies each second report at once.
THEOREM LedgerRefinement == Spec => LedgerSpec
BY LedgerInit, LedgerNext, Invariance, PTL DEF Spec, LedgerSpec, Ledger!Spec

-----------------------------------------------------------------------------
(* What a player has reached was earned: loaded rows are stale, but a        *)
(* result that has been applied is never taken back.                         *)

\* What a step may do to the results: nothing, or apply one more.
LEMMA AppliedGrows ==
    ASSUME IInv, [Next]_vars
    PROVE  \/ applied' = applied
           \/ \E c \in Challenge : applied' = [applied EXCEPT ![c] = @ + 1]
<1>1. CASE UNCHANGED Ledger!vars
  BY <1>1 DEF Ledger!vars
<1>2. CASE Ledger!Next
  <2>1. PICK c \in Challenge, u \in User, v \in User :
            \/ \E l \in Ladder : Ledger!Open(c, u, v, l)
            \/ \E w, x \in {u, v} : Ledger!Report(c, u, v, w, x)
    BY <1>2 DEF Ledger!Next
  <2>2. ASSUME NEW l, Ledger!Open(c, u, v, l) PROVE applied' = applied
    BY <2>2 DEF Ledger!Open
  <2>3. ASSUME NEW w, NEW x, Ledger!Report(c, u, v, w, x)
        PROVE  applied' = applied \/ applied' = [applied EXCEPT ![c] = @ + 1]
    BY <2>3 DEF Ledger!Report
  <2>4. QED
    BY <2>1, <2>2, <2>3
<1>3. QED
  BY <1>1, <1>2, LedgerNext

\* Who plays whom on which ladder never changes.
LEMMA GameKept ==
    ASSUME IInv, [Next]_vars, NEW c \in Challenge, Created(c)
    PROVE  GameOf(c)' = GameOf(c)
<1> DEFINE games == [b \in Challenge |-> GameOf(b)]
<1>1. GameOf(c) # Ledger!NoGame
  BY NobodyAssumption DEF IInv, ChallengeInv, ChallengeOK, GameOf, Ledger!NoGame
<1>2. CASE UNCHANGED Ledger!vars
  <2>1. games' = games
    BY <1>2 DEF Ledger!vars, GameOf
  <2>2. games'[c] = games[c]
    BY <2>1
  <2>3. QED
    BY <2>2
<1>3. ASSUME NEW d \in Challenge, NEW u, NEW v, NEW l, Ledger!Open(d, u, v, l)
      PROVE  GameOf(c)' = GameOf(c)
  <2>1. /\ games[d] = Ledger!NoGame
        /\ games' = [games EXCEPT ![d] = [challenger |-> u, opponent |-> v, ladder |-> l]]
    BY <1>3 DEF Ledger!Open, GameOf
  <2>2. games'[c] = games[c]
    BY <1>1, <2>1
  <2>3. QED
    BY <2>2
<1>4. ASSUME NEW d, NEW u, NEW v, NEW w, NEW x, Ledger!Report(d, u, v, w, x)
      PROVE  GameOf(c)' = GameOf(c)
  <2>1. games' = games
    BY <1>4 DEF Ledger!Report, GameOf
  <2>2. games'[c] = games[c]
    BY <2>1
  <2>3. QED
    BY <2>2
<1>5. QED
  BY <1>2, <1>3, <1>4, LedgerNext DEF Ledger!Next

\* The reports behind an applied result stay.
LEMMA ReportsKept ==
    ASSUME IInv, [Next]_vars, NEW c \in Challenge, applied[c] = 1,
           NEW p \in Participants(c)
    PROVE  submission'[c][p] = submission[c][p]
<1>1. /\ submission \in Submissions /\ challenge[c].challenger \in User
      /\ submission[c][p] # Nobody
  <2>1. ChallengeOK(c) /\ OutcomeOK(c) /\ submission \in Submissions
    BY DEF IInv, TypeOK, ChallengeInv
  <2>2. Created(c) /\ Participants(c) \subseteq User
    BY <2>1 DEF ChallengeOK, Participants
  <2>3. PICK w \in Participants(c) : AgreedOn(c, w)
    BY <2>1, <2>2 DEF OutcomeOK
  <2>4. w \in User /\ w # Nobody
    BY <2>2, NobodyAssumption
  <2>5. QED
    BY <2>1, <2>2, <2>3, <2>4 DEF AgreedOn, ChallengeOK
<1>2. CASE UNCHANGED Ledger!vars
  BY <1>2 DEF Ledger!vars
<1>3. ASSUME NEW d, NEW u, NEW v, NEW l, Ledger!Open(d, u, v, l)
      PROVE  submission' = submission
  BY <1>3 DEF Ledger!Open
<1>4. ASSUME NEW d \in Challenge, NEW u \in User, NEW v, NEW w, NEW x,
             Ledger!Report(d, u, v, w, x)
      PROVE  submission'[c][p] = submission[c][p]
  <2>1. /\ submission[d][u] = Nobody
        /\ submission' = [submission EXCEPT ![d][u] = w]
    BY <1>4 DEF Ledger!Report
  <2>2. ~ (d = c /\ u = p)
    BY <1>1, <2>1
  <2>3. QED
    BY <1>1, <2>1, <2>2 DEF Submissions
<1>5. CASE Ledger!Next
  <2>1. PICK d \in Challenge, u \in User, v \in User :
            \/ \E l \in Ladder : Ledger!Open(d, u, v, l)
            \/ \E w, x \in {u, v} : Ledger!Report(d, u, v, w, x)
    BY <1>5 DEF Ledger!Next
  <2>2. QED
    BY <1>3, <1>4, <2>1
<1>6. QED
  BY <1>2, <1>5, LedgerNext

\* The results behind a row only become more, and there are finitely many.
LEMMA AppliedFinite ==
    ASSUME IInv, [Next]_vars, IsFiniteSet(AppliedResults)
    PROVE  IsFiniteSet(AppliedResults')
<1>1. CASE applied' = applied
  BY <1>1 DEF AppliedResults
<1>2. ASSUME NEW c \in Challenge, applied' = [applied EXCEPT ![c] = @ + 1]
      PROVE  IsFiniteSet(AppliedResults')
  <2>1. AppliedResults' \subseteq AppliedResults \cup {c}
    BY <1>2 DEF AppliedResults, IInv, TypeOK
  <2>2. IsFiniteSet(AppliedResults \cup {c})
    BY FS_AddElement
  <2>3. QED
    BY <2>1, <2>2, FS_Subset
<1>3. QED
  BY <1>1, <1>2, AppliedGrows

\* Results are only added, and finitely many stay so.
LEMMA ResultsGrow ==
    ASSUME IInv, IInv', [Next]_vars, IsFiniteSet(AppliedResults),
           NEW l \in Ladder, NEW u \in User
    PROVE  /\ IsFiniteSet(AppliedResults')
           /\ Won(l, u) \subseteq Won(l, u)' /\ Lost(l, u) \subseteq Lost(l, u)'
<1>1. IsFiniteSet(AppliedResults')
  BY AppliedFinite
<1>2. ASSUME NEW c \in Challenge, applied[c] = 1
      PROVE  /\ applied'[c] = 1 /\ challenge'[c].ladder = challenge[c].ladder
             /\ Participants(c)' = Participants(c)
             /\ AgreedOn(c, u)' <=> AgreedOn(c, u)
  <2>1. GameOf(c)' = GameOf(c)
    BY <1>2, GameKept DEF IInv, ChallengeInv, ChallengeOK, Created
  <2>2. applied'[c] = 1
    BY <1>2, AppliedGrows DEF IInv, TypeOK, ChallengeInv, OutcomeOK
  <2>3. \A p \in Participants(c) : submission'[c][p] = submission[c][p]
    BY <1>2, ReportsKept
  <2>4. /\ challenge'[c].ladder = challenge[c].ladder
        /\ Participants(c)' = Participants(c)
    BY <2>1 DEF GameOf, Participants
  <2>5. QED
    BY <2>2, <2>3, <2>4 DEF AgreedOn
<1>3. Won(l, u) \subseteq Won(l, u)'
  BY <1>2 DEF Won
<1>4. Lost(l, u) \subseteq Lost(l, u)'
  BY <1>2 DEF Lost
<1>5. QED
  BY <1>1, <1>3, <1>4

\* The results of a user can be counted.
LEMMA ResultsFinite ==
    ASSUME IsFiniteSet(AppliedResults), NEW l, NEW u
    PROVE  /\ IsFiniteSet(Won(l, u)) /\ Cardinality(Won(l, u)) \in Nat
           /\ IsFiniteSet(Lost(l, u)) /\ Cardinality(Lost(l, u)) \in Nat
<1>1. Won(l, u) \subseteq AppliedResults /\ Lost(l, u) \subseteq AppliedResults
  BY DEF Won, Lost, AppliedResults
<1>2. QED
  BY <1>1, FS_Subset, FS_CardinalityType

\* What has been earned stays earned.
LEMMA EarnedKept ==
    ASSUME IInv, IInv', [Next]_vars, IsFiniteSet(AppliedResults),
           NEW l \in Ladder, NEW u \in User, NEW row \in RankProfile, EarnedRow(l, u, row)
    PROVE  EarnedRow(l, u, row)'
<1>1. /\ IsFiniteSet(AppliedResults')
      /\ Won(l, u) \subseteq Won(l, u)' /\ Lost(l, u) \subseteq Lost(l, u)'
  BY ResultsGrow
<1>2. /\ Cardinality(Won(l, u)) \in Nat /\ Cardinality(Lost(l, u)) \in Nat
      /\ IsFiniteSet(Won(l, u)') /\ Cardinality(Won(l, u)') \in Nat
      /\ IsFiniteSet(Lost(l, u)') /\ Cardinality(Lost(l, u)') \in Nat
  <2>1. Won(l, u)' \subseteq AppliedResults' /\ Lost(l, u)' \subseteq AppliedResults'
    BY DEF Won, Lost, AppliedResults
  <2>2. QED
    BY <1>1, <2>1, ResultsFinite, FS_Subset, FS_CardinalityType
<1>3. /\ Cardinality(Won(l, u)) <= Cardinality(Won(l, u)')
      /\ Cardinality(Lost(l, u)) <= Cardinality(Lost(l, u)')
  BY <1>1, <1>2, FS_Subset
<1>4. row.wins \in Nat /\ row.losses \in Nat
  BY DEF RankProfile
<1>5. QED
  BY <1>2, <1>3, <1>4 DEF EarnedRow

\* A new profile is earned by whatever results there are.
LEMMA BaselineEarned ==
    ASSUME IsFiniteSet(AppliedResults), NEW l, NEW u
    PROVE  EarnedRow(l, u, BaselineProfile)
BY ResultsFinite, EconomyAssumption DEF EarnedRow, BaselineProfile

\* What a request has loaded stays earned while it keeps its arguments.
LEMMA WinnerKept ==
    ASSUME IInv, IInv', [Next]_vars, LadderInv, NEW s \in Request,
           pc[s] \in {"loadLoser", "insertLoser", "update", "title", "commit"},
           req'[s] = req[s], seen'[s].winner = seen[s].winner
    PROVE  EarnedRow(LadderOf(s), req[s].winner, seen[s].winner)'
<1>1. /\ req[s].chal \in Challenge /\ Created(req[s].chal)
      /\ LadderOf(s) \in Ladder /\ req[s].winner \in User
  BY SubmissionFacts DEF SubmitPC, PC
<1>2. LadderOf(s)' = LadderOf(s)
  BY <1>1, GameKept DEF LadderOf, GameOf
<1>3. seen[s].winner \in RankProfile
  BY DEF IInv, TypeOK, Loaded
<1>4. EarnedRow(LadderOf(s), req[s].winner, seen[s].winner) /\ IsFiniteSet(AppliedResults)
  BY DEF LadderInv, LoadedOK
<1>5. ASSUME NEW l, l = LadderOf(s), NEW u, u = req[s].winner, NEW row, row = seen[s].winner
      PROVE  EarnedRow(l, u, row)'
  BY <1>1, <1>3, <1>4, <1>5, EarnedKept
<1>6. QED
  BY <1>2, <1>5 DEF EarnedRow, Won, Lost

\* What a request has loaded of the loser is earned after the step, too: results are
\* not taken back.
LEMMA LoserKept ==
    ASSUME IInv, IInv', [Next]_vars, LadderInv, NEW s \in Request,
           pc[s] \in {"update", "title", "commit"},
           req'[s] = req[s], seen'[s].loser = seen[s].loser
    PROVE  EarnedRow(LadderOf(s), req[s].loser, seen[s].loser)'
<1>1. /\ req[s].chal \in Challenge /\ Created(req[s].chal)
      /\ LadderOf(s) \in Ladder /\ req[s].loser \in User
  BY SubmissionFacts DEF SubmitPC, PC
<1>2. LadderOf(s)' = LadderOf(s)
  BY <1>1, GameKept DEF LadderOf, GameOf
<1>3. seen[s].loser \in RankProfile
  BY DEF IInv, TypeOK, Loaded
<1>4. EarnedRow(LadderOf(s), req[s].loser, seen[s].loser) /\ IsFiniteSet(AppliedResults)
  BY DEF LadderInv, LoadedOK
<1>5. ASSUME NEW l, l = LadderOf(s), NEW u, u = req[s].loser, NEW row, row = seen[s].loser
      PROVE  EarnedRow(l, u, row)'
  BY <1>1, <1>3, <1>4, <1>5, EarnedKept
<1>6. QED
  BY <1>2, <1>5 DEF EarnedRow, Won, Lost

\* So is all that it has loaded, if the step does not touch it.
LEMMA LoadedFrame ==
    ASSUME IInv, IInv', [Next]_vars, LadderInv, NEW s \in Request, Untouched(s)
    PROVE  LoadedOK(s)'
<1>1. LoadedOK(s)' <=>
         /\ pc'[s] \in {"loadLoser", "insertLoser", "update", "title", "commit"} =>
               EarnedRow(LadderOf(s), req[s].winner, seen[s].winner)'
         /\ pc'[s] \in {"update", "title", "commit"} =>
               EarnedRow(LadderOf(s), req[s].loser, seen[s].loser)'
  BY DEF LoadedOK
<1>2. QED
  BY <1>1, WinnerKept, LoserKept DEF Untouched

\* A step that leaves profiles and titles alone.
LEMMA LadderFrame ==
    ASSUME IInv, IInv', [Next]_vars, LadderInv, UNCHANGED <<profile, profileRow, holder>>
    PROVE  IsFiniteSet(AppliedResults') /\ LadderIsEarned'
<1>1. IsFiniteSet(AppliedResults) /\ ProfilesNeverInflate /\ ChampionHasWon
  BY DEF LadderInv, LadderIsEarned
<1>2. IsFiniteSet(AppliedResults')
  BY <1>1, AppliedFinite
<1>3. ASSUME NEW l \in Ladder, NEW u \in User PROVE EarnedRow(l, u, profile[l][u])'
  <2>1. ASSUME NEW row, row = profile[l][u] PROVE EarnedRow(l, u, row)'
    BY <1>1, <2>1, EarnedKept DEF ProfilesNeverInflate, IInv, TypeOK
  <2>2. QED
    BY <2>1 DEF EarnedRow, Won, Lost
<1>4. ChampionHasWon'
  BY <1>1 DEF ChampionHasWon
<1>5. QED
  BY <1>2, <1>3, <1>4 DEF LadderIsEarned, ProfilesNeverInflate

\* A step of the hook that loads a row, or goes on with the rows it has.
LEMMA HookLadder ==
    ASSUME IInv, IInv', [Next]_vars, LadderInv, NEW r \in Request,
           UNCHANGED <<profile, profileRow, holder>>,
           \A s \in Request \ {r} : Untouched(s), LoadedOK(r)'
    PROVE  LadderInv'
<1>1. ASSUME NEW s \in Request PROVE LoadedOK(s)'
  BY LoadedFrame
<1>2. QED
  BY <1>1, LadderFrame DEF LadderInv

\* A transaction that writes no profile keeps the ladder as it ends.
LEMMA EndLadder ==
    ASSUME IInv, IInv', [Next]_vars, LadderInv, NEW r \in Request,
           UNCHANGED <<profile, profileRow, holder>>, End(r)
    PROVE  LadderInv'
<1>1. LoadedOK(r)'
  BY EndFrame DEF LoadedOK
<1>2. QED
  BY <1>1, EndFrame, HookLadder

\* A row that is loaded has been earned.
LEMMA RememberLadder ==
    ASSUME IInv, IInv', [Next]_vars, LadderInv, NEW r \in Request, NEW role \in Role,
           UNCHANGED <<rows, req>>, pc[r] \in {LoadLabel(role), InsertLabel(role)},
           Goto(r, AfterLabel(role)), NEW row \in RankProfile, Remember(r, role, row),
           EarnedRow(LadderOf(r), UserOf(r, role), row)
    PROVE  LadderInv'
<1>1. /\ pc[r] \in AgreedPC /\ UNCHANGED <<profile, profileRow, holder>>
      /\ pc \in [Request -> PC] /\ seen \in [Request -> Loaded]
  BY RoleLabels DEF rows, IInv, TypeOK
<1>2. /\ pc'[r] = AfterLabel(role)
      /\ \A s \in Request \ {r} : Untouched(s)
  BY <1>1, RememberType DEF Goto, Untouched
<1>3. EarnedRow(LadderOf(r), UserOf(r, role), row)'
  <2>1. LadderOf(r) \in Ladder /\ UserOf(r, role) \in User /\ IsFiniteSet(AppliedResults)
    BY <1>1, ProfileUser DEF LadderInv
  <2>2. ASSUME NEW l, l = LadderOf(r), NEW u, u = UserOf(r, role)
        PROVE  EarnedRow(l, u, row)'
    BY <2>1, <2>2, EarnedKept
  <2>3. LadderOf(r)' = LadderOf(r) /\ UserOf(r, role)' = UserOf(r, role)
    BY DEF LadderOf, UserOf, rows
  <2>4. QED
    BY <2>2, <2>3 DEF EarnedRow, Won, Lost
<1>4. CASE role = "winner"
  <2>1. seen'[r].winner = row /\ UserOf(r, role)' = req[r].winner' /\ pc'[r] = "loadLoser"
    BY <1>1, <1>2, <1>4 DEF Remember, Loaded, UserOf, AfterLabel
  <2>2. LoadedOK(r)'
    BY <1>3, <2>1 DEF LoadedOK, EarnedRow, Won, Lost
  <2>3. QED
    BY <1>1, <1>2, <2>2, HookLadder
<1>5. CASE role = "loser"
  <2>1. /\ seen'[r].loser = row /\ seen'[r].winner = seen[r].winner
        /\ UserOf(r, role)' = req[r].loser' /\ pc'[r] = "update"
        /\ pc[r] \in {"loadLoser", "insertLoser"} /\ req'[r] = req[r]
    BY <1>1, <1>2, <1>5 DEF Remember, Loaded, UserOf, AfterLabel, LoadLabel, InsertLabel
  <2>2. EarnedRow(LadderOf(r), req[r].winner, seen[r].winner)'
    BY <2>1, WinnerKept
  <2>3. LoadedOK(r)'
    BY <1>3, <2>1, <2>2 DEF LoadedOK, EarnedRow, Won, Lost
  <2>4. QED
    BY <1>1, <1>2, <2>3, HookLadder
<1>6. QED
  BY <1>4, <1>5 DEF Role

\* A profile that is loaded was earned when it was committed.
LEMMA LoadProfileLadder ==
    ASSUME IInv, IInv', [Next]_vars, LadderInv, NEW r \in Request, NEW role \in Role,
           LoadProfile(r, role)
    PROVE  LadderInv'
<1>1. pc[r] \in AgreedPC
  BY RoleLabels DEF LoadProfile
<1>2. LadderOf(r) \in Ladder /\ UserOf(r, role) \in User
  BY <1>1, ProfileUser
<1>3. /\ profile[LadderOf(r)][UserOf(r, role)] \in RankProfile
      /\ EarnedRow(LadderOf(r), UserOf(r, role), profile[LadderOf(r)][UserOf(r, role)])
  BY <1>2 DEF IInv, TypeOK, LadderInv, LadderIsEarned, ProfilesNeverInflate
<1>4. QED
  BY <1>3, RememberLadder DEF LoadProfile

\* One that is inserted is the baseline.
LEMMA InsertProfileLadder ==
    ASSUME IInv, IInv', [Next]_vars, LadderInv, NEW r \in Request, NEW role \in Role,
           InsertProfile(r, role)
    PROVE  LadderInv'
<1>1. EarnedRow(LadderOf(r), UserOf(r, role), BaselineProfile)
  BY BaselineEarned DEF LadderInv
<1>2. QED
  BY <1>1, BaselineType, RememberLadder DEF InsertProfile

\* The steps of a submission that load no row of a player.
LEMMA GoLadder ==
    ASSUME IInv, IInv', [Next]_vars, LadderInv, NEW r \in Request, UNCHANGED <<rows, req>>,
           NEW label, Goto(r, label), \A s \in Request \ {r} : seen'[s] = seen[s],
           seen'[r].winner = seen[r].winner, seen'[r].loser = seen[r].loser,
           label \in {"loadLoser", "insertLoser", "update", "title", "commit"} =>
               pc[r] \in {"loadLoser", "insertLoser", "update", "title", "commit"},
           label \in {"update", "title", "commit"} => pc[r] \in {"update", "title", "commit"}
    PROVE  LadderInv'
<1>1. pc'[r] = label /\ \A s \in Request \ {r} : Untouched(s)
  BY DEF IInv, TypeOK, Goto, Untouched
<1>2. LoadedOK(r)' <=>
         /\ pc'[r] \in {"loadLoser", "insertLoser", "update", "title", "commit"} =>
               EarnedRow(LadderOf(r), req[r].winner, seen[r].winner)'
         /\ pc'[r] \in {"update", "title", "commit"} =>
               EarnedRow(LadderOf(r), req[r].loser, seen[r].loser)'
  BY DEF LoadedOK
<1>3. LoadedOK(r)'
  BY <1>1, <1>2, WinnerKept, LoserKept
<1>4. QED
  BY <1>1, <1>3, HookLadder DEF rows

\* The commit counts one more win and one more loss than were loaded, and adds
\* its own result to those that the two players can point to.
LEMMA CommitResultEarned ==
    ASSUME IInv, IInv', [Next]_vars, LadderInv, NEW r \in Request, CommitResult(r),
           NEW c, c = req[r].chal, NEW w, w = req[r].winner, NEW x, x = req[r].loser,
           NEW l, l = LadderOf(r),
           NEW pw, pw = WinnerRow(profile[l][w], seen[r].winner),
           NEW px, px = LoserRow(profile[l][x], seen[r].loser)
    PROVE  LadderInv'
<1>1. /\ pc[r] = "commit" /\ pc[r] \in SubmitPC \ {"locked"} /\ pc[r] \in AgreedPC
      /\ End(r) /\ CommitSubmission(r)
      /\ challenge' = FlipStatus(c, "verified")
      /\ applied' = [applied EXCEPT ![c] = @ + 1]
      /\ holder' = IF TitleMoves(r) THEN [holder EXCEPT ![l] = w] ELSE holder
      /\ profileRow' = profileRow \cup {<<l, w>>, <<l, x>>}
      /\ profile' = [profile EXCEPT ![l][w] = pw, ![l][x] = px]
  BY DEF CommitResult, SubmitPC, AgreedPC, PC
<1>2. /\ c \in Challenge /\ w \in User /\ x \in User /\ w # x /\ l \in Ladder /\ Created(c)
      /\ req[r].user \in User /\ seen[r] \in Loaded
      /\ profile \in [Ladder -> [User -> RankProfile]] /\ holder \in Titles
      /\ submission \in Submissions
  BY <1>1, SubmissionFacts DEF IInv, TypeOK
<1>3. /\ IsFiniteSet(AppliedResults) /\ IsFiniteSet(AppliedResults')
      /\ EarnedRow(l, w, seen[r].winner) /\ EarnedRow(l, x, seen[r].loser)
      /\ ProfilesNeverInflate /\ ChampionHasWon
  BY <1>1, AppliedFinite DEF LadderInv, LoadedOK, LadderIsEarned
<1>4. /\ applied[c] = 0 /\ applied'[c] = 1
      /\ challenge'[c].ladder = l /\ Participants(c)' = {w, x} /\ AgreedOn(c, w)'
  <2>1. submission[c][OtherParticipant(c, req[r].user)] = w /\ submission[c][req[r].user] = Nobody
        /\ req[r].user \in Participants(c) /\ {w, x} = Participants(c)
    <3>1. RequestOK(r) /\ ReportOK(r)
      BY DEF IInv, RequestInv
    <3>2. submission[c][req[r].user] = Nobody
          /\ req[r].user \in Participants(c) /\ {w, x} = Participants(c)
      BY <1>1, <3>1 DEF RequestOK
    <3>3. submission[c][OtherParticipant(c, req[r].user)] = w
      BY <1>1, <3>1 DEF ReportOK
    <3>4. QED
      BY <3>2, <3>3
  <2>2. applied[c] = 0
    <3>1. \A y \in Participants(c) : ~AgreedOn(c, y)
      BY <1>2, <2>1, NobodyAssumption DEF AgreedOn
    <3>2. QED
      BY <1>2, <3>1 DEF IInv, ChallengeInv, OutcomeOK
  <2>3. applied'[c] = 1
    BY <1>1, <1>2, <2>2 DEF IInv, TypeOK
  <2>4. GameOf(c)' = GameOf(c)
    BY <1>2, GameKept
  <2>5. challenge'[c].ladder = l /\ Participants(c)' = Participants(c)
    BY <2>4 DEF GameOf, LadderOf, Participants
  <2>6. AgreedOn(c, w)'
    <3>1. \A p \in Participants(c) :
             p = req[r].user \/ p = OtherParticipant(c, req[r].user)
      BY <2>1 DEF Participants, OtherParticipant
    <3>2. \A p \in Participants(c) : submission'[c][p] = w
      BY <1>1, <1>2, <2>1, <3>1 DEF CommitSubmission, Submissions
    <3>3. QED
      BY <2>5, <3>2 DEF AgreedOn
  <2>7. QED
    BY <2>1, <2>2, <2>3, <2>5, <2>6
<1>5. /\ Cardinality(Won(l, w)) + 1 <= Cardinality(Won(l, w)')
      /\ Cardinality(Lost(l, x)) + 1 <= Cardinality(Lost(l, x)')
      /\ Cardinality(Lost(l, w)) <= Cardinality(Lost(l, w)')
      /\ Cardinality(Won(l, x)) <= Cardinality(Won(l, x)')
  <2>1. /\ Won(l, w) \cup {c} \subseteq Won(l, w)' /\ c \notin Won(l, w)
        /\ Won(l, x) \subseteq Won(l, x)'
    <3>1. c \in Won(l, w)' /\ c \notin Won(l, w)
      BY <1>2, <1>4 DEF Won
    <3>2. QED
      BY <1>2, <1>3, <3>1, ResultsGrow
  <2>2. /\ Lost(l, x) \cup {c} \subseteq Lost(l, x)' /\ c \notin Lost(l, x)
        /\ Lost(l, w) \subseteq Lost(l, w)'
    <3>1. ~AgreedOn(c, x)' /\ x \in Participants(c)'
      BY <1>2, <1>4 DEF AgreedOn
    <3>2. c \in Lost(l, x)' /\ c \notin Lost(l, x)
      BY <1>2, <1>4, <3>1 DEF Lost
    <3>3. QED
      BY <1>2, <1>3, <3>2, ResultsGrow
  <2>3. \A u : /\ Won(l, u)' \subseteq AppliedResults' /\ Lost(l, u)' \subseteq AppliedResults'
    BY DEF Won, Lost, AppliedResults
  <2>4. \A u : IsFiniteSet(Won(l, u)') /\ IsFiniteSet(Lost(l, u)')
    BY <1>3, <2>3, FS_Subset
  <2>5. \A u : IsFiniteSet(Won(l, u)) /\ IsFiniteSet(Lost(l, u))
    BY <1>3, ResultsFinite
  <2>6. /\ Cardinality(Won(l, w) \cup {c}) = Cardinality(Won(l, w)) + 1
        /\ Cardinality(Lost(l, x) \cup {c}) = Cardinality(Lost(l, x)) + 1
    BY <2>1, <2>2, <2>5, FS_AddElement
  <2>7. QED
    BY <2>1, <2>2, <2>4, <2>6, FS_Subset
<1>6. /\ Cardinality(Won(l, w)) \in Nat /\ Cardinality(Won(l, w)') \in Nat
      /\ Cardinality(Lost(l, w)) \in Nat /\ Cardinality(Lost(l, w)') \in Nat
      /\ Cardinality(Won(l, x)) \in Nat /\ Cardinality(Won(l, x)') \in Nat
      /\ Cardinality(Lost(l, x)) \in Nat /\ Cardinality(Lost(l, x)') \in Nat
  <2>1. \A u : /\ Won(l, u)' \subseteq AppliedResults' /\ Lost(l, u)' \subseteq AppliedResults'
    BY DEF Won, Lost, AppliedResults
  <2>2. QED
    BY <1>3, <2>1, ResultsFinite, FS_Subset, FS_CardinalityType
<1>7. /\ EarnedRow(l, w, profile[l][w]) /\ EarnedRow(l, x, profile[l][x])
      /\ profile[l][w] \in RankProfile /\ profile[l][x] \in RankProfile
      /\ seen[r].winner \in RankProfile /\ seen[r].loser \in RankProfile
  BY <1>2, <1>3 DEF ProfilesNeverInflate, Loaded
<1>8. EarnedRow(l, w, pw)' /\ EarnedRow(l, x, px)'
  <2>1. ASSUME NEW pr \in RankProfile, pr = profile[l][w],
               NEW sr \in RankProfile, sr = seen[r].winner
        PROVE  LET row == WinnerRow(pr, sr)
               IN  /\ row.wins <= Cardinality(Won(l, w)')
                   /\ row.losses <= Cardinality(Lost(l, w)')
                   /\ row.streak <= row.wins /\ row.rating >= RatingFloor
    BY <1>3, <1>5, <1>6, <1>7, <2>1, EconomyAssumption
       DEF EarnedRow, WinnerRow, Written, RankProfile
  <2>2. ASSUME NEW pr \in RankProfile, pr = profile[l][x],
               NEW sr \in RankProfile, sr = seen[r].loser
        PROVE  LET row == LoserRow(pr, sr)
               IN  /\ row.wins <= Cardinality(Won(l, x)')
                   /\ row.losses <= Cardinality(Lost(l, x)')
                   /\ row.streak <= row.wins /\ row.rating >= RatingFloor
    BY <1>3, <1>5, <1>6, <1>7, <2>2, EconomyAssumption
       DEF EarnedRow, LoserRow, RatingAfterLoss, Written, RankProfile
  <2>3. QED
    BY <1>7, <2>1, <2>2 DEF EarnedRow
<1>9. ProfilesNeverInflate'
  <2>1. ASSUME NEW m \in Ladder, NEW u \in User, NEW row, row = profile'[m][u]
        PROVE  EarnedRow(m, u, row)'
    <3>1. CASE m = l /\ u = w
      <4>1. row = pw
        BY <1>1, <1>2, <2>1, <3>1
      <4>2. QED
        BY <1>8, <3>1, <4>1
    <3>2. CASE m = l /\ u = x
      <4>1. row = px
        BY <1>1, <1>2, <2>1, <3>2
      <4>2. QED
        BY <1>8, <3>2, <4>1
    <3>3. CASE ~(m = l /\ u \in {w, x})
      <4>1. row = profile[m][u] /\ row \in RankProfile
        BY <1>1, <1>2, <2>1, <3>3
      <4>2. EarnedRow(m, u, row)
        BY <1>3, <4>1 DEF ProfilesNeverInflate
      <4>3. QED
        BY <1>2, <1>3, <4>1, <4>2, EarnedKept
    <3>4. QED
      BY <3>1, <3>2, <3>3
  <2>2. QED
    BY <2>1 DEF ProfilesNeverInflate, EarnedRow, Won, Lost
<1>10. ChampionHasWon'
  <2> SUFFICES ASSUME NEW m \in Ladder, holder'[m] # Nobody
               PROVE  <<m, holder'[m]>> \in profileRow' /\ profile'[m][holder'[m]].wins > 0
    BY DEF ChampionHasWon
  <2>1. profile'[l][w].wins > 0
    <3>1. profile'[l][w] = pw
      BY <1>1, <1>2
    <3>2. seen[r].winner.wins \in Nat
      BY <1>7 DEF RankProfile
    <3>3. pw.wins = seen[r].winner.wins + 1
      BY <3>2 DEF WinnerRow, Written
    <3>4. QED
      BY <3>1, <3>2, <3>3
  <2>2. ASSUME NEW u \in User, ~(m = l /\ u = w), profile[m][u].wins > 0
        PROVE  profile'[m][u].wins > 0
    <3>1. CASE m = l /\ u = x
      <4>1. profile'[m][u] = px /\ px.wins = profile[l][x].wins
        BY <1>1, <1>2, <3>1 DEF LoserRow
      <4>2. QED
        BY <2>2, <3>1, <4>1
    <3>2. CASE ~(m = l /\ u = x)
      <4>1. profile'[m][u] = profile[m][u]
        BY <1>1, <1>2, <2>2, <3>2
      <4>2. QED
        BY <2>2, <4>1
    <3>3. QED
      BY <3>1, <3>2
  <2>3. CASE m = l /\ holder'[m] = w
    <3>1. <<l, w>> \in profileRow'
      BY <1>1
    <3>2. QED
      BY <2>1, <2>3, <3>1
  <2>4. CASE ~(m = l /\ holder'[m] = w)
    <3>1. holder'[m] = holder[m] /\ holder[m] \in User
      BY <1>1, <1>2, <2>4 DEF Titles
    <3>2. <<m, holder[m]>> \in profileRow /\ profile[m][holder[m]].wins > 0
      BY <1>3, <3>1 DEF ChampionHasWon
    <3>3. profile'[m][holder'[m]].wins > 0
      BY <2>2, <2>4, <3>1, <3>2
    <3>4. <<m, holder[m]>> \in profileRow'
      BY <1>1, <3>2
    <3>5. QED
      BY <3>1, <3>3, <3>4
  <2>5. QED
    BY <2>3, <2>4
<1>11. ASSUME NEW s \in Request PROVE LoadedOK(s)'
  <2>1. CASE s = r
    BY <1>1, <2>1, EndFrame DEF LoadedOK
  <2>2. CASE s # r
    BY <1>1, <2>2, EndFrame, LoadedFrame
  <2>3. QED
    BY <2>1, <2>2
<1>12. QED
  BY <1>3, <1>9, <1>10, <1>11 DEF LadderInv, LadderIsEarned

\* The rows a result writes count what the request has loaded and this result: lost
\* updates only make them lower.
LEMMA CommitResultLadder ==
    ASSUME IInv, IInv', [Next]_vars, LadderInv, NEW r \in Request, CommitResult(r)
    PROVE  LadderInv'
BY CommitResultEarned

\* Every step of a request keeps the ladder.
LEMMA LadderStep ==
    ASSUME IInv, IInv', [Next]_vars, LadderInv, NEW r \in Request, Step(r) \/ Crash(r)
    PROVE  LadderInv'
<1>1. CASE \/ FinishAccept(r) \/ FinishDecline(r) \/ FinishCancel(r)
           \/ SubmitFirst(r) \/ SubmitDispute(r)
           \/ TitleConflict(r) \/ Deadlock(r) \/ Crash(r)
  BY <1>1, EndLadder DEF FinishAccept, FinishDecline, FinishCancel, WriteStatus, SubmitFirst,
         SubmitDispute, TitleConflict, Deadlock, Crash, Rollback, rows
<1>2. CASE SubmitInsert(r)
  <2>1. /\ \A s \in Request \ {r} : seen'[s] = seen[s]
        /\ seen'[r].winner = seen[r].winner /\ seen'[r].loser = seen[r].loser
    BY <1>2 DEF SubmitInsert, IInv, TypeOK, Loaded
  <2>2. QED
    BY <1>2, <2>1, GoLadder DEF SubmitInsert
<1>3. CASE SubmitAgree(r)
  <2>1. CASE challenge[req[r].chal].status = "accepted"
    BY <1>3, <2>1, GoLadder DEF SubmitAgree
  <2>2. CASE challenge[req[r].chal].status # "accepted"
    BY <1>3, <2>2, EndLadder DEF SubmitAgree
  <2>3. QED
    BY <2>1, <2>2
<1>4. ASSUME NEW role \in Role,
             \/ LoadProfile(r, role) \/ MissProfile(r, role)
             \/ InsertProfile(r, role) \/ InsertConflict(r, role)
      PROVE  LadderInv'
  <2>1. CASE MissProfile(r, role)
    BY <2>1, GoLadder DEF MissProfile, LoadLabel, InsertLabel, Role
  <2>2. CASE InsertConflict(r, role)
    BY <2>2, EndLadder DEF InsertConflict, Rollback, rows
  <2>3. QED
    BY <1>4, <2>1, <2>2, LoadProfileLadder, InsertProfileLadder
<1>5. CASE UpdateProfiles(r)
  BY <1>5, GoLadder DEF UpdateProfiles
<1>6. CASE ReadTitle(r)
  <2>1. /\ \A s \in Request \ {r} : seen'[s] = seen[s]
        /\ seen'[r].winner = seen[r].winner /\ seen'[r].loser = seen[r].loser
    BY <1>6 DEF ReadTitle, IInv, TypeOK, Loaded
  <2>2. QED
    BY <1>6, <2>1, GoLadder DEF ReadTitle
<1>7. QED
  BY <1>1, <1>2, <1>3, <1>4, <1>5, <1>6, CommitResultLadder DEF Step

\* And every step of the system.
LEMMA LadderNext == IInv /\ IInv' /\ LadderInv /\ [Next]_vars => LadderInv'
<1> SUFFICES ASSUME IInv, IInv', LadderInv, [Next]_vars PROVE LadderInv'
  OBVIOUS
<1>1. CASE Create \/ UNCHANGED vars
  <2>1. /\ UNCHANGED <<profile, profileRow, holder>> /\ \A s \in Request : Untouched(s)
    BY <1>1 DEF Create, CreateChallenge, Untouched, vars, rows
  <2>2. QED
    BY <2>1, LoadedFrame, LadderFrame DEF LadderInv
<1>2. ASSUME NEW r \in Request, Start(r)
      PROVE  LadderInv'
  <2>1. PICK u \in User, c \in Challenge :
           \/ \E label \in {"accept", "decline", "cancel"} : BeginTransition(r, u, c, label)
           \/ \E w, x \in User : SubmitLock(r, u, c, w, x)
    BY <1>2 DEF Start, BeginAccept, BeginDecline, BeginCancel
  <2>2. \E label \in {"accept", "decline", "cancel", "locked"} :
           pc' = [pc EXCEPT ![r] = label] /\ \A s \in Request \ {r} : Untouched(s)
    BY <2>1 DEF BeginTransition, SubmitLock, Begin, Goto, IInv, TypeOK, Untouched
  <2>3. UNCHANGED <<profile, profileRow, holder>>
    BY <2>1 DEF BeginTransition, SubmitLock, rows
  <2>4. LoadedOK(r)'
    BY <2>2 DEF IInv, TypeOK, LoadedOK
  <2>5. QED
    BY <2>2, <2>3, <2>4, HookLadder
<1>3. QED
  BY <1>1, <1>2, LadderStep DEF Next

\* The empty ladder is earned.
LEMMA LadderInit == Init => LadderInv
<1> SUFFICES ASSUME Init PROVE LadderInv
  OBVIOUS
<1>1. IsFiniteSet(AppliedResults)
  <2>1. AppliedResults = {}
    BY DEF Init, AppliedResults
  <2>2. QED
    BY <2>1, FS_EmptySet
<1>2. ProfilesNeverInflate
  BY <1>1, BaselineEarned DEF Init, ProfilesNeverInflate
<1>3. ChampionHasWon /\ \A r \in Request : LoadedOK(r)
  BY DEF Init, ChampionHasWon, LoadedOK
<1>4. QED
  BY <1>1, <1>2, <1>3 DEF LadderInv, LadderIsEarned

\* Whatever updates racing requests lose, nobody stands higher on a ladder than
\* the applied results behind it, and its champion has won one of them.
THEOREM LadderEarned == Spec => []LadderIsEarned
<1>1. LadderInv => LadderIsEarned
  BY DEF LadderInv
<1>2. QED
  BY <1>1, LadderInit, LadderNext, Invariance, PTL DEF Spec

-----------------------------------------------------------------------------
(* The second report decides.                                               *)

\* As long as its reports stay, a challenge does not come to have two.
LEMMA ReportsStay ==
    ASSUME IInv, [Next]_vars, NEW c \in Challenge, submission'[c] = submission[c],
           ~BothReported(c)
    PROVE  ~BothReported(c)'
<1>1. CASE Created(c)
  <2>1. Participants(c)' = Participants(c)
    BY <1>1, GameKept DEF GameOf, Participants
  <2>2. QED
    BY <2>1 DEF BothReported
<1>2. CASE ~Created(c)
  <2>1. \A u \in User : submission'[c][u] = Nobody
    BY <1>2 DEF IInv, ChallengeInv, ChallengeOK
  <2>2. Participants(c)' # {}
    BY DEF Participants
  <2>3. QED
    BY <2>1, <2>2 DEF BothReported
<1>3. QED
  BY <1>1, <1>2

\* Three steps write a report: the first one leaves the other player without, the
\* others decide, because under the row lock the status is still "accepted".
LEMMA CommitDecides ==
    ASSUME IInv, [Next]_vars, NEW r \in Request, NEW c \in Challenge, NEW d, d = req[r].chal,
           CommitSubmission(r), pc[r] \in SubmitPC \ {"locked"},
           \/ seen[r].other = Nobody
           \/ challenge' = FlipStatus(d, "disputed")
           \/ challenge' = FlipStatus(d, "verified"),
           BothReported(c)', ~BothReported(c)
    PROVE  challenge'[c].status \in {"verified", "disputed"}
<1> DEFINE u == req[r].user
           v == OtherParticipant(d, u)
<1>1. /\ d \in Challenge /\ u \in User /\ Created(d) /\ u \in Participants(d)
      /\ seen[r].other = submission[d][v] /\ challenge[d].status = "accepted"
      /\ submission \in Submissions /\ challenge \in [Challenge -> ChallengeRow]
  BY SubmissionFacts DEF IInv, TypeOK, RequestInv, RequestOK, ReportOK
<1>2. d = c
  <2>1. d # c => submission'[c] = submission[c]
    BY <1>1 DEF CommitSubmission, Submissions
  <2>2. QED
    BY <2>1, ReportsStay
<1>3. CASE seen[r].other = Nobody
  <2>1. v \in Participants(d) /\ v # u
    <3>1. challenge[d].challenger # challenge[d].opponent
      BY <1>1 DEF IInv, ChallengeInv, ChallengeOK
    <3>2. QED
      BY <1>1, <3>1 DEF Participants, OtherParticipant
  <2>2. submission'[d][v] = Nobody
    BY <1>1, <1>3, <2>1 DEF CommitSubmission, Submissions, IInv, ChallengeInv, ChallengeOK,
                              Participants
  <2>3. Participants(d)' = Participants(d)
    BY <1>1, GameKept DEF GameOf, Participants
  <2>4. QED
    BY <1>2, <2>1, <2>2, <2>3 DEF BothReported
<1>4. CASE challenge' = FlipStatus(d, "disputed")
  BY <1>1, <1>2, <1>4 DEF FlipStatus, ChallengeRow
<1>5. CASE challenge' = FlipStatus(d, "verified")
  BY <1>1, <1>2, <1>5 DEF FlipStatus, ChallengeRow
<1>6. QED
  BY <1>3, <1>4, <1>5

\* The step that makes the reports complete is the one that decides.
LEMMA DecidingStep ==
    ASSUME IInv, [Next]_vars, NEW c \in Challenge, BothReported(c)', ~BothReported(c)
    PROVE  challenge'[c].status \in {"verified", "disputed"}
<1>1. CASE UNCHANGED submission
  BY <1>1, ReportsStay
<1>2. ASSUME NEW r \in Request, SubmitFirst(r) \/ SubmitDispute(r) \/ CommitResult(r)
      PROVE  challenge'[c].status \in {"verified", "disputed"}
  <2>1. /\ CommitSubmission(r) /\ pc[r] \in SubmitPC \ {"locked"}
        /\ \/ seen[r].other = Nobody
           \/ challenge' = FlipStatus(req[r].chal, "disputed")
           \/ challenge' = FlipStatus(req[r].chal, "verified")
    BY <1>2 DEF SubmitFirst, SubmitDispute, CommitResult, SubmitPC, PC
  <2>2. QED
    BY <2>1, CommitDecides
<1>3. ASSUME NEW r \in Request, Start(r) \/ Crash(r)
      PROVE  UNCHANGED submission
  BY <1>3 DEF Start, BeginAccept, BeginDecline, BeginCancel, BeginTransition, SubmitLock,
              Crash, Rollback, rows
<1>4. ASSUME NEW r \in Request, Step(r),
             ~(SubmitFirst(r) \/ SubmitDispute(r) \/ CommitResult(r))
      PROVE  UNCHANGED submission
  <2>1. CASE FinishAccept(r) \/ FinishDecline(r) \/ FinishCancel(r)
    BY <2>1 DEF FinishAccept, FinishDecline, FinishCancel, WriteStatus
  <2>2. CASE SubmitAgree(r)
    <3>1. challenge[req[r].chal].status = "accepted"
      BY <2>2 DEF SubmitAgree, SubmitPC, PC, IInv, RequestInv, RequestOK
    <3>2. QED
      BY <2>2, <3>1 DEF SubmitAgree, rows
  <2>3. CASE SubmitInsert(r) \/ UpdateProfiles(r) \/ ReadTitle(r)
    BY <2>3 DEF SubmitInsert, UpdateProfiles, ReadTitle, rows
  <2>4. CASE \E role \in Role : \/ LoadProfile(r, role) \/ MissProfile(r, role)
                                \/ InsertProfile(r, role) \/ InsertConflict(r, role)
    BY <2>4 DEF LoadProfile, MissProfile, InsertProfile, InsertConflict, Rollback, rows
  <2>5. CASE TitleConflict(r) \/ Deadlock(r)
    BY <2>5 DEF TitleConflict, Deadlock, Rollback, rows
  <2>6. QED
    BY <1>4, <2>1, <2>2, <2>3, <2>4, <2>5 DEF Step
<1>5. CASE Create \/ UNCHANGED vars
  BY <1>1, <1>5 DEF Create, CreateChallenge, vars, rows
<1>6. QED
  BY <1>1, <1>2, <1>3, <1>4, <1>5 DEF Next

\* Two concurrent submissions never leave a challenge with two reports and no
\* outcome, for any number of requests.
THEOREM SecondReport == Spec => SecondReportDecides
<1> DEFINE Decides ==
        \A c \in Challenge : BothReported(c)' /\ ~BothReported(c) =>
            challenge'[c].status \in {"verified", "disputed"}
<1>1. IInv /\ [Next]_vars => [Decides]_vars
  BY DecidingStep
<1>2. QED
  BY <1>1, Invariance, PTL DEF Spec, SecondReportDecides
=============================================================================
