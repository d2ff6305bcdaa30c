# Formal models of Protin

TLA+ models of Protin: its API (`src/apps/api`) and its mobile app
(`src/apps/mobile`). They are model-checked with TLC on small instances, and the
results that matter most are proved with TLAPS for every value of the constants.
Paths below are relative to the repository; `services/`, `models/`, `routers/`
mean `apps/api/app/services/` and so on, `stores/`, `hooks/`, `lib/`, `screens/`
mean `apps/mobile/src/stores/` and so on.

Contents: 1 the system; 2 inventory; 3 conventions; 4–8 the API; 9–12 the app;
13 disagreements between code and text; 14 what is proved; 15 what is only
model-checked; 16 what is not modelled; 17 what comes next; 18 running it.

## 1. The system

An Expo app talks HTTP and a WebSocket to a FastAPI service. Every request runs
in one SQLAlchemy session over PostgreSQL at the default isolation level, READ
COMMITTED, and ends in one commit. Several API processes may run, and one
`worker.py` polls the notification outbox and pushes through Expo. There is no
queue, no distributed lock and no scheduler: concurrency is the interleaving of
transactions, and what protects it is `SELECT ... FOR UPDATE` where the code asks
for it, unique constraints, and nothing else.

    likes ── mutual like ──> match ──> chat
                               └─────> booking ──┬─> honor_events, rank_events (ledgers)
                                                 └─> notification_events ──> worker ──> Expo
    challenge ── two agreeing reports ──> rank_profiles, honor_titles, honor_history
    event ── joins, attendance ──> score computed on every read
    account deletion ──> cascades through all of them

The app is single-threaded JavaScript. Its concurrency is that of awaits: an
operation gives way whenever it waits for the server, the keychain or the user,
and whatever else happens meanwhile is there when it goes on. Nothing orders two
answers, and an answer may be lost after the server has acted.

    screens ──> hooks, stores ──> lib/api (one bearer token) ──> API
                   └──> SecureStore          chat screen <── WebSocket

Three separate notions of standing exist side by side: the ledgers of bookings
(`services/rank.py`, `compute_summary`), the ladder of challenges
(`services/honor_system.py`: ratings, titles) and the score of events
(`services/rank.py`, `compute_honor_summary`).

## 2. Inventory

For each component: its state, its operations, with what it interacts, what is
hard about it, and what makes it correct.

**Challenges and the honor system** (`services/challenges.py`,
`services/honor_system.py`; section 4). State: `sports_challenges`,
`challenge_result_submissions`, `rank_profiles`, `honor_titles`,
`honor_history`. Operations: create, accept, decline, cancel, submit result; the
submission that completes an agreeing pair calls `record_match_result_for_honor`
in its own transaction. Hard: only the submission locks the challenge row; rank
profiles and titles are read without a lock and written from memory; two first
results insert the same rows. Correct when a result reaches the ladder exactly
once and only on agreement, the second report always decides, the chain of title
transfers is unbroken, counters never exceed the results behind them, and no
request waits forever.

**Bookings and their ledgers** (`services/bookings.py`, `services/rank.py`;
section 5). State: `bookings`, append-only `honor_events` and `rank_events`.
Operations: propose, confirm, decline, cancel, complete, no-show, each with its
ledger rows and notifications in one transaction. Hard: the status machine is
checked on an unlocked read. Correct when nothing is charged or earned without
the partner's consent, both ledgers balance between the two participants, and
confirmed bookings have their reminders.

**Discovery and matches** (`services/discovery.py`, `services/matches.py`;
section 6). State: `discovery_actions`, `matches`. Operations: like, save, pass,
feed, list and archive matches. Hard: the two first likes of a pair at the same
moment, the canonical pair's unique key, archived pairs, likes that wait for each
other. Correct when a match stands for two likes and two likes for a match.

**Notification outbox and worker** (`services/notifications.py`, `worker.py`,
`routers/notifications.py`; section 7). State: `push_tokens`,
`notification_events`. Operations: register and unregister a token, enqueue, and
the delivery cycle, which reads all due events, pushes one by one and commits once
at the end. Hard: crashes between push and commit, overlapping cycles (worker and
internal endpoint), rows deleted under a cycle, devices that change hands.
Correct when what is marked sent was sent, repeats happen only after a rolled-back
cycle, no event is given up early and every due event is settled in the end.

**Group events** (`services/events.py`, "battles" in the app; section 8). State:
`events`, `event_participants`. Operations: create, join, leave, cancel, complete
under the event's row lock; host mark and self-report of attendance without it.
Hard: the race for the last place, attendance against leave and close, re-joining
with an old row. Correct when capacity and status agree, a roster is final once
the event is over, and no outcome exists before the game or without the host's
word.

**Session and profile of the app** (`stores/auth.ts`, `stores/profile.ts`,
`lib/api.ts`, SecureStore, the navigator; section 9). State: the token in memory,
on requests and in the keychain, the user, the profile, the screens. Operations:
restore, login, register, Apple sign-in, logout, deletion, loading and saving the
profile. Hard: one global token under operations that finish out of order.
Correct when the user shown is the user sent, and at rest all of it is one
identity.

**Composers and court search** (`BookingComposerScreen`, `CreateBattleScreen`,
`NearbyCourtsModal`, `useNearbyVenues`, `useVenueLocation`, `lib/sessionTime.ts`,
the pickers; section 10). Hard: answers of a search that is no longer wanted,
venues of another sport, times edited in any order, double submission. Correct
when what is shown answers what is asked, and what is sent is one sound session.

**Lists, badges, forms** (the list screens with their hooks, `lib/rank.ts`, the
onboarding, Edit Profile, Report; section 11). Hard: overlapping loads, acting on
a row while it is reloaded, shared lookups that fail, forms whose steps fail half
way. Correct when a list is that of its filter, a settled row stays away, a badge
is its player's, and what looks saved is saved.

**Detail screens and chat** (`BookingDetail`, `BattleDetail`, `AttendanceCheck`,
`ChallengeDetail`, `TournamentDetail`, `PublicProfile`, `ChatScreen`,
`services/chat.py`, `routers/chat.py`; section 12). Hard: acting by a copy that is
out of date, history against broadcast, optimistic changes against reloads.
Correct when what is offered is what the server accepts, own acts are shown, and
no message is missed or shown twice.

**Safety** (`services/safety.py`): a report is an inserted row that nothing reads,
a block a row that the discovery feed reads; the app's side is in sections 11 and
12. **Accounts** (`routers/auth.py`, `services/apple_auth.py`,
`core/security.py`): the app's side is in section 9, deletion as the outbox meets
it in section 7. **Tournaments** (`services/tournaments.py`): join and leave with
the locking scheme of events, behind a feature flag; the app's side is in sections
11 and 12. **Venues and places** (`services/venues.py`, `services/places.py`):
read-only search with a cache and a cursor; the app's side is in section 10.
**Profiles, photos, media** (`routers/users.py`): upserts and files on disk; the
app's side is in section 11. **Google Calendar** (`services/google_calendar.py`):
tokens and one sync row per booking and user. **Content moderation**: a pure
filter. **Web site, scripts, infrastructure**: no state of their own.

`PROJECT.json` lists every component with its status and every hazard with its
line, and for each hazard the properties that watch it.

## 3. Conventions

*Requests.* A request of the API occupies a slot; `pc[r]` says where it stands,
`req[r]` (and `seen[r]`) what it was asked and what it has read. Row variables are
the committed state. A transaction's uncommitted writes are visible to nobody, so
they are kept implicit in `pc` and applied by the commit. Any step of another
request may come between two steps of one; a step is as large as READ COMMITTED
allows and no larger (one statement, or several that nobody can tell apart). A
request that the code refuses before it writes changes nothing and is left out.

*Locks.* `FOR UPDATE` is a variable that names its holder; an `UPDATE` of a row
another transaction has locked waits. Commit, rollback, crash and a deadlock
victim all release.

*The ORM.* SQLAlchemy autoflushes before a SELECT and writes only the columns
whose value changed since they were loaded. Both matter and both are modelled:
the first is what protects the title of a ladder, the second lets a column keep
what another transaction wrote.

*The app.* An action is everything from one await to the next, with the renders
and effects that it causes. A call to the server has three moments: it is sent
(with the token of that moment), the server acts, and the answer arrives or is
lost. What the user may do is what the screen offers: the operators named
`…Offers` translate the conditions under which the JSX renders and enables its
controls, and every user action asks one of them. A behaviour opens one screen,
except in sections 9 and 10.

*Excuses.* Some promises of the app fail in a race that the code does not guard
against. Such a property names the race by a history variable, set when the race occurs and
never read by an action: `overlapped` and `mixed` (9), `overtaken` and `crossed`
(11, lists and badges), `savedBy`, `outrun` and `unheard` (11, forms), `stale` (12,
details), `notes` (12, chat). Where it can be, it is a fact about the one answer,
sport or report in question and is gone with the next answer; it does not switch the
property off. The property then says that this race is the *only* way to break it.
Section 13 lists what a user sees in each of those races.

*Time* is what the guards look at: `soon`, `started`, `age`; in section 10 minutes
and days.

*Faults.* A definition whose comment begins with "Fault:" is a plausible mistake
in the definition that follows it. Specifications never use one; substituting it
must break the property it is listed with in `PROJECT.json`, which shows that the
property depends on that line of the code. A property that is a conjunction of
named parts has a fault for each part.

*Type invariants.* Every module with state has one. Most are part of the inductive
invariants of section 14; `FeedsTypeOK` and `DetailsTypeOK` join those of the modules
that run together and also hold in the instances of sections 11 and 12, though the
listed runs spend their time on the other properties.

*Abstract specifications* state what a component promises with no requests, locks
or transactions: `HonorLedger`, `SessionLedger`, `EventRoster`.

*Fairness* is stated for what runs on by itself: requests that have begun, the
worker's loop, answers (every call of the app is answered, refused or times out:
`lib/api.ts` has no call without an end). Users, crashes and lost connections are
never fair.

## 4. Challenges and the verified-result path

| module | role |
|---|---|
| `HonorRules` | arithmetic of `honor_system.py`: baseline profile, win, loss with its floor, and which columns an UPDATE names |
| `HonorLedger` | abstract: each player reports once, the second agreeing report applies the result and moves the title in that instant |
| `Challenges` | the requests, rows, locks; properties; the inductive invariant `IInv` |
| `ChallengesProofs` | theorems |
| `MCChallenges`, `MCFixtures` | instances |

*Code to actions.* `create_challenge` is `CreateChallenge`. `accept_challenge`,
`decline_challenge`, `cancel_challenge` are each two steps: `Begin…` (load and
check) and `Finish…` (unconditional UPDATE and commit; it waits for the row lock).
`submit_challenge_result` is `SubmitLock` (FOR UPDATE and every check made under
it), `SubmitInsert` (insert, flush, re-query), then `SubmitFirst`,
`SubmitDispute` or `SubmitAgree`. On agreement the hook continues in the same
transaction: `LoadProfile`, or `MissProfile` and `InsertProfile`, for the winner
and then the loser; `UpdateProfiles` (the autoflush that locks both rows before
the title is read); `ReadTitle`; `CommitResult`. `InsertConflict` and
`TitleConflict` are the two IntegrityErrors, `Deadlock` is Postgres breaking a
circle of waiters, `Crash` is everything else that rolls back.

*Runs.*

- **challenges_lifecycle** starts from the empty database. Can submissions that
  race corrupt the ladder (`ResultsAreAgreed`, `TitleFollowsHistory`,
  `LadderIsEarned`), does the second report always decide
  (`SecondReportDecides`), does the whole implement `HonorLedger` (`LedgerSpec`),
  and does every request end (`RequestsEnd`)? Two challenges: the first is between
  Alice and Bob, the second their return match in either order, or a match of two
  others on the same ladder, so that two challengers race for a title that nobody
  holds, a champion stands in two results, and a loser is the other result's
  winner. Four users are what two results need to inaugurate one title without
  waiting for each other (`TitleConflict`). The default rating is 15 with a loss
  of 10 and floor 0, so that the second loss meets the floor. The pairings are
  fixed by the action constraint `Drawn` in place of symmetry, which liveness
  excludes; it restricts creation alone, of which no fairness is assumed. About
  137,000 distinct states.
- **challenges_lost_update**: section 13. It starts in mid-season (`SeasonSpec`),
  a state that `Init` reaches with requests that do not overlap.

*Fairness* (`FairSpec`): strong fairness of each request's `Step(r)`. A request
that has begun keeps running, and Postgres queues the waiters of a lock and
serves them in turn, so a step that is enabled again and again is taken. `Start`,
`Create` and `Crash` are not fair: users need not act and nothing need fail.

## 5. Bookings

| module | role |
|---|---|
| `Reputation` | the policy of `rank.py`: deltas per reason, and the fold of the ledgers |
| `SessionLedger` | abstract: one outcome per booking, honor and sessions are the sum of outcomes |
| `Bookings` | requests over bookings, both ledgers and the outbox rows; properties |
| `SerialBookings` | `Bookings` restricted to transitions that do not overlap on one booking, and the refinement mapping to `SessionLedger` |
| `BookingsProofs` | `IInv`, `SerialIInv`, the sums of the ledgers, and theorems |
| `MCBookings` | instances, and the property that bookings_sessions refutes |
| `MCOutbox` | the run of either end of the outbox: requests on bookings, or delivery cycles |

*Code to actions.* `create_booking` is `BeginCreate` and `CommitCreate`;
`transition_booking` is `BeginTransition` (load and `_check_transition` against
`_TRANSITIONS`) and `CommitTransition` (status, ledger rows of
`record_booking_transition` *for the status it read*, notifications, one commit).
The UPDATE is unconditional and nothing is visible before the commit, so it is one
step. `ArchiveMatch` is the match's side, `DayBefore` the clock passing 24 hours
before the start, `Abandon` any rollback. Ledgers and outbox are counted per
booking, user and reason or type: duplicates stay visible.

*Runs.*

- **bookings_and_outbox**, the bookings' half (the other half is in section 7; a
  behaviour is of one or the other): two users, one match, one booking, two requests
  that may overlap in every way. Which promises survive every race?
  `ConsentBeforeReputation`, `LedgersBalance`, `RemindersScheduled`. One booking
  is enough: no step reads or writes two. Two requests overlap in pairs, and since
  slots are reused any number follow each other; the counters stay bounded by
  themselves, because nothing returns to "proposed", so only a confirmation
  already in flight can revive a booking.
- **matches_and_bookings**, the bookings' half: two bookings, two requests that
  overlap freely except on the same booking (`SerialNext`). `LedgerRefined`: then
  the service *does* implement `SessionLedger`, with totals as `compute_summary`
  folds them. Together with bookings_sessions this says precisely what the missing
  lock costs.
- **bookings_sessions**: section 13.

No liveness is claimed: requests do not wait for each other.

## 6. Discovery and matches

| module | role |
|---|---|
| `Matching` | `record_action` as concurrent transactions, and `archive_match`; properties |
| `BookingsProofs` | `MatchingIInv` and theorems, beside those of the bookings |
| `MCMatching` | the run of either half: taps that match a pair, or bookings of pairs that are matched |

*Code to actions.* A tap is one transaction of `record_action`: `BeginTap` (the
feed never offers oneself; the SELECT of the own row), `Flush` (the autoflush that
writes the own row, waiting for whoever has written it), `LookBack` (the SELECT of
the other account's like, among committed rows only), `LookUp` (the SELECT of the
match by canonical pair), `InsertMatch` (which waits for an uncommitted key),
`Commit`. `Collide` is an IntegrityError on either unique key, and `LoseTap` any
other rollback. A save or pass ends after its own row, and so does a like whose
reverse is missing. `Archive` is `archive_match`, whose row the look-up still
finds. `record_action` consults no block.

*Run* **matches_and_bookings**, the matching half: two accounts, one sport, two
taps at a time (a slot is used again, so any number follow each other).
`MatchesAreMutual`: a match needs both likes, and mutual likes have one unless
they raced; `TapsAreAnswered`: of two taps that found no match only one commits
its own, and an error needs another tap on the same pair; `TapsEnd`. Three taps
(6.5 million states) were explored once by hand for the safety properties. No
action reads rows of two pairs, so two accounts suffice; for every number the
theorems speak. 231,238 distinct states in both halves.

*Fairness*: strong fairness of each tap's `Serve(t)`, for the reason given in
section 4. `Archive`, `BeginTap` and `LoseTap` are not fair.

## 7. Notifications

| module | role |
|---|---|
| `Notifications` | tokens, outbox, delivery cycles of any number of workers; properties |
| `NotificationsProofs` | `IInv`, the one-worker invariant and theorems |
| `MCNotifications` | `QuietSpec` |
| `MCOutbox` | the run of one worker, beside that of the bookings |

*Code to actions.* `register_push_token`, `unregister_push_token`, `Schedule`
(with the token cached at that moment), `Delete` (account or booking deletion),
`Tick` (future, due, 48 hours late). `process_pending_notifications` is
`StartCycle` (the query), `NextEvent` (one turn of the loop: the SELECT of the
token flushes the previous decision, `CanFlush`; then `Skip` or `BeginPush`),
`Push` (Expo takes it and says so; takes it and the answer is lost; does not take
it), `Commit`. `RowIsGone` is the exception SQLAlchemy raises when the flushed row
was deleted, `Deadlock` two cycles holding rows the other needs, `Crash` the death
of the process. `pushes`, `aborted` and `crashes` are history variables; the first
is what users see and the database cannot know. Which token is "latest" follows
`created_at`, which a repeated registration does not touch, so the model keeps the
order of creation (`newer`) and not of use.

*Runs.*

- **bookings_and_outbox**, the delivery half: one event, two users, two tokens, one
  worker, at most one crash (73,422 states in both halves). `OutboxTellsTruth`, `PushesAreFew` (a user is pushed
  at most once more than cycles were rolled back, and never about a settled
  event), `FreshTokenUsed`, `EventuallySettled`. Two users and two tokens are what
  a hand-over and an out-of-date cached token need.
- **notifications_overlap**: two events, two workers and no crash, so that row
  locks, the deadlock of two cycles and conflicting outcomes occur (330,364
  states). Is every due event still settled (`EventuallySettled`)? `QuietSpec`
  lets users register devices and enqueue events before the first cycle only, and
  lets nobody delete or unregister; the races of users with a cycle are the other
  run's. `OutboxTellsTruth` is proved for any number of workers. `PushesAreFew` is
  *not* claimed: with two workers it is false, and `worker.py` says that it uses
  no locking.

*Fairness*: weak fairness of `Tick(e)` (time passes) and of `Cycle(w)` (`worker.py`
loops forever, logs exceptions and goes on; Postgres aborts one of two deadlocked
cycles). `Crash` and users are not fair; `MaxCrash` bounds crashes in the runs and
is arbitrary in the proofs. `EventuallySettled` depends on it: a worker that
crashed in every cycle would settle nothing.

## 8. Group events

| module | role |
|---|---|
| `EventRoster` | abstract: a roster with places, final once the event is over |
| `Events` | requests over events and participants, the row lock, the computed score; properties |
| `EventsProofs` | `IInv` and theorems |
| `MCEvents` | symmetry |

*Code to actions.* `create_event` is one step. `join_event`, `leave_event`,
`cancel_event`, `complete_event` are `Begin…` (FOR UPDATE, checks, count) and
`Commit…`; nobody else can change the event's roster in between, which is what
`lock` models and the fault `LockFreeAlways` removes. `host_update_attendance` and
`self_report_attendance` are `BeginMark`/`CommitMark` and
`BeginReport`/`CommitReport`, without the lock: at the commit the event may have
been closed and the participant may have left. A re-join reuses the old row with
its attendance. `HonorScore` and `GangScore` are `compute_honor_summary` on one
state.

*Run* **events_roster**: three users, one event, two requests, capacities 1 and 2,
symmetry (300,304 states). `FullTellsCapacity`; `OutcomesAreEarned` (none before
the game, no no-show without the host); `ReportAloneIsInert` (a self-report moves
no score unless the host has marked the same participant); and `RosterSpec`: the
locked routes implement `EventRoster`. Capacity 1 is the event its host fills
alone; capacity 2 with three users is the race of two for the last place. Every
action touches one event, so one is enough.

No liveness is claimed: a request waits for one lock at most, whose holder needs
nothing.

## 9. Session and profile of the app

| module | role |
|---|---|
| `MobileSession` | both stores, the bearer token of `lib/api.ts`, the keychain, the screens that start operations and the root navigator |
| `MobileSessionProofs` | `IInv`, `OInv` and theorems |
| `MCMobileSession` | the instance and its restriction `Drawn` |

*Code to actions.* An operation is a task; `authOpVersion` is `latest`, the task
whose number it is. `Restart` and the restoring segments (`initializeRead`,
`initializeAnswered`, `initializeUndone`) are `initialize`; `StartLogin`,
`StartRegister`, `OpenAppleSheet`, `CloseAppleSheet`, `StartApple` and
`PostAnswered` lead to the shared segments of `hydrateUserAfterToken` (`hydrateCurrent`,
`hydrateStale`, `MeAnswered`, `MeFailed`, `MeFailedStale`, `hydrateUndone`);
`StartLogout`, `StartDelete`, `EraseAnswered`, `logoutDone` end a session. The
profile store is `ProfileArrived`, `SportsArrived` (the two calls of its fetch),
`ProfileStored`, `SportsStored` (the upserts), sent by `SubmitStep1`,
`SubmitStep4`, `SubmitEdit` and `VisitProfile`. `keychain` is the queue of
SecureStore calls. `AnswerLost` and `RequestFailed` are what a call may come to
besides an answer. `Navigated` and `SafetyNet` are the effects of the root
navigator.

*Run* **mobile_session**: two accounts and two operations at the same time, with
an await between every two effects, and a stack of two screens besides the root
(230,298 states).
`UserIsSender`: no request is sent in another name than the one shown, however
operations overlap. `OneIdentity`: when nothing is in flight, keychain, memory,
requests and user agree, unless auth operations overlapped; and the profile is the
user's, unless a profile request crossed a change of the session. `NothingHangs`:
the spinner and the splash screen go. `Drawn` keeps the instance small: one
account has a password and a profile from the start and keeps them, the other is
opened by registration or with Apple and may be deleted; one request for the
profile is in flight at a time. Two operations are what a stale answer needs; a
third can only be stale in the same way. The theorems speak of the specification
without `Drawn`.

*Fairness*: weak fairness of `Continue(s)`: an operation that has begun goes on.
The user is not fair.

## 10. Composers and court search

| module | role |
|---|---|
| `SessionTime` | `lib/sessionTime.ts` and the arithmetic of the calendar, as operators |
| `VenuePicker` | `NearbyCourtsModal`, `useNearbyVenues`, `useVenueLocation` |
| `SessionComposer` | `BookingComposerScreen` and `CreateBattleScreen` with the picker, the calendar and the time wheels |
| `ComposerProofs` | `PickerInv`, `PlaceInv`, `PostInv`, `TimeInv`, the calendar, and theorems |
| `MCComposer` | the instance and its restriction `Focused` |

*Code to actions.* `fetchPage`, `refresh`, `loadMore`, `Refetch` (the effect on a
change of arguments), `PageArrived`, `PageFailed` and `StaleAnswer` (an answer
whose request number is no longer the newest) are the hook; `SetMode`,
`SetRadius`, `SetSearch`, `Debounced`, `PressMarker`, `TypeManual`, `Usable` the
modal; `UseVenue`, `UseManual`, `ClearVenue`, `TypeLocation`, `onSelectSport` what
the screens make of it. Times are `PickDate`, `TurnWheel`, `handlePickStartTime`,
`TurnMonth`, with the validation that the code recomputes on each. `handleSubmit`,
`SubmitAnswered` and `SubmitFailed` are the submission; `Tick` lets the clock pass
a slot that was still ahead. The server's search is abstracted to a page of venues
that answers one query: a venue carries the query it was found by.

*Run* **sessions_composer** (266,828 states): `ResultsMatchFilters` (what can be
chosen answers the arguments that the modal shows), `PlaceIsSound` (the venue
serves the sport that is sent; one place is sent), `RequestIsSound` (one session
per screen, of 30 to 240 minutes, not before its last edit), `GridIsMonth` (the
calendar against its definition), `NothingHangs` (the first page, the next page and
the submission end; a next page that a new search overtakes does not, see
**composer_load_more** in section 13, which has the same instance). Bounds: two sports, one venue
with coordinates, two radii, one text; two searches in flight, what a late answer
needs; hours 9 and 23 with minutes 0, 30 and 45, where an hour later is the next
hour, is clamped to 23:45, or is too short; dates 0 and 31 and the calendar one
month ahead; two moments, 10:00 of the first day and 11:00 of the second; one
failed submission. `Focused` leaves out products of what does not meet before the
submission: a behaviour touches the place or the times, the form is left alone
while a request is in flight, and the picker is searched by radius for a booking
and by text for a game. The theorems speak of the specification without `Focused`.

*Fairness*: weak fairness of the answers to the submission and to the searches.
That the search ends is claimed for arguments that stop changing.

## 11. Lists, badges and forms

| module | role |
|---|---|
| `Screens` | the constant that the modules of the screens share |
| `Feeds` | Discovery, Matches, Battles, Events (proposals), Challenges, Tournaments, Blocked Users, and the upcoming sessions of the profile |
| `Reputations` | `useUserHonorSummary` over the cache of `lib/rank.ts`, `useRankSummary`, `useHonorSummary`, `useHonorSystem` and the badges that show them |
| `Forms` | steps 2 to 4 of the onboarding, Edit Profile with its Select, Report |
| `FeedsProofs` | the invariants of lists, badges and forms, and theorems |
| `MCFeeds` | the run of one of the three at a time |

*Code to actions.* A list: `OpenFeed`, `Again` (retry), `Pull`, `SetChip`, `Leave`
and `Return` (focus) fetch as the screen in question does (`Loads` says which of
them clear, keep or mark the list); `FetchRead` is the server's read,
`FetchAnswered` and `FetchFailed` the end. `Settle`, `PostServed`, `PostAnswered`,
`PostFailed` are like, pass, save, confirm, decline and unblock. What the server
lists, it lists per chip (`listed`): a like, a pass or a save takes a partner off the
sport it was made for and off no other (`discovery.py:100`). A badge:
`MountCard`, `UnmountCard`, `getUserHonorSummaryCached` (cache, then the promise in
flight, then a request), `LookupAnswered`, `LookupMissing` (404), `LookupFailed`;
`OpenPreview`, `RankAnswered`, …; `OpenOwnProfile`, `OwnAnswered`, `OwnFailed`. A
form: `Submit` sends the first calls, `CallServed` is the server,
`CallAnsweredForm` sends the next one (`NextCall`: photos, then the profile, then
what is shown again; or one call per sport at once), `CallFailedForm` stops; the
rest are its fields.

*Run* **mobile_feeds** (162,633 states):

- `ListIsCurrent`: a list that stands is that of the lit chip; a card is acted on for
  the sport it was found under; what was settled for a sport does not come back under
  it. A fetch remembers whether a fetch for another chip was sent after it
  (`overtaken`) and whether the server read it before it carried out an act
  (`crossed`); only an answer that is one of these may break the property, and only
  while the list shows it.
- `ReputationIsRight`: one lookup per player and session, "New player" of nobody who
  has played, a preview's own rank, the local section whole or absent.
- `FormsAreSaved`, over failed calls, lost answers and further attempts. The photos
  the app shows are the server's, also when the call after the upload failed; not when
  the answer to the upload was lost (`unheard`). The attempt that ends the onboarding
  has saved *every* sport (`savedBy`), and each is as it was filled in then, unless a
  call of an earlier attempt was carried out after it (`outrun`). The server has one
  report, and one more for each whose answer was lost.
- `PreferencesValid`, at every moment and not only when they are sent.
- `NothingHangs`.

Bounds: two rows or players, two chips, two cards of either player, two fetches of one
list and two lookups of one player at a time, photos 2 to 4, ages 18 to 21, two
attempts. Two is what crossing needs; ages need a middle on either side of the two
handles; the second attempt is the one that finds what the first has left behind.
`Drawn` picks the first lists: they are opened on one chip and have a row there, the
second row is for the screens that answer or unblock, and in Discovery the same
partner may be listed under both sports. A chip of Battles sends two fetches, and the
model presses the next one when both have ended. A call that the app gives up before the
server has carried it out is not carried out later; one that was carried out and whose
answer is lost is the case that matters to the app.

*Fairness*: weak fairness of every fetch, call and lookup.

## 12. Detail screens and chat

| module | role |
|---|---|
| `Details` | BookingDetail, BattleDetail, AttendanceCheck, ChallengeDetail, TournamentDetail, PublicProfile against the thing on the server |
| `Chat` | ChatScreen, its socket, and the service behind it |
| `DetailsProofs` | `DetailIInv`, `ChatIInv` and theorems |
| `MCDetails` | the run of one of the two at a time |

*Code to actions.* `OpenDetail`, `Retry`, `LoadRead`, `LoadAnswered`, `LoadFailed`
are the hooks of a screen; `Press`, `CallServed`, `CallAnswered`, `CallFailed` its
buttons, each behind the busy flag that the code gives it; `OtherActs`,
`GameStarts` are everybody else and the clock. `Accepts` is the table of what the
server accepts by status and role (`services/bookings.py`, `events.py`,
`challenges.py`, `tournaments.py`), `DetailOffers` what the screen offers by its
copy. Chat: `OpenChat`, `TryAgain`, `HistoryRead`, `HistoryArrived`,
`LoadGivenUp`, `HistoryFailed`; `SocketOpened`, `SocketLost` (it is never opened
again), `Broadcast` after the commit, `FrameArrived`; `Send…`; `Decide`,
`Decision…` for the proposals on their cards, with `Refresh…`; `performBlock`.
`dedupeMessagesById` is what merges the three ways by which a message arrives.

*Run* **mobile_details** (112,994 states):

- `OfferedIsAccepted`: for an up-to-date copy, with the exceptions that `Unaware` lists.
- `ScreenTellsTruth`. When all is quiet a screen shows the thing as it is, own acts
  included. `stale` names what it shows out of date: another has changed it since the
  copy was read, the answer of an accepted act was lost, or a load failed; the next
  answer that brings it takes it out again. "Saved" and "submitted" are said only of
  what the server has accepted from this user (`got`), with no exception; a result that
  is said to be submitted is the one stored, with no exception; and a game's report is
  the one stored unless the host has marked over it, or a later report has been carried
  out whose answer was lost or is still on its way.
- `ConversationIsWhole`: when all is quiet every message is shown, and once, and the
  proposals are the server's; given a socket that was open when the history was read
  and a history that fits one page.
- `NothingHangs`.

All six screens in every role and status, one proposal; two messages and a page of
two, so that the page is full and both orders of history and broadcast occur; two
fetches of proposals at a time. `Talks` and `Plans` separate messages from proposals,
which do not touch each other's state. As in section 11, a call given up before it was
carried out is not carried out later.

*Fairness*: weak fairness of every load, call, send and decision. Neither the
socket nor the partner is fair.

## 13. Where the code and its text disagree

Three disagreements have a run that expects the violation of one property, which
states what the text says.

| run | text | what the code does |
|---|---|---|
| challenges_lost_update | `honor_system.py:248`: ratings and wins are updated "always" | two results of one player verified together write the same incremented values; one is lost |
| bookings_sessions | `rank.py:217`: one rank event per completed session, "stable invariant" | two overlapping completions both append |
| composer_load_more | `useNearbyVenues.ts:75`: `hasMore` is true "when nextCursor is non-null AND we're not currently fetching" | a new search that overtakes the load of a next page leaves `isLoadingMore` set (193): the footer of the picker spins and the rest of the results is out of reach for as long as the screen lives |

Others were met while modelling, and so were races that no text speaks of. Each is an
exception that a property names or a behaviour that the model has, and none has a run
of its own:

- *API.* `models/challenge.py:57` says that terminal statuses allow no further
  mutation; accept, decline and cancel check an unlocked read and write later, over
  whatever the status has become. `tests/test_notifications.py:377`: registering
  under user B transfers ownership; a pending event of user A falls back to the
  cached token, which is B's now. `rank.py:260`: self-reports alone never move the
  score; a self-report after the host's mark replaces the outcome and keeps the
  host's confirmation. `packages/shared-types/src/match.ts:4`: mutual likes create a
  match; two that are in flight together create none, until one is repeated.
  `models/safety.py:69`: discovery and chat are hidden for both parties of a block;
  chat never consults blocks. `services/chat.py:37` returns the *oldest* page of
  messages, so a conversation longer than a page lacks its newest ones.
- *Session.* A login that was overtaken by a logout still stores its token in
  SecureStore, so that a restart signs it in (`stores/auth.ts`). A profile that
  arrives after a logout fills the store again (`stores/profile.ts`).
- *Details.* BookingDetail offers Cancel to the recipient of a proposal
  (`TERMS_OF_SERVICE.md:37`, `BookingDetailScreen.test.tsx:222`,
  `shared-types/src/booking.ts:106`), whom `services/bookings.py:26` refuses.
  BattleDetail offers its host Leave, which `services/events.py:356` refuses. A result
  submitted on an earlier visit can be submitted again, and is refused. After a host's
  cancel or complete has succeeded, a reload that fails (`useEvents.ts:76`) leaves the
  old copy, with its buttons; so does any act whose answer was lost, and any act of
  another until the next load. "Attendance saved" names what the participant reported
  also after the host has marked over it, and after a later report whose answer was
  lost (`BattleDetailScreen.tsx:398`).
- *Chat.* `fetchError` is set at `ChatScreen.tsx:246` and never cleared; a refetch
  that was sent before a decision replaces it (216, against the comment at 280).
- *Lists and badges.* The answer of a fetch that another chip has overtaken is shown
  when it comes last (`useDiscovery.ts:58`, `useEvents.ts:28`, `useTournaments.ts:90`):
  until the next answer the lit sport shows the cards of another, and a like goes to
  the lit one. A fetch that the server read before it carried out an act brings the
  settled row back when it is answered after the act (`useDiscovery.ts:101`,
  `EventsScreen.tsx:104`). Discovery's preview keeps the badge of the previous partner
  while its own is on its way or has failed (`useRankSummary.ts:39`). `MatchesScreen.tsx:162`
  promises a refresh on focus, but its callback holds the `isLoading` of the first
  render and never fetches. `EventsScreen.tsx:56` says that a failure does not blank
  the screen; 64 and 66 empty the lists.
- *Forms.* Step 4 leaves the sports that were saved when another one failed, and a
  call of the failed attempt that is still under way may be carried out after the one
  of the next attempt and undo it (`OnboardingStep4Screen.tsx:108`). A report whose
  answer was lost is sent again as a second one. Edit Profile leaves the photos replaced
  when the call after the upload failed, and shows the old ones when the answer to the
  upload was lost, until the profile is fetched.

## 14. What is proved

Every invariant and every action property that a passing run checks, and the three
refinements, are stated by a theorem. All theorems hold for every set of users,
challenges, ladders, bookings, matches, sports, events, tokens, workers, accounts,
players, cards and slots, every number of messages and every date. The assumptions
are those the modules name:

- NULL or None is no identity and no record (`NobodyAssumption`,
  `NothingAssumption`, `NoneAssumption`, `PlayerAssumption`, `NoFeedAssumption`,
  `NoFormAssumption`, `NoDetailAssumption`, `NoChatAssumption`,
  `NoProposalAssumption`): TypeScript and SQL keep them apart by their types, and
  TLA+, which has none, has to be told;
- `EconomyAssumption` (a win adds, a loss does not, nobody starts below the floor);
- `PartiesAssumption` (a match has two users);
- `UserAssumption` and `BookingAssumption` (finitely many accounts, needed for
  counting them, and finitely many bookings, needed for summing over them);
- `CapacityAssumption` (1 to 200, the CHECK constraint and the schema);
- for the forms and composers the order of their limits (`LimitAssumption`,
  `PickerAssumption`, `ComposerAssumption`), and that the bounds are numbers.

Each component has an inductive invariant: initial states satisfy it, one lemma
per action shows that the action keeps it, and the properties follow. What it adds
to the properties is what each request or operation may rely on between its steps.

- **ChallengesProofs.** `TypeCorrectness`, `ResultsAgreed`, `TitleConsistency`,
  `LedgerRefinement`, `LadderEarned`, `SecondReport`. The properties say nothing of
  requests in flight, so they are not inductive. `IInv` adds: a submission past its
  lock holds the challenge row, whose status is still accepted and whose reporter
  has still not reported (`RequestOK`); the other report it has read is still the
  committed one (`ReportOK`); and at the commit the title it has read still decides,
  because both players' profile rows are locked and whoever moves a title locks the
  row of the player who loses it (`TitleOK`). The last is the argument that the
  autoflush before the title's SELECT is load-bearing. The refinement maps every
  step but the commits and creation to a stutter. `LadderEarned` needs `LadderInv`:
  what a transaction has *loaded* of a profile was earned by results that stay,
  since results are only added, so that an overwritten counter can only be too low.
- **BookingsProofs.** `TypeCorrectness`, `Consent`, `LedgersBalanced`,
  `Reminders`. `RequestOK` keeps the part of a stale read that cannot become
  false: the request's user takes part; only the partner confirms; what was read
  as confirmed had been confirmed, and the proposer was told. `LedgerImplemented`
  is the refinement of `SessionLedger` when transitions of one booking do not
  overlap. Its invariant (`SerialIInv`) adds that a transition in flight still sees
  the status it has read. The totals are folds over sets (`SumFunction`): the fold
  of a finite function is proved to exist, to be an integer, and to move by exactly
  what one argument moves (`FoldExists`, `SumType`, `SumMoves`), so that one row
  more in a ledger is its delta more in `compute_summary`. The run
  bookings_sessions shows that the restriction cannot be dropped.
- **BookingsProofs, matches.** `MatchingTypes`, `Mutuality`, `TapsAnswered`. `TapOK` says
  what a tap has written and read; `PairOK`, of every two taps on one
  pair, that they know of each other, that opposite likes count as raced, and that
  at most one has made the match. A like can be taken back after it was found, so
  what remains of the reading is that it was once committed (`liked`).
- **NotificationsProofs.** `TypeCorrectness`, `OutboxHonest` for any number of
  workers and crashes: a decision held in a session is true of the world before
  it is committed (`SessionOK`). `OneWorker`, for a single worker: `PushesAreFew`,
  from an account of each event's pushes (settled, awaited, or rolled back).
  `TokensAreFresh`: creation is a strict order, total on the tokens of a user
  (`TokensInv`), so that a newest one exists and the CHOOSE of
  `_get_latest_push_token` finds it.
- **EventsProofs.** `TypeCorrectness`, `Capacities`, `Outcomes`,
  `ReportsAreInert`, `RosterRefinement`. `RequestOK` says that what a locking
  request has read holds until its commit, and that an attendance write only knows
  that the event exists and has begun: enough for `Outcomes`, and all there is.
- **MobileSessionProofs.** `TypeCorrectness`, `SenderIsUser`, `IdentityIsOne`. While
  the app starts nobody is signed in and nothing else runs (`Starting`); and the
  newest operation asks `/auth/me` with the very token that is set, if one is
  (`MeCurrent`), so that the user it sets is the sender. `OInv` follows memory,
  keychain, user and profile through every await for as long as the history
  variables `overlapped` and `mixed` are down: it says at each moment which of them
  the operation in flight has changed already, and is what shows that those two
  races are the only ones.
- **ComposerProofs.** `ResultsCurrent`, `PlacesSound`, `RequestsSound`,
  `CalendarIsMonth`. `PickerInv`: only the answer to the newest request is ever
  shown, and it carries the arguments that the hook has now. `TimeInv`: `checked` is
  the validation of the draft as of its last edit. The calendar is proved from its
  arithmetic: months have 28 to 31 days and follow each other without a gap
  (`MonthLength`, `MonthsFollow`), every date is in exactly one (`MonthIs`,
  `MonthExists`), and the grid of `buildMonthGrid` is that one (`GridHolds`).
- **FeedsProofs.** `FeedTypes`, `ListsAreCurrent`, `ReputationTypes`,
  `ReputationsRight`, `FormTypes`, `PreferencesSound`, `FormsSave`. Lists
  (`FeedIInv`): a fetch in flight that has not been overtaken is for the lit chip
  (`OneChip`); what the server has read for one that has not crossed an act has none
  of the settled rows (`Uncrossed`), since the server has stopped listing them
  (`Unlisted`). Badges (`BadgeIInv`): a card that shows nothing, neither waits nor has
  failed, is of a player without a summary; unless previews crossed, the one fetch in
  flight is the partner's. Forms: the preferences hold at every moment (`FormIInv`). For
  the rest `SavedInv` follows the calls of *all* attempts: an attempt that is waited for
  has each selected sport saved by it or in a call of its own that says what was filled
  in, and no later save but an `outrun` one (`SportInv`); an upload is alone, and what it
  stored is shown, on its way or unheard (`UploadInv`); and the server's reports are the
  unheard ones and at most one more (`ReportInv`, counted with the library's theorems on
  finite sets).
- **DetailsProofs.** `OffersAccepted` and `TruthShown`, for all six screens at once:
  what the server makes of a thing has the act in it (`AllLeave`), each flag belongs
  to the calls of its own button (`FlagsOK`), and every copy is up to date, named by
  `stale`, or about to be replaced by a load or an answer that is up to date unless
  another has acted since (`CopyInv`, `ReadInv`). What is said has been accepted, and is
  stored but for the cases of the statement (`SaidInv`).
  `ConversationWhole`, for the chat: `dedupeMessagesById` is proved for every list
  (it keeps the set of messages and leaves none twice); a message that is not shown
  is in the socket, about to be broadcast, or in the history that was read
  (`HeldInv`); and the cards are those of the server or an answer is on its way
  that makes them so (`CardInv`).

Attempts that failed have changed the models where they were at fault: two arms of a
CASE in `Details` overlapped, which TLC settles by order and logic does not;
`dedupeMessagesById` was a RECURSIVE operator and is a recursive function now;
`GridIsMonth` compared the grid with a filtered sequence and says now what the
filter was for; and the assumptions on None above were implicit in the model values
of the runs.

## 15. What is only model-checked

Liveness under fairness is beyond the prover: `RequestsEnd`, `EventuallySettled`,
`TapsEnd` and every `NothingHangs`, so that those hold on the instances above and
for no others. The library's induction theorems take a predicate as a parameter,
which the provers cannot instantiate; where the proofs need induction they argue
from the least counterexample (`Least`, `UpTo`, from the library's `WFMin`), and
prove directly that each recursive function they use exists. That repeats a few
lemmas from module to module. The violations of section 13 are counterexamples and
need no proof.

## 16. What is not modelled, and why

Reads of the API that change nothing (lists, leaderboards, summaries other than the
fold and the score); authorization failures and validation errors before a write;
wording, formatting and time zones; rate limiting; Redis, which holds nothing the
models would tell apart. `compute_honor_summary` reads one state here and six times
in the code (`rank.py:365`). Reports against a user lower the event score only when
"actioned", which nothing in the repository sets.

Of accounts: password hashing, the format of tokens, the cascades inside Postgres
and the race of two first sign-ins by e-mail. Of tournaments: the API's side, which
is the locking scheme of `Events` without a host, attendance or closing, and the
probe by which `useTournaments` learns that the feature is off. Of venues: the
catalog, its cache, and the cut of a page (`venues.py:321`). Of profiles: files on
the server's disk (`routers/users.py:166` removes old ones before the commit). Of
the calendar: all of it, since what Google does with repeated writes is not in the
repository. Of the app: layout, styles, animation, the system's back gesture on
forms, the permission flow of notifications, the calendar settings, deep links, and
`RankSummaryCard`, which no screen uses. The web site is a static page. Three
hazards that `PROJECT.json` lists have no property, with the reason in their note.

## 17. What comes next

1. An abstract specification of the outbox (scheduled, delivered at least once,
   settled once) and of a match (two likes), each with its refinement proved.
2. The converse of `LadderEarned`: with results that do not overlap a profile counts
   every one of them, the fragment of challenges_lost_update that holds.
3. `delete_me` statement by statement against the roster and the bookings.
4. The reads of `compute_honor_summary` one by one over `Events`.
5. `Tournaments` as a second implementation of a roster without a host.
6. Server files and calendar rows: a database and an outside world that cannot be
   rolled back.

## 18. Running it

    tlc -config ChallengesLifecycle.cfg MCFixtures
    tlc -config BookingsAndOutbox.cfg MCOutbox
    tlc -config MatchesAndBookings.cfg MCMatching
    tlc -config NotificationsOverlap.cfg MCNotifications
    tlc -config EventsRoster.cfg MCEvents
    tlc -config MobileSession.cfg MCMobileSession
    tlc -config SessionsComposer.cfg MCComposer
    tlc -config MobileFeeds.cfg MCFeeds
    tlc -config MobileDetails.cfg MCDetails
    tlapm ChallengesProofs.tla        # and the other *Proofs modules

`ChallengesLostUpdate.cfg` (with `MCChallenges`), `BookingsSessions.cfg` (with
`MCBookings`) and `ComposerLoadMore.cfg` (with `MCComposer`) end in the counterexamples
of section 13. Deadlock is not an error in
any of them (`CHECK_DEADLOCK FALSE`): when all identities are used up and users do
nothing more, the system is at rest.
