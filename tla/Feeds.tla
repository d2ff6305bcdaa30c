--------------------------------- MODULE Feeds -------------------------------
(***************************************************************************)
(* The screens that show a list from the server: Discovery, Matches,       *)
(* Battles, Events (the proposals of sessions), Challenges, Tournaments,   *)
(* Blocked Users, and the upcoming sessions of the profile, with the hooks *)
(* that fetch for them.  A behaviour opens one of them.                    *)
(*                                                                         *)
(* A fetch is sent, the server reads what it has, and the answer arrives   *)
(* or the fetch fails; nothing keeps the order of two fetches.  On three   *)
(* of the screens a row is settled: a partner is liked, passed or saved, a *)
(* proposal is confirmed or declined, a user is unblocked, and the server  *)
(* lists the row no more.                                                  *)
(***************************************************************************)
EXTENDS Naturals, Screens

CONSTANTS
    Row,       \* what the lists have
    Chip,      \* the sports of Discovery, the filters of Battles, the tabs of Tournaments
    Feed,      \* the screens that may be opened
    MaxFetches \* bound on the fetches in flight at the same time

AllFeeds ==
    {"Discovery", "Matches", "Battles", "Events", "Challenges", "Tournaments", "Blocked",
     "Upcoming"}

ASSUME FeedAssumption == Feed \subseteq AllFeeds /\ None \notin Row
ASSUME FetchAssumption == MaxFetches \in Nat \ {0, 1}

VARIABLES
    screen,
    focused,     \* no other screen lies on it
    chip,
    list,        \* the items with isLoading, isRefreshing, error and available
    acting,      \* actingOn, actingId or unblockingId
    fetches,     \* the fetches in flight
    post,        \* the request in flight that settles a row
    listed,      \* server: the rows it lists for each chip
    settled,     \* history variable: the rows whose request was answered, and for what
    overtaken,   \* history variable: the list is an answer that was overtaken
    crossed      \* history variable: the list is an answer that crossed an act

feedVars == <<screen, focused, chip, list, acting, fetches, post, listed, settled, overtaken,
              crossed>>

FetchSlot == 1 .. MaxFetches
\* A row knows the chip it was fetched for.
FeedItem == [row : Row, for : Chip]
FeedState == [items : SUBSET FeedItem, isLoading : BOOLEAN, isRefreshing : BOOLEAN,
         error : BOOLEAN, available : BOOLEAN]
\* why: a load of the screen, a pull, or the load after a row was settled.
\* cancelled: the screen has lost the focus since (Events).  Two more fields are
\* history.  overtaken: a fetch for another chip was sent since.  crossed: a row was
\* settled after the server had read the rows.
Fetch == [why : {"load", "pull", "after"}, chip : Chip, cancelled : BOOLEAN,
          read : BOOLEAN, rows : SUBSET Row, overtaken : BOOLEAN, crossed : BOOLEAN]
SettlePost == [row : Row, sport : Chip, done : BOOLEAN]

\* None is none of the values that it stands beside.
ASSUME NoFeedAssumption == None \notin AllFeeds \cup Chip \cup Fetch \cup SettlePost

EmptyList == [items |-> {}, isLoading |-> FALSE, isRefreshing |-> FALSE,
              error |-> FALSE, available |-> TRUE]

Rows(items) == {i.row : i \in items}
InFlight == {s \in FetchSlot : fetches[s] # None}

-----------------------------------------------------------------------------
(* What the screens offer: chips, rows that open and that are settled, the *)
(* pull to refresh, and a button that fetches again.                       *)

RowsOffer(controls) == IF list.items = {} THEN {} ELSE controls

\* The rows and cards, each named for its component.
PartnerCardOffers == {"settle", "preview", "open"}
MatchCardOffers == {"open"}
BattleCardOffers == {"open"}
ChallengeCardOffers == {"open"}
TournamentCardOffers == {"open"}
UpcomingRowOffers == {"open"}
UpcomingSessionRowOffers == {"open"}
GuideOffers == {"open"}
BlockRowOffers == {"settle"}
ChipRowOffers == {"chip"}

\* DiscoveryScreen: "Refresh" on an empty list does what "Try again" does.
DiscoveryOffers ==
    ChipRowOffers \cup
    CASE list.isLoading -> {}
      [] ~list.isLoading /\ (list.error \/ list.items = {}) -> {"again"}
      [] OTHER -> PartnerCardOffers

\* MatchesScreen.
MatchesOffers ==
    CASE list.isLoading -> {}
      [] ~list.isLoading /\ list.error -> {"again"}
      [] OTHER -> RowsOffer(MatchCardOffers \cup {"pull"})

\* BattlesScreen: the list stays while it is loaded again, and an error shows in
\* an empty list only.
BattlesOffers ==
    ChipRowOffers \cup BattleCardOffers \cup
    CASE list.items = {} /\ list.isLoading -> {}
      [] list.items = {} /\ ~list.isLoading /\ list.error -> {"pull", "again"}
      [] OTHER -> {"pull"}

\* EventsScreen: a failure looks like an empty list.
EventsOffers ==
    IF list.isLoading THEN {} ELSE UpcomingRowOffers \cup {"pull"} \cup RowsOffer({"settle"})

\* ChallengeListScreen.
ChallengesOffers ==
    CASE list.items = {} /\ list.isLoading /\ ~list.error -> {}
      [] list.items = {} /\ list.error -> {"again"}
      [] OTHER -> {"pull"} \cup RowsOffer(ChallengeCardOffers)

\* TournamentsScreen.
TournamentsOffers ==
    ChipRowOffers \cup
    CASE list.isLoading -> {}
      [] ~list.isLoading /\ list.error -> {"again"}
      [] OTHER -> RowsOffer(TournamentCardOffers)

\* BlockedUsersScreen.
BlockedOffers ==
    CASE list.isLoading -> {}
      [] ~list.isLoading /\ list.error -> {"again"}
      [] OTHER -> RowsOffer(BlockRowOffers)

\* ProfileScreen: the sessions, and the guides; nothing is said of a failure.
UpcomingOffers == RowsOffer(UpcomingSessionRowOffers) \cup GuideOffers

FeedOffers ==
    CASE screen = "Discovery" -> DiscoveryOffers
      [] screen = "Matches" -> MatchesOffers
      [] screen = "Battles" -> BattlesOffers
      [] screen = "Events" -> EventsOffers
      [] screen = "Challenges" -> ChallengesOffers
      [] screen = "Tournaments" -> TournamentsOffers
      [] screen = "Blocked" -> BlockedOffers
      [] screen = "Upcoming" -> UpcomingOffers
      [] OTHER -> {}

Offered(control) == focused /\ control \in FeedOffers

-----------------------------------------------------------------------------
(* Fetching.                                                               *)

\* A pull of Matches and Events leaves isLoading alone, one of Battles and
\* Challenges does not: it calls the refresh of the hook.  The profile has no flag.
Loads(why) ==
    /\ screen' # "Upcoming"
    /\ why = "load" \/ (why = "pull" /\ screen' \in {"Battles", "Challenges"})

Begun(l, why) ==
    [l EXCEPT !.isLoading = @ \/ Loads(why), !.isRefreshing = @ \/ why = "pull",
              !.error = @ /\ why = "after"]

\* A fetch takes the first free slot; it is for the chip of this render.
NewFetch(why) == [why |-> why, chip |-> chip', cancelled |-> FALSE, read |-> FALSE,
                  rows |-> {}, overtaken |-> FALSE, crossed |-> FALSE]
Overtaken(f) == IF f # None /\ f.chip # chip' THEN [f EXCEPT !.overtaken = TRUE] ELSE f
Sent(all, why) ==
    LET s == CHOOSE q \in FetchSlot : all[q] = None /\ \A p \in 1 .. q - 1 : all[p] # None
    IN [q \in FetchSlot |-> IF q = s THEN NewFetch(why) ELSE Overtaken(all[q])]

\* What the list is an answer to stays as it is.
Kept == UNCHANGED <<overtaken, crossed>>

Fetched(why) ==
    /\ \E s \in FetchSlot : fetches[s] = None
    /\ fetches' = Sent(fetches, why)
    /\ list' = Begun(list, why)

\* The screen is mounted, with the chip of its default.  Battles and the profile
\* load twice, when they are mounted and for the focus.
OpenFeed(feed) ==
    /\ screen = None
    /\ screen' = feed
    /\ focused' = TRUE
    /\ chip' \in Chip
    /\ listed' \in [Chip -> SUBSET Row]
    /\ fetches' = IF feed \in {"Battles", "Upcoming"} THEN Sent(Sent(fetches, "load"), "load")
                  ELSE Sent(fetches, "load")
    /\ list' = Begun(list, "load")
    /\ UNCHANGED <<acting, post, settled>>
    /\ Kept

\* The server reads what it has now.
FetchRead(s) ==
    /\ fetches[s] # None /\ ~fetches[s].read
    /\ fetches' = [fetches EXCEPT ![s].read = TRUE, ![s].rows = listed[fetches[s].chip]]
    /\ UNCHANGED <<screen, focused, chip, list, acting, post, listed, settled>>
    /\ Kept

\* What a fetch does when it is over, however it ended.
Finished(l, f) ==
    [l EXCEPT !.isLoading = @ /\ (~Loads(f.why) \/ f.cancelled),
              !.isRefreshing = @ /\ f.why # "pull"]

Over(s) ==
    /\ fetches' = [fetches EXCEPT ![s] = None]
    /\ acting' = IF fetches[s].why = "after" THEN None ELSE acting
    /\ UNCHANGED <<screen, focused, chip, post, listed, settled>>

FetchAnswered(s) ==
    LET f == fetches[s]
    IN /\ f # None /\ f.read
       /\ UNCHANGED screen
       /\ list' = [Finished(list, f) EXCEPT
                      !.items = {[row |-> r, for |-> f.chip] : r \in f.rows},
                      !.available = TRUE]
       /\ overtaken' = f.overtaken /\ crossed' = f.crossed
       /\ Over(s)

\* The screens that say nothing of a failure.
Silent == {"Events", "Upcoming"}

\* Fault: a load that fails leaves its spinner.
FetchFailedSpinning(s) ==
    /\ fetches[s] # None
    /\ UNCHANGED screen
    /\ list' = [list EXCEPT !.error = screen \notin Silent,
                            !.items = IF screen \in Silent \cup {"Challenges"} THEN {} ELSE @]
    /\ Kept
    /\ Over(s)

\* The error is shown, or the items are lost; by Challenges both.
FetchFailed(s) ==
    /\ fetches[s] # None
    /\ UNCHANGED screen
    /\ list' = [Finished(list, fetches[s]) EXCEPT
                   !.error = screen \notin Silent,
                   !.items = IF screen \in Silent \cup {"Challenges"} THEN {} ELSE @]
    /\ Kept
    /\ Over(s)

\* useTournaments: a 404 says that the feature is off.
TournamentsOff(s) ==
    /\ screen = "Tournaments" /\ fetches[s] # None
    /\ UNCHANGED screen
    /\ list' = [Finished(list, fetches[s]) EXCEPT !.items = {}, !.available = FALSE]
    /\ Kept
    /\ Over(s)

FetchEnds(s) ==
    FetchRead(s) \/ FetchAnswered(s) \/ FetchFailed(s) \/ TournamentsOff(s)

-----------------------------------------------------------------------------
(* The user.                                                               *)

Again ==
    /\ Offered("again")
    /\ UNCHANGED <<screen, focused, chip, acting, post, listed, settled>>
    /\ Fetched("load")
    /\ Kept

\* handleRefresh and onRefresh.
Pull ==
    /\ Offered("pull")
    /\ UNCHANGED <<screen, focused, chip, acting, post, listed, settled>>
    /\ Fetched("pull")
    /\ Kept

\* Fault: the list is not fetched again.
SetChipOnly(c) ==
    /\ Offered("chip") /\ c # chip
    /\ chip' = c
    /\ UNCHANGED <<screen, focused, acting, post, listed, settled, list, fetches>>
    /\ Kept

\* setSport, setTab and the filters: the hook's effect fetches.  The filters of
\* Battles also change the callback of its focus effect, which fetches too.
SetChip(c) ==
    /\ Offered("chip") /\ c # chip
    /\ chip' = c
    /\ UNCHANGED <<screen, focused, acting, post, listed, settled>>
    /\ IF screen = "Battles"
       THEN /\ InFlight = {}
            /\ fetches' = Sent(Sent(fetches, "load"), "load")
            /\ list' = Begun(list, "load")
       ELSE Fetched("load")
    /\ Kept

\* Another screen is opened on this one.
Leave ==
    /\ Offered("open")
    /\ focused' = FALSE
    /\ fetches' = [s \in FetchSlot |-> IF s \in InFlight /\ screen = "Events"
                                  THEN [fetches[s] EXCEPT !.cancelled = TRUE]
                                  ELSE fetches[s]]
    /\ UNCHANGED <<screen, chip, list, acting, post, listed, settled>>
    /\ Kept

\* It is closed again.  Battles, Events and the profile load once more; the focus effect of
\* Matches keeps the isLoading of the first render, which is TRUE.
Return ==
    /\ screen # None /\ ~focused
    /\ focused' = TRUE
    /\ UNCHANGED <<screen, chip, acting, post, listed, settled>>
    /\ IF screen \in {"Battles", "Events", "Upcoming"} THEN Fetched("load")
       ELSE UNCHANGED <<list, fetches>>
    /\ Kept

\* Fault: the row is remembered whole, and not by its id.
SettleWhole(item) ==
    /\ Offered("settle") /\ item \in list.items
    /\ acting = None
    /\ acting' = item
    /\ post' = [row |-> item.row, sport |-> chip, done |-> FALSE]
    /\ UNCHANGED <<screen, focused, chip, list, fetches, listed, settled>>
    /\ Kept

\* handleAction and performUnblock.  An action of Discovery is for the sport that
\* is chosen now.
Settle(item) ==
    /\ Offered("settle") /\ item \in list.items
    /\ acting = None
    /\ acting' = item.row
    /\ post' = [row |-> item.row, sport |-> chip, done |-> FALSE]
    /\ UNCHANGED <<screen, focused, chip, list, fetches, listed, settled>>
    /\ Kept

\* A like, a pass or a save counts for its sport only; on the other screens the
\* chip does not change.
PostServed ==
    /\ post # None /\ ~post.done
    /\ post' = [post EXCEPT !.done = TRUE]
    /\ listed' = [listed EXCEPT ![post.sport] = @ \ {post.row}]
    /\ fetches' = [s \in FetchSlot |-> IF s \in InFlight /\ fetches[s].read
                                       THEN [fetches[s] EXCEPT !.crossed = TRUE]
                                       ELSE fetches[s]]
    /\ UNCHANGED <<screen, focused, chip, list, acting, settled>>
    /\ Kept

\* Fault: the row stays.
PostAnsweredKept ==
    /\ post # None /\ post.done
    /\ post' = None
    /\ settled' = settled \cup {[row |-> post.row, for |-> post.sport]}
    /\ UNCHANGED <<screen, focused, chip, listed, fetches, list>>
    /\ acting' = None
    /\ Kept

\* Discovery and Blocked drop the row, Events loads both lists again and keeps
\* its buttons off meanwhile.
PostAnswered ==
    /\ post # None /\ post.done
    /\ post' = None
    /\ settled' = settled \cup {[row |-> post.row, for |-> post.sport]}
    /\ UNCHANGED <<screen, focused, chip, listed>>
    /\ IF screen = "Events" THEN Fetched("after") /\ UNCHANGED acting
       ELSE /\ acting' = None
            /\ list' = [list EXCEPT !.items = {i \in @ : i.row # post.row}]
            /\ UNCHANGED fetches
    /\ Kept

\* The request is refused, or its answer is lost; the row can be tried again.
PostFailed ==
    /\ post # None
    /\ post' = None
    /\ acting' = None
    /\ UNCHANGED <<screen, focused, chip, list, fetches, listed, settled>>
    /\ Kept

PostEnds == PostServed \/ PostAnswered \/ PostFailed

-----------------------------------------------------------------------------
FeedInit ==
    /\ screen = None /\ focused = FALSE
    /\ chip = None
    /\ list = EmptyList
    /\ acting = None
    /\ fetches = [s \in FetchSlot |-> None]
    /\ post = None
    /\ listed = [c \in Chip |-> {}]
    /\ settled = {} /\ overtaken = FALSE /\ crossed = FALSE

FeedNext ==
    \/ \E feed \in Feed : OpenFeed(feed)
    \/ \E s \in FetchSlot : FetchEnds(s)
    \/ PostEnds
    \/ Again \/ Pull \/ Leave \/ Return
    \/ \E c \in Chip : SetChip(c)
    \/ \E item \in list.items : Settle(item)

FeedSpec == FeedInit /\ [][FeedNext]_feedVars

\* Every request is answered, refused or given up after its timeout.
FeedFairness ==
    /\ \A s \in FetchSlot : WF_feedVars(FetchEnds(s))
    /\ WF_feedVars(PostEnds)
FairFeedSpec == FeedSpec /\ FeedFairness

-----------------------------------------------------------------------------
(* Properties.                                                             *)

\* Every variable has its type.
FeedTypeOK ==
    /\ screen \in Feed \cup {None}
    /\ focused \in BOOLEAN
    /\ chip \in Chip \cup {None}
    /\ list \in FeedState
    /\ acting \in Row \cup {None}
    /\ fetches \in [FetchSlot -> Fetch \cup {None}]
    /\ post \in SettlePost \cup {None}
    /\ listed \in [Chip -> SUBSET Row] /\ settled \in SUBSET FeedItem
    /\ overtaken \in BOOLEAN /\ crossed \in BOOLEAN

\* When nothing is being fetched and nothing has failed, the list is that of the
\* chip that is lit, however often it was changed and in whatever order the fetches
\* ended.  The exception is an answer that arrived although a fetch for another chip
\* had been sent after it; the next answer repairs it.
ListMatchesChip ==
    InFlight = {} /\ ~list.error /\ ~overtaken => \A i \in list.items : i.for = chip

\* Likes are per sport: a card of Discovery that can be acted on, for the sport that
\* is lit, was found under that sport, with the same exception.
CardIsForItsSport ==
    screen = "Discovery" /\ "settle" \in FeedOffers /\ ~overtaken =>
        \A i \in list.items : i.for = chip

\* A row that has been settled does not come back under the sport it was settled
\* for, so nobody is liked, answered or unblocked twice: no answer of the server
\* brings it, but one that the server had read before it carried the act out.
SettledIsGone ==
    ~crossed /\ acting = None => settled \cap list.items = {}

\* What is listed, and what is done to it, belongs to the chip that is lit, and what
\* has been done is not offered again.
ListIsCurrent ==
    /\ ListMatchesChip
    /\ CardIsForItsSport
    /\ SettledIsGone

\* Every spinner on the screen that is looked at goes away: that of the list,
\* that of a pull, and that of a row.
SpinnersStop ==
    /\ (list.isLoading /\ focused) ~> (~list.isLoading \/ ~focused)
    /\ list.isRefreshing ~> ~list.isRefreshing
    /\ (acting # None) ~> (acting = None)
=============================================================================
