------------------------------ MODULE Reputations ----------------------------
(***************************************************************************)
(* How the app shows what players have earned: the Honor badges on the     *)
(* cards of lists (useUserHonorSummary over the session cache of           *)
(* lib/rank.ts), the rank badge of Discovery's preview (useRankSummary),   *)
(* and the player's own cards on the profile (useHonorSummary,             *)
(* useHonorSystem).                                                        *)
(*                                                                         *)
(* A summary is represented by the player it is of.                        *)
(***************************************************************************)
EXTENDS Naturals, FiniteSets, Screens

CONSTANTS
    Player,    \* the players on the cards
    Card,      \* the places where a list has a card
    MaxLookups \* bound on the lookups of one player, and on the previews' fetches

\* A player is none of the other things a badge can say.
ASSUME PlayerAssumption == Player \cap {None, "nothing", "Honor", "New player"} = {}
ASSUME NoneAssumption == None \notin {"cards", "previews", "profile"}
ASSUME LookupAssumption == MaxLookups \in Nat \ {0}

VARIABLES
    shown,       \* what has been opened: cards in a list, previews, or the profile
    scored,      \* server: the players that have a summary
    cards,       \* the mounted cards, with the state of their hook
    summaryCache,\* _summaryCache: the players whose summary it has
    inflight,    \* the requests of _inflight, as the number of each player
    sentFor,     \* history variable: the lookups of each player
    failedFor,   \* history variable: those that failed
    preview,     \* previewPartner, and the hook behind its badge
    own          \* the hooks of the profile

reputationVars ==
    <<shown, scored, cards, summaryCache, inflight, sentFor, failedFor, preview, own>>

Maybe(S) == S \cup {None}
HonorHook == [player : Player, summary : Maybe(Player), isLoading : BOOLEAN, error : BOOLEAN]

\* The preview: its partner, the summary, and the players of the fetches in flight.
RankHook == [partner : Maybe(Player), summary : Maybe(Player), error : BOOLEAN,
             fetches : SUBSET Player, crossed : BOOLEAN]
NoPreview == [partner |-> None, summary |-> None, error |-> FALSE, fetches |-> {},
              crossed |-> FALSE]

\* useHonorSummary has one part, useHonorSystem three that it waits for together.
LocalPart == {"rank", "champion", "titles"}
Part == LocalPart \cup {"honor"}

\* exists: what the server has of the player; got: what has been answered; set:
\* what the hook has handed to the screen.
OwnHooks == [exists : SUBSET Part, waiting : SUBSET Part, got : SUBSET Part,
             set : SUBSET Part, errors : SUBSET {"honor", "local"}]
NothingOwn == [exists |-> {}, waiting |-> {}, got |-> {}, set |-> {}, errors |-> {}]

Mounted == {c \in Card : cards[c] # None}

-----------------------------------------------------------------------------
(* What the badges and cards say.                                          *)

\* HonorBadge on a BattleCard, a PartnerCardView, a BattleDetail or a profile.
HonorBadgeSays(hook) ==
    CASE hook.error -> "nothing"
      [] ~hook.error /\ hook.isLoading /\ hook.summary = None -> "Honor"
      [] ~hook.error /\ ~hook.isLoading /\ hook.summary = None -> "New player"
      [] OTHER -> hook.summary

\* RankBadge in the PartnerPreviewModal.
RankBadgeSays == IF preview.partner = None THEN None ELSE preview.summary

\* PartnerPreviewModal: photos, name, badges and text, and a button that closes it.
PreviewOffers == IF preview.partner = None THEN {} ELSE {"close"}

\* HonorCard and LocalRankSection of ProfileScreen.
HonorCardSays ==
    CASE "honor" \in own.waiting /\ "honor" \notin own.set -> "loading"
      [] "honor" \in own.errors -> "error"
      [] "honor" \in own.set -> "summary"
      [] OTHER -> "empty"

LocalRankSays ==
    CASE LocalPart \cap own.waiting # {} /\ "rank" \notin own.set
             /\ "local" \notin own.errors -> {"loading"}
      [] "local" \in own.errors -> {"error"}
      [] OTHER -> own.set \cap LocalPart

-----------------------------------------------------------------------------
(* The cache, and the cards that use it.                                   *)

\* Fault: callers at the same time do not share a request.
LookupUnshared(u) ==
    IF u \in summaryCache THEN UNCHANGED <<inflight, sentFor>>
    ELSE /\ inflight' = [inflight EXCEPT ![u] = @ + 1]
         /\ sentFor' = [sentFor EXCEPT ![u] = @ + 1]

\* getUserHonorSummaryCached: a cached summary, the request in flight, or a new one.
getUserHonorSummaryCached(u) ==
    IF u \in summaryCache \/ inflight[u] > 0 THEN UNCHANGED <<inflight, sentFor>>
    ELSE /\ inflight' = [inflight EXCEPT ![u] = @ + 1]
         /\ sentFor' = [sentFor EXCEPT ![u] = @ + 1]

\* A card is mounted for a player.
MountCard(c, u) ==
    /\ shown = "cards" /\ cards[c] = None /\ sentFor[u] < MaxLookups
    /\ cards' = [cards EXCEPT ![c] =
                    [player |-> u, error |-> FALSE, isLoading |-> u \notin summaryCache,
                     summary |-> IF u \in summaryCache THEN u ELSE None]]
    /\ getUserHonorSummaryCached(u)
    /\ UNCHANGED <<shown, scored, summaryCache, failedFor, preview, own>>

\* It is unmounted, with the effect that would have heard the answer.
UnmountCard(c) ==
    /\ cards[c] # None
    /\ cards' = [cards EXCEPT ![c] = None]
    /\ UNCHANGED <<shown, scored, summaryCache, inflight, sentFor, failedFor, preview, own>>

\* Every card that waits for the player hears of it.
Heard(u, hook(_)) ==
    cards' = [c \in Card |-> IF cards[c] # None /\ cards[c].player = u /\ cards[c].isLoading
                             THEN hook(cards[c]) ELSE cards[c]]

LookupAnswered(u) ==
    /\ inflight[u] > 0 /\ u \in scored
    /\ summaryCache' = summaryCache \cup {u}
    /\ inflight' = [inflight EXCEPT ![u] = @ - 1]
    /\ Heard(u, LAMBDA h : [h EXCEPT !.summary = u, !.isLoading = FALSE])
    /\ UNCHANGED <<shown, scored, sentFor, failedFor, preview, own>>

LookupMissing(u) ==
    /\ inflight[u] > 0 /\ u \notin scored
    /\ inflight' = [inflight EXCEPT ![u] = @ - 1]
    /\ failedFor' = [failedFor EXCEPT ![u] = @ + 1]
    /\ Heard(u, LAMBDA h : [h EXCEPT !.isLoading = FALSE])
    /\ UNCHANGED <<shown, scored, summaryCache, sentFor, preview, own>>

\* Fault: a failure of the network is taken for a 404.
LookupFailedQuiet(u) ==
    /\ inflight[u] > 0
    /\ inflight' = [inflight EXCEPT ![u] = @ - 1]
    /\ failedFor' = [failedFor EXCEPT ![u] = @ + 1]
    /\ Heard(u, LAMBDA h : [h EXCEPT !.isLoading = FALSE])
    /\ UNCHANGED <<shown, scored, summaryCache, sentFor, preview, own>>

\* Fault: it is shown, and the spinner goes on.
LookupFailedSpinning(u) ==
    /\ inflight[u] > 0
    /\ inflight' = [inflight EXCEPT ![u] = @ - 1]
    /\ failedFor' = [failedFor EXCEPT ![u] = @ + 1]
    /\ Heard(u, LAMBDA h : [h EXCEPT !.error = TRUE])
    /\ UNCHANGED <<shown, scored, summaryCache, sentFor, preview, own>>

\* Fault: the request stays in the map after it has failed.
LookupFailedKept(u) ==
    /\ inflight[u] > 0
    /\ failedFor' = [failedFor EXCEPT ![u] = @ + 1]
    /\ Heard(u, LAMBDA h : [h EXCEPT !.error = TRUE, !.isLoading = FALSE])
    /\ UNCHANGED <<shown, scored, summaryCache, inflight, sentFor, preview, own>>

LookupFailed(u) ==
    /\ inflight[u] > 0
    /\ inflight' = [inflight EXCEPT ![u] = @ - 1]
    /\ failedFor' = [failedFor EXCEPT ![u] = @ + 1]
    /\ Heard(u, LAMBDA h : [h EXCEPT !.error = TRUE, !.isLoading = FALSE])
    /\ UNCHANGED <<shown, scored, summaryCache, sentFor, preview, own>>

-----------------------------------------------------------------------------
(* The preview.  Its hook does not ask whose answer arrives.               *)

OpenPreview(u) ==
    /\ shown = "previews" /\ preview.partner = None
    /\ Cardinality(preview.fetches) < MaxLookups /\ u \notin preview.fetches
    /\ preview' = [preview EXCEPT !.partner = u, !.error = FALSE, !.fetches = @ \cup {u},
                                  !.crossed = @ \/ preview.fetches # {}]
    /\ UNCHANGED <<shown, scored, cards, summaryCache, inflight, sentFor, failedFor, own>>

ClosePreview ==
    /\ "close" \in PreviewOffers
    /\ preview' = [preview EXCEPT !.partner = None]
    /\ UNCHANGED <<shown, scored, cards, summaryCache, inflight, sentFor, failedFor, own>>

RankAnswered(u) ==
    /\ u \in preview.fetches /\ u \in scored
    /\ preview' = [preview EXCEPT !.summary = u, !.fetches = @ \ {u}]
    /\ UNCHANGED <<shown, scored, cards, summaryCache, inflight, sentFor, failedFor, own>>

\* Fault: a player without a summary keeps that of the one before.
RankMissingKept(u) ==
    /\ u \in preview.fetches /\ u \notin scored
    /\ preview' = [preview EXCEPT !.fetches = @ \ {u}]
    /\ UNCHANGED <<shown, scored, cards, summaryCache, inflight, sentFor, failedFor, own>>

RankMissing(u) ==
    /\ u \in preview.fetches /\ u \notin scored
    /\ preview' = [preview EXCEPT !.summary = None, !.fetches = @ \ {u}]
    /\ UNCHANGED <<shown, scored, cards, summaryCache, inflight, sentFor, failedFor, own>>

RankFailed(u) ==
    /\ u \in preview.fetches
    /\ preview' = [preview EXCEPT !.error = TRUE, !.fetches = @ \ {u}]
    /\ UNCHANGED <<shown, scored, cards, summaryCache, inflight, sentFor, failedFor, own>>

-----------------------------------------------------------------------------
(* The profile.                                                            *)

RestKept == UNCHANGED <<shown, scored, cards, summaryCache, inflight, sentFor, failedFor, preview>>
HookOf(p) == IF p = "honor" THEN "honor" ELSE "local"

\* Both hooks fetch when the profile is mounted.
OpenOwnProfile(exists) ==
    /\ shown = None
    /\ shown' = "profile"
    /\ own' = [own EXCEPT !.exists = exists, !.waiting = Part]
    /\ UNCHANGED <<scored, cards, summaryCache, inflight, sentFor, failedFor, preview>>

OpenList(kind) ==
    /\ shown = None
    /\ shown' = kind
    /\ scored' \in SUBSET Player
    /\ UNCHANGED <<cards, summaryCache, inflight, sentFor, failedFor, preview, own>>

\* Fault: each answer is shown when it arrives.
ShownEach(o, p) == [o EXCEPT !.set = @ \cup (o.got \ {"honor"})]

\* Promise.all: the three answers of useHonorSystem are shown together, unless one
\* of them has failed.
ShownTogether(o, p) ==
    IF p = "honor" THEN [o EXCEPT !.set = @ \cup (o.got \cap {"honor"})]
    ELSE IF LocalPart \cap o.waiting = {} /\ "local" \notin o.errors
    THEN [o EXCEPT !.set = @ \cup (o.got \cap LocalPart)] ELSE o

\* A part is answered; a 404 and a null are answers too.
OwnAnswered(p) ==
    /\ p \in own.waiting
    /\ own' = ShownTogether([own EXCEPT !.waiting = @ \ {p},
                                        !.got = @ \cup ({p} \cap own.exists)], p)
    /\ RestKept

OwnFailed(p) ==
    /\ p \in own.waiting
    /\ own' = [own EXCEPT !.waiting = @ \ {p}, !.errors = @ \cup {HookOf(p)}]
    /\ RestKept

-----------------------------------------------------------------------------
ReputationInit ==
    /\ shown = None
    /\ scored = {}
    /\ cards = [c \in Card |-> None]
    /\ summaryCache = {}
    /\ inflight = [u \in Player |-> 0]
    /\ sentFor = [u \in Player |-> 0]
    /\ failedFor = [u \in Player |-> 0]
    /\ preview = NoPreview
    /\ own = NothingOwn

LookupEnds(u) == LookupAnswered(u) \/ LookupMissing(u) \/ LookupFailed(u)
RankEnds(u) == RankAnswered(u) \/ RankMissing(u) \/ RankFailed(u)

ReputationNext ==
    \/ \E kind \in {"cards", "previews"} : OpenList(kind)
    \/ \E exists \in SUBSET Part : OpenOwnProfile(exists)
    \/ \E c \in Card : UnmountCard(c) \/ \E u \in Player : MountCard(c, u)
    \/ \E u \in Player : OpenPreview(u) \/ LookupEnds(u) \/ RankEnds(u)
    \/ ClosePreview
    \/ \E p \in Part : OwnAnswered(p) \/ OwnFailed(p)

ReputationSpec == ReputationInit /\ [][ReputationNext]_reputationVars

\* Every request is answered, refused or given up after its timeout.
ReputationFairness == \A u \in Player : WF_reputationVars(LookupEnds(u))

-----------------------------------------------------------------------------
(* Properties.                                                             *)

\* Every variable has its type.
ReputationTypeOK ==
    /\ shown \in {None, "cards", "previews", "profile"}
    /\ scored \in SUBSET Player /\ summaryCache \in SUBSET Player
    /\ cards \in [Card -> HonorHook \cup {None}]
    /\ inflight \in [Player -> 0 .. MaxLookups]
    /\ sentFor \in [Player -> 0 .. MaxLookups] /\ failedFor \in [Player -> 0 .. MaxLookups]
    /\ preview \in RankHook
    /\ own \in OwnHooks

\* lib/rank.ts:43: a player is looked up once per session, however many cards ask
\* at the same time or later; only a failure is looked up again, and after one it
\* can be.
LookedUpOnce ==
    \A u \in Player :
        /\ sentFor[u] = failedFor[u] + (IF u \in summaryCache THEN 1 ELSE 0) + inflight[u]
        /\ inflight[u] <= IF u \in summaryCache THEN 0 ELSE 1

\* "New player" is said of nobody that has played, whatever fails, and a summary is
\* shown on the cards of its player only.
BadgeIsHonest ==
    \A c \in Mounted :
        /\ HonorBadgeSays(cards[c]) = "New player" => cards[c].player \notin scored
        /\ cards[c].summary \in {None, cards[c].player}

\* The preview of one player does not show the rank of another one, once its own
\* fetch has been answered and unless the fetches of two previews crossed.
RankIsPartners ==
    (preview.fetches = {} /\ ~preview.error /\ ~preview.crossed /\ preview.partner # None) =>
        RankBadgeSays \in {None, preview.partner}

\* The local rank, the champion and the titles are shown together or not at all: a
\* section with a rank never lacks a title because its request was lost.
LocalIsWhole ==
    /\ own.set \cap LocalPart \in {{}, own.exists \cap LocalPart}
    /\ LocalRankSays = {"error"} => own.set \cap LocalPart = {}

\* What is said of a player's reputation is true of this player, or nothing is said:
\* on cards that share lookups, in previews, and in the sections of a profile.
ReputationIsRight ==
    /\ LookedUpOnce
    /\ BadgeIsHonest
    /\ RankIsPartners
    /\ LocalIsWhole

\* The spinner of a badge goes away.
BadgeSettles ==
    \A c \in Card : (cards[c] # None /\ cards[c].isLoading) ~>
                        (cards[c] = None \/ ~cards[c].isLoading)
=============================================================================
