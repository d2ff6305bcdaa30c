----------------------------- MODULE FeedsProofs -----------------------------
(***************************************************************************)
(* Proofs about the three machines that MCFeeds composes: Reputations, for *)
(* every set of players and cards and any number of lookups; Forms, for    *)
(* every set of sports, suburbs, genders and levels, every limit, and any  *)
(* number of pickers and attempts; and Feeds, for every set of rows and    *)
(* chips and any number of fetches in flight.                              *)
(***************************************************************************)
EXTENDS Feeds, Reputations, Forms, Integers, FiniteSetTheorems, NaturalsInduction,
        WellFoundedInduction, TLAPS

-----------------------------------------------------------------------------
(* The badges.                                                             *)

\* A card that shows nothing, and neither waits nor failed, is of a player without
\* a summary.
CardsHonest ==
    \A c \in Card : cards[c] # None =>
        /\ cards[c].summary \in {None, cards[c].player}
        /\ (cards[c].summary = None /\ ~cards[c].isLoading /\ ~cards[c].error)
               => cards[c].player \notin scored

\* Until a list is opened no card is mounted: the server's summaries are as they
\* were when a card was.
NothingShown ==
    shown = None => \A c \in Card : cards[c] = None

\* Unless two previews crossed, at most one fetch is in flight, for the partner.
PreviewInv ==
    ~preview.crossed =>
        /\ \A u, v \in preview.fetches : u = v
        /\ preview.partner # None => preview.fetches \subseteq {preview.partner}
        /\ (preview.fetches = {} /\ ~preview.error /\ preview.partner # None)
               => preview.summary \in {None, preview.partner}

\* What has not been handed to the screen yet, and what it will be made of.
OwnInv ==
    /\ (LocalPart \cap own.waiting # {} \/ "local" \in own.errors) => own.set \cap LocalPart = {}
    /\ own.got \subseteq own.exists
    /\ "local" \notin own.errors => own.exists \cap LocalPart \subseteq own.got \cup own.waiting
    /\ own.set \cap LocalPart \in {{}, own.exists \cap LocalPart}
    /\ shown = None => own = NothingOwn

\* The inductive invariant.  What a screen says follows from what its cards and
\* its fetches hold, whether they have been answered or not.
BadgeIInv ==
    /\ ReputationTypeOK
    /\ LookedUpOnce
    /\ CardsHonest
    /\ NothingShown
    /\ PreviewInv
    /\ OwnInv

-----------------------------------------------------------------------------
(* The cards and their cache.                                              *)

\* The parts of the invariant that are about the previews and the profile.
LEMMA RestKeeps ==
    ASSUME BadgeIInv, UNCHANGED <<shown, preview, own>>
    PROVE  PreviewInv' /\ OwnInv' /\ (preview \in RankHook)' /\ (own \in OwnHooks)'
  BY DEF BadgeIInv, PreviewInv, OwnInv, ReputationTypeOK

\* A card that is mounted shows what is cached, or waits for a lookup that is in
\* flight.
LEMMA MountStep ==
    ASSUME BadgeIInv, NEW c \in Card, NEW u \in Player, MountCard(c, u)
    PROVE  BadgeIInv'
  <1> DEFINE hook == [player |-> u, error |-> FALSE, isLoading |-> u \notin summaryCache,
                      summary |-> IF u \in summaryCache THEN u ELSE None]
  <1>1. /\ shown = "cards" /\ cards' = [cards EXCEPT ![c] = hook]
        /\ getUserHonorSummaryCached(u)
        /\ UNCHANGED <<shown, scored, summaryCache, failedFor, preview, own>>
        /\ sentFor[u] < MaxLookups
    BY DEF MountCard
  <1>2. hook \in HonorHook /\ u # None
    BY PlayerAssumption DEF HonorHook, Maybe
  <1>3. cards' \in [Card -> HonorHook \cup {None}]
    BY <1>1, <1>2 DEF BadgeIInv, ReputationTypeOK
  <1>4. /\ inflight' \in [Player -> 0 .. MaxLookups] /\ sentFor' \in [Player -> 0 .. MaxLookups]
        /\ LookedUpOnce'
    <2>1. MaxLookups \in Nat \ {0}
      BY LookupAssumption
    <2>2. /\ inflight \in [Player -> 0 .. MaxLookups] /\ sentFor \in [Player -> 0 .. MaxLookups]
          /\ failedFor \in [Player -> 0 .. MaxLookups]
          /\ LookedUpOnce /\ failedFor' = failedFor /\ summaryCache' = summaryCache
      BY <1>1 DEF BadgeIInv, ReputationTypeOK
    <2>3. CASE u \in summaryCache \/ inflight[u] > 0
      <3>1. inflight' = inflight /\ sentFor' = sentFor
        BY <1>1, <2>3 DEF getUserHonorSummaryCached
      <3> QED
        BY <2>2, <3>1 DEF LookedUpOnce
    <2>4. CASE ~(u \in summaryCache \/ inflight[u] > 0)
      <3>1. /\ inflight' = [inflight EXCEPT ![u] = @ + 1]
            /\ sentFor' = [sentFor EXCEPT ![u] = @ + 1]
        BY <1>1, <2>4 DEF getUserHonorSummaryCached
      <3>2. inflight[u] = 0 /\ inflight[u] + 1 \in 0 .. MaxLookups
        BY <2>1, <2>2, <2>4
      <3>3. sentFor[u] + 1 \in 0 .. MaxLookups
        BY <1>1, <2>1, <2>2
      <3> QED
        BY <2>1, <2>2, <2>4, <3>1, <3>2, <3>3 DEF LookedUpOnce
    <2> QED
      BY <2>3, <2>4
  <1>5. CardsHonest'
    <2> SUFFICES ASSUME NEW d \in Card, cards'[d] # None
                 PROVE  /\ cards'[d].summary \in {None, cards'[d].player}
                        /\ (cards'[d].summary = None /\ ~cards'[d].isLoading /\ ~cards'[d].error)
                               => cards'[d].player \notin scored
      BY <1>1 DEF CardsHonest
    <2>1. CASE d = c
      <3>1. cards'[d] = hook
        BY <1>1, <2>1 DEF BadgeIInv, ReputationTypeOK
      <3>2. /\ hook.player = u /\ hook.summary \in {None, u}
            /\ hook.isLoading <=> u \notin summaryCache
            /\ u \in summaryCache => hook.summary = u
        OBVIOUS
      <3> HIDE DEF hook
      <3> QED
        BY <1>2, <3>1, <3>2
    <2>2. CASE d # c
      <3>1. cards'[d] = cards[d]
        BY <1>1, <2>2 DEF BadgeIInv, ReputationTypeOK
      <3> QED
        BY <3>1 DEF BadgeIInv, CardsHonest
    <2> QED
      BY <2>1, <2>2
  <1>6. NothingShown'
    BY <1>1, NoneAssumption DEF NothingShown
  <1> QED
    BY <1>1, <1>3, <1>4, <1>5, <1>6, RestKeeps DEF BadgeIInv, ReputationTypeOK

\* A card that is unmounted takes nothing with it.
LEMMA UnmountStep ==
    ASSUME BadgeIInv, NEW c \in Card, UnmountCard(c)
    PROVE  BadgeIInv'
  <1>1. /\ cards' = [cards EXCEPT ![c] = None]
        /\ UNCHANGED <<shown, scored, summaryCache, inflight, sentFor, failedFor, preview, own>>
    BY DEF UnmountCard
  <1>2. \A d \in Card : cards'[d] = None \/ cards'[d] = cards[d]
    BY <1>1 DEF BadgeIInv, ReputationTypeOK
  <1>3. cards' \in [Card -> HonorHook \cup {None}]
    BY <1>1 DEF BadgeIInv, ReputationTypeOK
  <1>4. CardsHonest' /\ NothingShown'
    BY <1>1, <1>2 DEF BadgeIInv, CardsHonest, NothingShown
  <1>5. LookedUpOnce'
    BY <1>1 DEF BadgeIInv, LookedUpOnce
  <1> QED
    BY <1>1, <1>3, <1>4, <1>5, RestKeeps DEF BadgeIInv, ReputationTypeOK

\* The counts after the request of a player has ended, answered or not.
LEMMA CountsKeep ==
    ASSUME BadgeIInv, NEW u \in Player, inflight[u] > 0,
           inflight' = [inflight EXCEPT ![u] = @ - 1], UNCHANGED sentFor,
           \/ summaryCache' = summaryCache \cup {u} /\ UNCHANGED failedFor
           \/ failedFor' = [failedFor EXCEPT ![u] = @ + 1] /\ UNCHANGED summaryCache
    PROVE  /\ (inflight \in [Player -> 0 .. MaxLookups])'
           /\ (sentFor \in [Player -> 0 .. MaxLookups])'
           /\ (failedFor \in [Player -> 0 .. MaxLookups])'
           /\ summaryCache' \in SUBSET Player
           /\ LookedUpOnce'
  <1>1. /\ inflight \in [Player -> 0 .. MaxLookups] /\ sentFor \in [Player -> 0 .. MaxLookups]
        /\ failedFor \in [Player -> 0 .. MaxLookups] /\ summaryCache \in SUBSET Player
        /\ LookedUpOnce /\ MaxLookups \in Nat
    BY LookupAssumption DEF BadgeIInv, ReputationTypeOK
  <1>2. inflight[u] = 1 /\ u \notin summaryCache /\ sentFor[u] = failedFor[u] + 1
    BY <1>1 DEF LookedUpOnce
  <1>3. inflight' \in [Player -> 0 .. MaxLookups]
    BY <1>1, <1>2
  <1>4. failedFor' \in [Player -> 0 .. MaxLookups]
    <2>1. failedFor[u] + 1 \in 0 .. MaxLookups
      BY <1>1, <1>2
    <2> QED
      BY <1>1, <2>1
  <1>5. LookedUpOnce'
    <2> SUFFICES ASSUME NEW v \in Player
                 PROVE  /\ sentFor'[v] = failedFor'[v]
                             + (IF v \in summaryCache' THEN 1 ELSE 0) + inflight'[v]
                        /\ inflight'[v] <= IF v \in summaryCache' THEN 0 ELSE 1
      BY DEF LookedUpOnce
    <2>1. CASE v = u
      BY <1>1, <1>2, <2>1
    <2>2. CASE v # u
      BY <1>1, <2>2 DEF LookedUpOnce
    <2> QED
      BY <2>1, <2>2
  <1> QED
    BY <1>1, <1>3, <1>4, <1>5

\* What every card becomes when its player's request ends.
LEMMA HeardKeeps ==
    ASSUME BadgeIInv, NEW u \in Player, NEW H,
           H = (IF u \in scored THEN {"answered", "failed"} ELSE {"missing", "failed"}),
           NEW how \in H,
           cards' = [c \in Card |->
               IF cards[c] # None /\ cards[c].player = u /\ cards[c].isLoading
               THEN IF how = "answered" THEN [cards[c] EXCEPT !.summary = u, !.isLoading = FALSE]
                    ELSE IF how = "missing" THEN [cards[c] EXCEPT !.isLoading = FALSE]
                    ELSE [cards[c] EXCEPT !.error = TRUE, !.isLoading = FALSE]
               ELSE cards[c]],
           UNCHANGED <<shown, scored>>
    PROVE  (cards \in [Card -> HonorHook \cup {None}])' /\ CardsHonest' /\ NothingShown'
  <1>1. ASSUME NEW c \in Card
        PROVE  /\ cards'[c] \in HonorHook \cup {None}
               /\ cards[c] = None => cards'[c] = None
               /\ cards'[c] # None =>
                    /\ cards'[c].summary \in {None, cards'[c].player}
                    /\ (cards'[c].summary = None /\ ~cards'[c].isLoading /\ ~cards'[c].error)
                           => cards'[c].player \notin scored
    <2>1. CASE cards[c] # None /\ cards[c].player = u /\ cards[c].isLoading
      <3>1. cards[c] \in HonorHook
        BY <2>1 DEF BadgeIInv, ReputationTypeOK
      <3>2. cards[c].summary \in {None, u}
        BY <2>1 DEF BadgeIInv, CardsHonest
      <3>3. CASE how = "answered"
        <4>1. cards'[c] = [cards[c] EXCEPT !.summary = u, !.isLoading = FALSE]
          BY <2>1, <3>3
        <4> QED
          BY <2>1, <3>1, <4>1, PlayerAssumption DEF HonorHook, Maybe
      <3>4. CASE how = "missing"
        <4>1. cards'[c] = [cards[c] EXCEPT !.isLoading = FALSE] /\ u \notin scored
          BY <2>1, <3>4
        <4> QED
          BY <2>1, <3>1, <3>2, <4>1 DEF HonorHook, Maybe
      <3>5. CASE how = "failed"
        <4>1. cards'[c] = [cards[c] EXCEPT !.error = TRUE, !.isLoading = FALSE]
          BY <2>1, <3>5
        <4> QED
          BY <2>1, <3>1, <3>2, <4>1 DEF HonorHook, Maybe
      <3> QED
        BY <3>3, <3>4, <3>5
    <2>2. CASE ~(cards[c] # None /\ cards[c].player = u /\ cards[c].isLoading)
      <3>1. cards'[c] = cards[c]
        BY <2>2
      <3> QED
        BY <3>1 DEF BadgeIInv, CardsHonest, ReputationTypeOK
    <2> QED
      BY <2>1, <2>2
  <1>2. cards' \in [Card -> HonorHook \cup {None}]
    BY <1>1
  <1> QED
    BY <1>1, <1>2 DEF BadgeIInv, CardsHonest, NothingShown

\* A lookup answers every card that waits for it.
LEMMA LookupStep ==
    ASSUME BadgeIInv, NEW u \in Player, LookupEnds(u)
    PROVE  BadgeIInv'
  <1> DEFINE H == IF u \in scored THEN {"answered", "failed"} ELSE {"missing", "failed"}
             Becomes(how) ==
                 [c \in Card |->
                    IF cards[c] # None /\ cards[c].player = u /\ cards[c].isLoading
                    THEN IF how = "answered" THEN [cards[c] EXCEPT !.summary = u, !.isLoading = FALSE]
                         ELSE IF how = "missing" THEN [cards[c] EXCEPT !.isLoading = FALSE]
                         ELSE [cards[c] EXCEPT !.error = TRUE, !.isLoading = FALSE]
                    ELSE cards[c]]
  <1>1. /\ inflight[u] > 0 /\ inflight' = [inflight EXCEPT ![u] = @ - 1]
        /\ UNCHANGED <<shown, scored, sentFor, preview, own>>
        /\ \/ summaryCache' = summaryCache \cup {u} /\ UNCHANGED failedFor
           \/ failedFor' = [failedFor EXCEPT ![u] = @ + 1] /\ UNCHANGED summaryCache
    BY DEF LookupEnds, LookupAnswered, LookupMissing, LookupFailed
  <1>2. PICK how \in H : cards' = Becomes(how)
    <2>1. CASE LookupAnswered(u)
      <3>1. "answered" \in H /\ cards' = Becomes("answered")
        BY <2>1 DEF LookupAnswered, Heard
      <3> QED
        BY <3>1
    <2>2. CASE LookupMissing(u)
      <3>1. "missing" \in H /\ cards' = Becomes("missing")
        BY <2>2 DEF LookupMissing, Heard
      <3> QED
        BY <3>1
    <2>3. CASE LookupFailed(u)
      <3>1. "failed" \in H /\ cards' = Becomes("failed")
        BY <2>3 DEF LookupFailed, Heard
      <3> QED
        BY <3>1
    <2> QED
      BY <2>1, <2>2, <2>3 DEF LookupEnds
  <1>3. (cards \in [Card -> HonorHook \cup {None}])' /\ CardsHonest' /\ NothingShown'
    BY <1>1, <1>2, HeardKeeps
  <1>4. /\ (inflight \in [Player -> 0 .. MaxLookups])'
        /\ (sentFor \in [Player -> 0 .. MaxLookups])'
        /\ (failedFor \in [Player -> 0 .. MaxLookups])'
        /\ summaryCache' \in SUBSET Player
        /\ LookedUpOnce'
    BY <1>1, CountsKeep
  <1> HIDE DEF H, Becomes
  <1> QED
    BY <1>1, <1>3, <1>4, RestKeeps DEF BadgeIInv, ReputationTypeOK

-----------------------------------------------------------------------------
(* The lists, the previews and the profile.                                *)

\* A list opens with no card.
LEMMA OpenListStep ==
    ASSUME BadgeIInv, NEW kind \in {"cards", "previews"}, OpenList(kind)
    PROVE  BadgeIInv'
  <1>1. /\ shown = None /\ shown' = kind /\ scored' \in SUBSET Player
        /\ UNCHANGED <<cards, summaryCache, inflight, sentFor, failedFor, preview, own>>
    BY DEF OpenList
  <1>2. \A c \in Card : cards[c] = None
    BY <1>1 DEF BadgeIInv, NothingShown
  <1>3. CardsHonest' /\ NothingShown'
    BY <1>1, <1>2 DEF CardsHonest, NothingShown
  <1>4. ReputationTypeOK' /\ LookedUpOnce'
    BY <1>1 DEF BadgeIInv, ReputationTypeOK, LookedUpOnce
  <1>5. PreviewInv' /\ OwnInv'
    BY <1>1, NoneAssumption DEF BadgeIInv, PreviewInv, OwnInv
  <1> QED
    BY <1>3, <1>4, <1>5 DEF BadgeIInv

\* What the steps of a preview leave alone.
LEMMA PreviewKeeps ==
    ASSUME BadgeIInv, preview' \in RankHook, PreviewInv',
           UNCHANGED <<shown, scored, cards, summaryCache, inflight, sentFor, failedFor, own>>
    PROVE  BadgeIInv'
  BY DEF BadgeIInv, ReputationTypeOK, LookedUpOnce, CardsHonest, NothingShown, OwnInv

\* A preview is opened and closed, and its fetches answered, without a card or the
\* profile.
LEMMA PreviewSteps ==
    ASSUME BadgeIInv, NEW u \in Player, OpenPreview(u) \/ ClosePreview \/ RankEnds(u)
    PROVE  BadgeIInv'
  <1>1. /\ preview \in RankHook /\ PreviewInv
        /\ u # None
    BY PlayerAssumption DEF BadgeIInv, ReputationTypeOK
  <1>2. CASE OpenPreview(u)
    <2>1. preview' = [preview EXCEPT !.partner = u, !.error = FALSE, !.fetches = @ \cup {u},
                                     !.crossed = @ \/ preview.fetches # {}]
      BY <1>2 DEF OpenPreview
    <2>2. preview' \in RankHook
      BY <1>1, <2>1 DEF RankHook, Maybe
    <2>3. PreviewInv'
      BY <1>1, <2>1 DEF RankHook, PreviewInv
    <2> QED
      BY <1>2, <2>2, <2>3, PreviewKeeps DEF OpenPreview
  <1>3. CASE ClosePreview
    <2>1. preview' = [preview EXCEPT !.partner = None]
      BY <1>3 DEF ClosePreview
    <2>2. preview' \in RankHook /\ PreviewInv'
      BY <1>1, <2>1 DEF RankHook, Maybe, PreviewInv
    <2> QED
      BY <1>3, <2>2, PreviewKeeps DEF ClosePreview
  <1>4. CASE RankAnswered(u)
    <2>1. /\ preview' = [preview EXCEPT !.summary = u, !.fetches = @ \ {u}]
          /\ u \in preview.fetches
      BY <1>4 DEF RankAnswered
    <2>2. preview' \in RankHook
      BY <1>1, <2>1 DEF RankHook, Maybe
    <2>3. PreviewInv'
      BY <1>1, <2>1 DEF RankHook, PreviewInv
    <2> QED
      BY <1>4, <2>2, <2>3, PreviewKeeps DEF RankAnswered
  <1>5. CASE RankMissing(u)
    <2>1. preview' = [preview EXCEPT !.summary = None, !.fetches = @ \ {u}]
      BY <1>5 DEF RankMissing
    <2>2. preview' \in RankHook /\ PreviewInv'
      BY <1>1, <2>1 DEF RankHook, Maybe, PreviewInv
    <2> QED
      BY <1>5, <2>2, PreviewKeeps DEF RankMissing
  <1>6. CASE RankFailed(u)
    <2>1. preview' = [preview EXCEPT !.error = TRUE, !.fetches = @ \ {u}]
      BY <1>6 DEF RankFailed
    <2>2. preview' \in RankHook /\ PreviewInv'
      BY <1>1, <2>1 DEF RankHook, PreviewInv
    <2> QED
      BY <1>6, <2>2, PreviewKeeps DEF RankFailed
  <1> QED
    BY <1>2, <1>3, <1>4, <1>5, <1>6 DEF RankEnds

\* What the steps of the profile leave alone.
LEMMA OwnKeeps ==
    ASSUME BadgeIInv, own' \in OwnHooks, OwnInv', RestKept
    PROVE  BadgeIInv'
  BY DEF RestKept, BadgeIInv, ReputationTypeOK, LookedUpOnce, CardsHonest, NothingShown, PreviewInv

\* The own profile asks for all of its parts at once.
LEMMA OpenProfileStep ==
    ASSUME BadgeIInv, NEW exists \in SUBSET Part, OpenOwnProfile(exists)
    PROVE  BadgeIInv'
  <1>1. /\ shown = None /\ shown' = "profile"
        /\ own' = [own EXCEPT !.exists = exists, !.waiting = Part]
        /\ UNCHANGED <<scored, cards, summaryCache, inflight, sentFor, failedFor, preview>>
    BY DEF OpenOwnProfile
  <1>2. own = NothingOwn
    BY <1>1 DEF BadgeIInv, OwnInv
  <1>3. own' = [exists |-> exists, waiting |-> Part, got |-> {}, set |-> {}, errors |-> {}]
    BY <1>1, <1>2 DEF NothingOwn
  <1>4. own' \in OwnHooks
    BY <1>3 DEF OwnHooks
  <1>5. OwnInv'
    <2>1. /\ own'.exists = exists /\ own'.waiting = Part /\ own'.got = {}
          /\ own'.set = {} /\ own'.errors = {}
      BY <1>3
    <2>2. shown' # None /\ LocalPart \subseteq Part
      BY <1>1, NoneAssumption DEF Part
    <2> QED
      BY <2>1, <2>2 DEF OwnInv
  <1>6. ReputationTypeOK' /\ LookedUpOnce'
    BY <1>1, <1>4 DEF BadgeIInv, ReputationTypeOK, LookedUpOnce
  <1>7. CardsHonest' /\ NothingShown' /\ PreviewInv'
    BY <1>1, NoneAssumption DEF BadgeIInv, CardsHonest, NothingShown, PreviewInv
  <1> QED
    BY <1>5, <1>6, <1>7 DEF BadgeIInv

\* An answer is held back until the local parts have all arrived.
LEMMA OwnAnsweredStep ==
    ASSUME BadgeIInv, NEW p \in Part, OwnAnswered(p)
    PROVE  BadgeIInv'
  <1> DEFINE o == [own EXCEPT !.waiting = @ \ {p}, !.got = @ \cup ({p} \cap own.exists)]
  <1>1. own \in OwnHooks /\ OwnInv /\ p \in own.waiting /\ RestKept /\ own' = ShownTogether(o, p)
    BY DEF BadgeIInv, ReputationTypeOK, OwnAnswered
  <1>2. shown' = shown /\ shown # None
    <2>1. shown' = shown
      BY <1>1 DEF RestKept
    <2>2. shown = None => own.waiting = {}
      BY <1>1 DEF OwnInv, NothingOwn
    <2> QED
      BY <1>1, <2>1, <2>2
  <1>3. /\ o \in OwnHooks /\ o.exists = own.exists /\ o.set = own.set /\ o.errors = own.errors
        /\ o.waiting = own.waiting \ {p} /\ o.got = own.got \cup ({p} \cap own.exists)
    BY <1>1 DEF OwnHooks
  <1> HIDE DEF o
  <1>4. CASE p = "honor"
    <2>1. own' = [o EXCEPT !.set = @ \cup (o.got \cap {"honor"})]
      BY <1>1, <1>4 DEF ShownTogether
    <2>2. /\ own' \in OwnHooks /\ own'.exists = o.exists /\ own'.errors = o.errors
          /\ own'.waiting = o.waiting /\ own'.got = o.got
          /\ own'.set = o.set \cup (o.got \cap {"honor"})
      BY <1>3, <2>1 DEF OwnHooks
    <2>3. own'.set \cap LocalPart = own.set \cap LocalPart
      BY <1>3, <2>2 DEF LocalPart
    <2>4. OwnInv'
      BY <1>1, <1>2, <1>3, <1>4, <2>2, <2>3 DEF OwnInv
    <2> QED
      BY <1>1, <2>2, <2>4, OwnKeeps
  <1>5. CASE p # "honor" /\ LocalPart \cap o.waiting = {} /\ "local" \notin o.errors
    <2>1. own' = [o EXCEPT !.set = @ \cup (o.got \cap LocalPart)]
      BY <1>1, <1>5 DEF ShownTogether
    <2>2. /\ own' \in OwnHooks /\ own'.exists = o.exists /\ own'.errors = o.errors
          /\ own'.waiting = o.waiting /\ own'.got = o.got
          /\ own'.set = o.set \cup (o.got \cap LocalPart)
      BY <1>3, <2>1 DEF OwnHooks, Part
    <2>3. own.exists \cap LocalPart \subseteq o.got /\ o.got \subseteq own.exists
      BY <1>1, <1>3, <1>5 DEF OwnInv
    <2>4. own'.set \cap LocalPart = own.exists \cap LocalPart
      BY <1>1, <1>3, <2>2, <2>3 DEF OwnInv
    <2>5. OwnInv'
      BY <1>1, <1>2, <1>3, <1>5, <2>2, <2>3, <2>4 DEF OwnInv
    <2> QED
      BY <1>1, <2>2, <2>5, OwnKeeps
  <1>6. CASE p # "honor" /\ ~(LocalPart \cap o.waiting = {} /\ "local" \notin o.errors)
    <2>1. own' = o
      BY <1>1, <1>6 DEF ShownTogether
    <2>2. OwnInv'
      BY <1>1, <1>2, <1>3, <2>1 DEF OwnInv
    <2> QED
      BY <1>1, <1>3, <2>1, <2>2, OwnKeeps
  <1> QED
    BY <1>4, <1>5, <1>6

\* A part that fails leaves the local section out.
LEMMA OwnFailedStep ==
    ASSUME BadgeIInv, NEW p \in Part, OwnFailed(p)
    PROVE  BadgeIInv'
  <1>1. /\ own \in OwnHooks /\ OwnInv /\ p \in own.waiting /\ RestKept
        /\ own' = [own EXCEPT !.waiting = @ \ {p}, !.errors = @ \cup {HookOf(p)}]
    BY DEF BadgeIInv, ReputationTypeOK, OwnFailed
  <1>2. shown' = shown /\ shown # None
    <2>1. shown' = shown
      BY <1>1 DEF RestKept
    <2>2. shown = None => own.waiting = {}
      BY <1>1 DEF OwnInv, NothingOwn
    <2> QED
      BY <1>1, <2>1, <2>2
  <1>3. /\ own' \in OwnHooks /\ own'.exists = own.exists /\ own'.set = own.set
        /\ own'.got = own.got /\ own'.waiting = own.waiting \ {p}
        /\ own'.errors = own.errors \cup {HookOf(p)}
    BY <1>1 DEF OwnHooks, HookOf
  <1>4. p = "honor" \/ p \in LocalPart
    BY DEF Part
  <1>5. OwnInv'
    <2>1. CASE p = "honor"
      <3>1. HookOf(p) = "honor" /\ "honor" \notin LocalPart
        BY <2>1 DEF HookOf, LocalPart
      <3> QED
        BY <1>1, <1>2, <1>3, <2>1, <3>1 DEF OwnInv
    <2>2. CASE p \in LocalPart
      <3>1. HookOf(p) = "local"
        BY <2>2 DEF HookOf, LocalPart
      <3> QED
        BY <1>1, <1>2, <1>3, <2>2, <3>1 DEF OwnInv
    <2> QED
      BY <1>4, <2>1, <2>2
  <1> QED
    BY <1>1, <1>3, <1>5, OwnKeeps

-----------------------------------------------------------------------------
(* The theorems.                                                           *)

\* At first nothing is shown.
LEMMA BadgeInitStep == ReputationInit => BadgeIInv
  <1> SUFFICES ASSUME ReputationInit
               PROVE  BadgeIInv
    OBVIOUS
  <1>1. MaxLookups \in Nat
    BY LookupAssumption
  <1>2. preview \in RankHook /\ own \in OwnHooks
    BY DEF ReputationInit, NoPreview, RankHook, Maybe, NothingOwn, OwnHooks
  <1>3. ReputationTypeOK /\ LookedUpOnce
    BY <1>1, <1>2 DEF ReputationInit, ReputationTypeOK, LookedUpOnce
  <1>4. CardsHonest /\ NothingShown
    BY DEF ReputationInit, CardsHonest, NothingShown
  <1>5. PreviewInv /\ OwnInv
    BY DEF ReputationInit, PreviewInv, NoPreview, OwnInv, NothingOwn
  <1> QED
    BY <1>3, <1>4, <1>5 DEF BadgeIInv

\* Every step keeps the invariant of the badges.
LEMMA BadgeNextStep ==
    ASSUME BadgeIInv, [ReputationNext]_reputationVars
    PROVE  BadgeIInv'
  <1>1. CASE \E kind \in {"cards", "previews"} : OpenList(kind)
    BY <1>1, OpenListStep
  <1>2. CASE \E exists \in SUBSET Part : OpenOwnProfile(exists)
    BY <1>2, OpenProfileStep
  <1>3. CASE \E c \in Card : UnmountCard(c) \/ \E u \in Player : MountCard(c, u)
    BY <1>3, UnmountStep, MountStep
  <1>4. CASE \E u \in Player : OpenPreview(u) \/ LookupEnds(u) \/ RankEnds(u)
    BY <1>4, PreviewSteps, LookupStep
  <1>5. CASE ClosePreview
    <2>1. PICK u \in Player : TRUE
      <3>1. preview.partner \in Player
        BY <1>5 DEF ClosePreview, PreviewOffers, BadgeIInv, ReputationTypeOK, RankHook, Maybe
      <3> QED
        BY <3>1
    <2> QED
      BY <1>5, <2>1, PreviewSteps
  <1>6. CASE \E p \in Part : OwnAnswered(p) \/ OwnFailed(p)
    BY <1>6, OwnAnsweredStep, OwnFailedStep
  <1>7. CASE UNCHANGED reputationVars
    <2>1. UNCHANGED <<shown, scored, cards, summaryCache, inflight, sentFor, failedFor,
                      preview, own>>
      BY <1>7 DEF reputationVars
    <2> QED
      BY <2>1, PreviewKeeps DEF BadgeIInv, ReputationTypeOK, PreviewInv
  <1> QED
    BY <1>1, <1>2, <1>3, <1>4, <1>5, <1>6, <1>7 DEF ReputationNext

\* The strengthening holds in every reachable state.
THEOREM BadgeInvariance == ReputationSpec => []BadgeIInv
BY BadgeInitStep, BadgeNextStep, PTL DEF ReputationSpec

\* The badges, the lookups and the sections keep their types.
THEOREM ReputationTypes == ReputationSpec => []ReputationTypeOK
<1>1. BadgeIInv => ReputationTypeOK
  BY DEF BadgeIInv
<1> QED
  BY <1>1, BadgeInvariance, PTL

\* A player is looked up once per session, however many cards ask for it and in
\* whatever order they are mounted, answered and unmounted (lib/rank.ts).
THEOREM LookupsShared == ReputationSpec => []LookedUpOnce
<1>1. BadgeIInv => LookedUpOnce
  BY DEF BadgeIInv
<1> QED
  BY <1>1, BadgeInvariance, PTL

\* Nobody that has a summary is called a new player by a badge, and no badge shows
\* the summary of somebody else (useUserHonorSummary, HonorBadge).
THEOREM BadgesHonest == ReputationSpec => []BadgeIsHonest
<1>1. BadgeIInv => BadgeIsHonest
  <2> SUFFICES ASSUME BadgeIInv, NEW c \in Mounted
               PROVE  /\ HonorBadgeSays(cards[c]) = "New player" => cards[c].player \notin scored
                      /\ cards[c].summary \in {None, cards[c].player}
    BY DEF BadgeIsHonest
  <2>1. c \in Card /\ cards[c] # None /\ cards[c] \in HonorHook
    BY DEF Mounted, BadgeIInv, ReputationTypeOK
  <2>2. cards[c].summary \in {None, cards[c].player}
    BY <2>1 DEF BadgeIInv, CardsHonest
  <2>3. ASSUME HonorBadgeSays(cards[c]) = "New player"
        PROVE  cards[c].player \notin scored
    <3>1. cards[c].player \in Player /\ cards[c].isLoading \in BOOLEAN /\ cards[c].error \in BOOLEAN
      BY <2>1 DEF HonorHook
    <3>2. cards[c].player # "New player"
      BY <3>1, PlayerAssumption
    <3>3. cards[c].summary = None /\ ~cards[c].isLoading /\ ~cards[c].error
      BY <2>2, <2>3, <3>1, <3>2 DEF HonorBadgeSays
    <3> QED
      BY <2>1, <3>3 DEF BadgeIInv, CardsHonest
  <2> QED
    BY <2>2, <2>3
<1> QED
  BY <1>1, BadgeInvariance, PTL

\* The preview shows the rank of its own partner, unless two fetches crossed.
THEOREM PreviewsOwn == ReputationSpec => []RankIsPartners
<1>1. BadgeIInv => RankIsPartners
  BY DEF BadgeIInv, PreviewInv, RankIsPartners, RankBadgeSays
<1> QED
  BY <1>1, BadgeInvariance, PTL

\* The three parts of the local rank are shown together or not at all, whichever of
\* their requests fail and in whatever order they end (useHonorSystem).
THEOREM LocalTogether == ReputationSpec => []LocalIsWhole
<1>1. BadgeIInv => LocalIsWhole
  <2> SUFFICES ASSUME BadgeIInv
               PROVE  LocalIsWhole
    OBVIOUS
  <2>1. own.set \cap LocalPart \in {{}, own.exists \cap LocalPart}
    BY DEF BadgeIInv, OwnInv
  <2>2. ASSUME LocalRankSays = {"error"}
        PROVE  own.set \cap LocalPart = {}
    <3>1. CASE "local" \in own.errors
      BY <3>1 DEF BadgeIInv, OwnInv
    <3>2. CASE "local" \notin own.errors
      <4>1. LocalRankSays = {"loading"} \/ LocalRankSays = own.set \cap LocalPart
        BY <3>2 DEF LocalRankSays
      <4>2. "error" \notin {"loading"} /\ "error" \notin LocalPart
        BY DEF LocalPart
      <4> QED
        BY <2>2, <4>1, <4>2
    <3> QED
      BY <3>1, <3>2
  <2> QED
    BY <2>1, <2>2 DEF LocalIsWhole
<1> QED
  BY <1>1, BadgeInvariance, PTL

\* What is said of a player's reputation is true of this player.
THEOREM ReputationsRight == ReputationSpec => []ReputationIsRight
BY LookupsShared, BadgesHonest, PreviewsOwn, LocalTogether, PTL DEF ReputationIsRight
-----------------------------------------------------------------------------
(* The forms.                                                              *)

\* The inductive invariant: the type, a level for every sport that is filled in, a
\* sport for every call that saves one, and preferences that hold at every moment and
\* not only when they are sent.
FormIInv ==
    /\ FormTypeOK
    /\ \A s \in DOMAIN sports : sports[s] \in Level
    /\ \A c \in calls : c.what = "sport" => c.sport \in Sport
    /\ PreferencesValid

\* Where each control is offered.
LEMMA FormOffered ==
    /\ "remove" \in FormOffers => photos > 0
    /\ "decMin" \in FormOffers => wish.ageMin > AGE_MIN_LIMIT
    /\ "incMin" \in FormOffers => wish.ageMin < wish.ageMax
    /\ "decMax" \in FormOffers => wish.ageMax > wish.ageMin
    /\ "incMax" \in FormOffers => wish.ageMax < AGE_MAX_LIMIT
  BY DEF FormOffers, PhotosOffers, PhotoSlotOffers, SubmitOffers, PreferencesOffers,
         AgeRangeOffers, StepperOffers, SportsOffers, SportFieldsOffers, EditOffers,
         SelectOffers, EditPhotosOffers, ReportFormOffers

-----------------------------------------------------------------------------
(* Preferences.                                                            *)

\* Wishes that can be saved.
ValidWish ==
    {w \in Wish : /\ w.ageMin \leq w.ageMax
                  /\ w.openTo # {}
                  /\ "any" \in w.openTo => w.openTo = {"any"}}

\* The preferences on the form are ones that can be saved.
LEMMA WishValid == FormIInv => wish \in ValidWish
  BY DEF FormIInv, FormTypeOK, PreferencesValid, ValidWish

\* A change of the wish that is valid keeps the invariant.
LEMMA WishKeeps ==
    ASSUME FormIInv, wish' \in ValidWish,
           UNCHANGED <<filled, select, sports, levels, reason>>, Edited
    PROVE  FormIInv'
  <1>1. /\ wish' \in Wish
        /\ AGE_MIN_LIMIT \leq wish'.ageMin /\ wish'.ageMin \leq wish'.ageMax
        /\ wish'.ageMax \leq AGE_MAX_LIMIT
        /\ wish'.openTo # {}
        /\ "any" \in wish'.openTo => wish'.openTo = {"any"}
    BY LimitAssumption DEF ValidWish, Wish
  <1>2. FormTypeOK'
    BY <1>1 DEF FormIInv, FormTypeOK, Edited, photoVars, callVars, storeVars, historyVars
  <1>3. PreferencesValid'
    BY <1>1 DEF PreferencesValid
  <1> QED
    BY <1>2, <1>3 DEF FormIInv, Edited, callVars

\* Toggling never leaves nothing, and "any" stays alone.
LEMMA ToggledValid ==
    ASSUME NEW openTo \in SUBSET GenderPreference, NEW g \in GenderPreference,
           openTo # {}, "any" \in openTo => openTo = {"any"}
    PROVE  /\ Toggled(openTo, g) \in SUBSET GenderPreference
           /\ Toggled(openTo, g) # {}
           /\ "any" \in Toggled(openTo, g) => Toggled(openTo, g) = {"any"}
  BY DEF Toggled, GenderPreference

\* The last gender that is looked for cannot be taken away.
LEMMA ToggleStep ==
    ASSUME FormIInv, NEW g \in GenderPreference, ToggleOpenTo(g)
    PROVE  FormIInv'
  <1>1. wish \in ValidWish
    BY WishValid
  <1>2. wish' \in ValidWish
    BY <1>1, ToggledValid DEF ToggleOpenTo, ValidWish, Wish
  <1> QED
    BY <1>2, WishKeeps DEF ToggleOpenTo

\* A handle of the bar stops at the limit and at the other handle.
LEMMA HandleValid ==
    ASSUME wish \in ValidWish, NEW x \in Int, NEW target \in {"min", "max"}
    PROVE  ApplyToHandle(x, target) \in ValidWish
  <1> DEFINE age == Between(AGE_MIN_LIMIT, x, AGE_MAX_LIMIT)
  <1>1. /\ AGE_MIN_LIMIT \in Nat /\ AGE_MAX_LIMIT \in Nat /\ AGE_MIN_LIMIT \leq AGE_MAX_LIMIT
    BY LimitAssumption
  <1>2. /\ wish.ageMin \in AGE_MIN_LIMIT .. AGE_MAX_LIMIT
        /\ wish.ageMax \in AGE_MIN_LIMIT .. AGE_MAX_LIMIT
        /\ wish.ageMin \leq wish.ageMax
    BY DEF ValidWish, Wish
  <1>3. age \in AGE_MIN_LIMIT .. AGE_MAX_LIMIT
    BY <1>1 DEF Between
  <1>4. /\ Between(AGE_MIN_LIMIT, age, wish.ageMax) \in AGE_MIN_LIMIT .. wish.ageMax
        /\ Between(wish.ageMin, age, AGE_MAX_LIMIT) \in wish.ageMin .. AGE_MAX_LIMIT
    BY <1>1, <1>2, <1>3 DEF Between
  <1>5. ASSUME NEW low \in AGE_MIN_LIMIT .. wish.ageMax
        PROVE  [wish EXCEPT !.handle = "min", !.ageMin = low] \in ValidWish
    <2> DEFINE w == [wish EXCEPT !.handle = "min", !.ageMin = low]
    <2>1. low \in AGE_MIN_LIMIT .. AGE_MAX_LIMIT /\ low \leq wish.ageMax
      BY <1>1, <1>2
    <2>2. wish \in Wish /\ wish.openTo # {} /\ ("any" \in wish.openTo => wish.openTo = {"any"})
      BY DEF ValidWish
    <2>3. w \in Wish /\ w.openTo = wish.openTo /\ w.ageMin = low /\ w.ageMax = wish.ageMax
      BY <2>1, <2>2 DEF Wish
    <2> QED
      BY <2>1, <2>2, <2>3 DEF ValidWish
  <1>6. ASSUME NEW high \in wish.ageMin .. AGE_MAX_LIMIT
        PROVE  [wish EXCEPT !.handle = "max", !.ageMax = high] \in ValidWish
    <2> DEFINE w == [wish EXCEPT !.handle = "max", !.ageMax = high]
    <2>1. high \in AGE_MIN_LIMIT .. AGE_MAX_LIMIT /\ wish.ageMin \leq high
      BY <1>1, <1>2
    <2>2. wish \in Wish /\ wish.openTo # {} /\ ("any" \in wish.openTo => wish.openTo = {"any"})
      BY DEF ValidWish
    <2>3. w \in Wish /\ w.openTo = wish.openTo /\ w.ageMin = wish.ageMin /\ w.ageMax = high
      BY <2>1, <2>2 DEF Wish
    <2> QED
      BY <2>1, <2>2, <2>3 DEF ValidWish
  <1>7. CASE target = "min"
    <2>1. ApplyToHandle(x, target) =
            [wish EXCEPT !.handle = "min", !.ageMin = Between(AGE_MIN_LIMIT, age, wish.ageMax)]
      BY <1>7 DEF ApplyToHandle
    <2> HIDE DEF age
    <2> QED
      BY <1>4, <1>5, <2>1
  <1>8. CASE target = "max"
    <2>1. ApplyToHandle(x, target) =
            [wish EXCEPT !.handle = "max", !.ageMax = Between(wish.ageMin, age, AGE_MAX_LIMIT)]
      BY <1>8 DEF ApplyToHandle
    <2> HIDE DEF age
    <2> QED
      BY <1>4, <1>6, <2>1
  <1> QED
    BY <1>7, <1>8

\* A handle stops at the other one.
LEMMA TouchStep ==
    ASSUME FormIInv, NEW x \in AGE_MIN_LIMIT - 1 .. AGE_MAX_LIMIT + 1, TouchBar(x)
    PROVE  FormIInv'
  <1>1. wish \in ValidWish /\ x \in Int
    BY WishValid, LimitAssumption
  <1>2. PickHandle(x) \in {"min", "max"}
    BY DEF PickHandle
  <1>3. wish.handle # None => wish.handle \in {"min", "max"}
    BY <1>1 DEF ValidWish, Wish
  <1>4. [wish EXCEPT !.handle = None] \in ValidWish
    BY <1>1 DEF ValidWish, Wish
  <1>5. wish' \in ValidWish
    BY <1>1, <1>2, <1>3, <1>4, HandleValid DEF TouchBar
  <1> QED
    BY <1>5, WishKeeps DEF TouchBar

\* So does a stepper, which is not offered there.
LEMMA StepAgeStep ==
    ASSUME FormIInv, NEW control \in {"decMin", "incMin", "decMax", "incMax"}, StepAge(control)
    PROVE  FormIInv'
  <1>1. wish \in ValidWish
    BY WishValid
  <1>2. AGE_MIN_LIMIT \in Nat /\ AGE_MAX_LIMIT \in Nat
    BY LimitAssumption
  <1>3. CASE control = "decMin"
    BY <1>1, <1>2, <1>3, FormOffered, WishKeeps DEF StepAge, ValidWish, Wish
  <1>4. CASE control = "incMin"
    BY <1>1, <1>2, <1>4, FormOffered, WishKeeps DEF StepAge, ValidWish, Wish
  <1>5. CASE control = "decMax"
    BY <1>1, <1>2, <1>5, FormOffered, WishKeeps DEF StepAge, ValidWish, Wish
  <1>6. CASE control = "incMax"
    BY <1>1, <1>2, <1>6, FormOffered, WishKeeps DEF StepAge, ValidWish, Wish
  <1> QED
    BY <1>3, <1>4, <1>5, <1>6

-----------------------------------------------------------------------------
(* Photos, text, the Select and sports.                                    *)

\* The photos do not meet the preferences.
LEMMA PhotoSteps ==
    ASSUME FormIInv, PickPhoto \/ PhotoPicked \/ RemovePhoto
                    \/ \E on \in BOOLEAN : SetReplaceMode(on)
    PROVE  FormIInv'
  <1>1. MAX_PHOTOS \in Nat /\ MaxPicks \in Nat
    BY LimitAssumption
  <1>2. /\ UNCHANGED <<textVars, callVars, form>>
        /\ formError' \in BOOLEAN /\ replaceMode' \in BOOLEAN
    BY DEF PickPhoto, PhotoPicked, RemovePhoto, SetReplaceMode, FormIInv, FormTypeOK
  <1>3. photos' \in 0 .. MAX_PHOTOS /\ picks' \in 0 .. MaxPicks
    BY <1>1, FormOffered DEF PickPhoto, PhotoPicked, RemovePhoto, SetReplaceMode, FormIInv, FormTypeOK
  <1> QED
    BY <1>2, <1>3 DEF textVars, callVars, storeVars, historyVars, FormIInv, FormTypeOK, PreferencesValid

\* Nor does what is typed or selected.
LEMMA TextSteps ==
    ASSUME FormIInv, TypeText \/ UseSelect \/ ChooseReason
    PROVE  FormIInv'
  <1>1. /\ UNCHANGED <<wish, sports, levels>> /\ Edited
        /\ filled' \in BOOLEAN /\ reason' \in BOOLEAN
    BY DEF TypeText, UseSelect, ChooseReason, FormIInv, FormTypeOK
  <1>2. select' \in SelectState
    <2>1. select \in SelectState
      BY DEF FormIInv, FormTypeOK
    <2>2. CASE UseSelect
      <3>1. CASE select' \in {[select EXCEPT !.open = TRUE], [select EXCEPT !.open = FALSE]}
        BY <2>1, <3>1 DEF SelectState
      <3>2. ASSUME NEW found \in SUBSET Suburb, select' = [select EXCEPT !.matching = found]
            PROVE  select' \in SelectState
        BY <2>1, <3>2 DEF SelectState
      <3>3. ASSUME NEW x \in select.matching,
                   select' = [open |-> FALSE, matching |-> Suburb, value |-> x]
            PROVE  select' \in SelectState
        BY <2>1, <3>3 DEF SelectState
      <3> QED
        BY <2>2, <3>1, <3>2, <3>3 DEF UseSelect
    <2>3. CASE TypeText \/ ChooseReason
      BY <2>1, <2>3 DEF TypeText, ChooseReason
    <2> QED
      BY <2>2, <2>3
  <1> QED
    BY <1>1, <1>2 DEF Edited, photoVars, callVars, storeVars, historyVars, FormIInv,
           FormTypeOK, PreferencesValid

\* A sport that is picked has a level.
LEMMA SportSteps ==
    ASSUME FormIInv, NEW s \in Sport, NEW level \in Level,
           ToggleSport(s) \/ UpdateSportState(s, level)
    PROVE  FormIInv'
  <1>1. /\ UNCHANGED <<filled, select, wish, reason>> /\ Edited
    BY DEF ToggleSport, UpdateSportState
  <1>2. levels' \in [Sport -> Level]
    BY DEF ToggleSport, UpdateSportState, FormIInv, FormTypeOK
  <1>3. PICK on \in SUBSET Sport : sports' = Selected(on, levels')
    <2>1. DOMAIN sports \subseteq Sport
      BY DEF FormIInv, FormTypeOK
    <2>2. CASE ToggleSport(s)
      BY <2>1, <2>2 DEF ToggleSport
    <2>3. CASE UpdateSportState(s, level)
      BY <2>1, <2>3 DEF UpdateSportState
    <2> QED
      BY <2>2, <2>3
  <1>4. DOMAIN sports' \subseteq Sport /\ \A x \in DOMAIN sports' : sports'[x] \in Level
    BY <1>2, <1>3 DEF Selected
  <1> QED
    BY <1>1, <1>2, <1>4 DEF Edited, photoVars, callVars, storeVars, historyVars, FormIInv,
           FormTypeOK, PreferencesValid

\* A form opens with valid preferences.
LEMMA OpenStep ==
    ASSUME FormIInv, NEW f \in Form, OpenForm(f)
    PROVE  FormIInv'
  <1>1. UNCHANGED <<picks, replaceMode, wish, sports, levels, reason, attempt, isSubmitting, calls,
                    submitted, photoUris, stored, historyVars, formError>>
    BY DEF OpenForm
  <1>2. form' \in Form /\ filled' \in BOOLEAN /\ named' \in BOOLEAN
    BY DEF OpenForm
  <1>3. select' \in SelectState
    BY DEF OpenForm, FormIInv, FormTypeOK, SelectState
  <1>4. photos' \in 0 .. MAX_PHOTOS
    BY LimitAssumption DEF OpenForm
  <1> QED
    BY <1>1, <1>2, <1>3, <1>4 DEF historyVars, FormIInv, FormTypeOK, PreferencesValid

-----------------------------------------------------------------------------
(* Calls.                                                                  *)

\* The first calls of an attempt are ones the server knows.
LEMMA FirstCallsTyped ==
    ASSUME FormIInv, attempt' \in 1 .. MaxAttempts
    PROVE  /\ FirstCalls \subseteq FormCall
           /\ \A c \in FirstCalls : c.what = "sport" => c.sport \in Sport
  <1>1. ASSUME NEW what \in {"upload", "profile", "show", "preferences", "sport", "report"}
        PROVE  Call(what) \in FormCall
    BY DEF Call, FormCall, FormIInv, FormTypeOK
  <1>2. ASSUME NEW s \in DOMAIN sports
        PROVE  [Call("sport") EXCEPT !.sport = s, !.level = sports[s]] \in FormCall
    BY <1>1 DEF FormCall, FormIInv, FormTypeOK
  <1>3. /\ \A what : Call(what).what = what
        /\ \A s \in DOMAIN sports :
              [Call("sport") EXCEPT !.sport = s, !.level = sports[s]].sport \in Sport
    BY DEF Call, FormIInv, FormTypeOK
  <1> QED
    BY <1>1, <1>2, <1>3 DEF FirstCalls

\* Sending changes no field.
LEMMA SubmitStep ==
    ASSUME FormIInv, Submit
    PROVE  FormIInv'
  <1>1. UNCHANGED <<form, textVars, photoVars, submitted, storeVars, stored, savedBy, outrun, unheard>>
    BY DEF Submit
  <1>2. CASE DraftValid
    <2>1. attempt' \in 1 .. MaxAttempts
      BY <1>2, LimitAssumption DEF Submit, FormIInv, FormTypeOK
    <2>2. /\ calls' \subseteq FormCall /\ attempt' \in 0 .. MaxAttempts
          /\ \A c \in calls' : c.what = "sport" => c.sport \in Sport
      BY <1>2, <2>1, FirstCallsTyped DEF Submit, FormIInv, FormTypeOK
    <2>3. DOMAIN sent' \subseteq Sport /\ isSubmitting' \in BOOLEAN /\ formError' \in BOOLEAN
      BY <1>2 DEF Submit, FormIInv, FormTypeOK
    <2> QED
      BY <1>1, <2>2, <2>3 DEF textVars, photoVars, storeVars, FormIInv, FormTypeOK, PreferencesValid
  <1>3. CASE ~DraftValid
    <2>1. UNCHANGED <<attempt, isSubmitting, calls, sent>> /\ formError' \in BOOLEAN
      BY <1>3 DEF Submit
    <2> QED
      BY <1>1, <2>1 DEF textVars, photoVars, storeVars, FormIInv, FormTypeOK, PreferencesValid
  <1> QED
    BY <1>2, <1>3

\* Nor do the answers, but for the photos.
LEMMA CallSteps ==
    ASSUME FormIInv, FormCallEnds
    PROVE  FormIInv'
  <1>1. PICK c \in calls : CallServed(c) \/ CallAnsweredForm(c) \/ CallFailedForm(c)
    BY DEF FormCallEnds
  <1>2. c \in FormCall /\ c.attempt \in PhotoSet /\ c.attempt \in 0 .. MaxAttempts
    <2>1. c \in FormCall
      BY DEF FormIInv, FormTypeOK
    <2>2. c.attempt \in 1 .. MaxAttempts
      BY <2>1 DEF FormCall
    <2> QED
      BY <2>1, <2>2, LimitAssumption DEF PhotoSet
  <1>3. NextCall(c) \subseteq FormCall /\ [c EXCEPT !.done = TRUE] \in FormCall
    <2>1. /\ [c EXCEPT !.done = TRUE] \in FormCall
          /\ [c EXCEPT !.what = "profile", !.done = FALSE] \in FormCall
          /\ [c EXCEPT !.what = "show", !.done = FALSE] \in FormCall
      BY <1>2 DEF FormCall
    <2> QED
      BY <2>1 DEF NextCall
  <1>4. /\ calls' \subseteq FormCall
        /\ \A d \in calls' : d.what = "sport" => d.sport \in Sport
    <2>1. /\ [c EXCEPT !.done = TRUE].what = c.what /\ [c EXCEPT !.done = TRUE].sport = c.sport
          /\ \A d \in NextCall(c) : d.what # "sport"
      BY <1>2 DEF FormCall, NextCall
    <2> QED
      BY <1>1, <1>3, <2>1 DEF CallServed, CallAnsweredForm, CallFailedForm, FormIInv, FormTypeOK
  <1>5. stored' \in Stored
    BY <1>1, <1>2 DEF CallServed, CallAnsweredForm, CallFailedForm, FormIInv, FormTypeOK,
           Stored, FormCall
  <1>6. photoUris' \in PhotoSet
    BY <1>1, <1>2 DEF CallServed, CallAnsweredForm, CallFailedForm, UrisAfter, storeVars,
           FormIInv, FormTypeOK, Stored
  <1>7. /\ form' \in Form \cup {None, "left"} /\ isSubmitting' \in BOOLEAN
        /\ submitted' \in 0 .. MaxAttempts /\ formError' \in BOOLEAN
        /\ UNCHANGED <<textVars, photoVars, attempt, sent, named>>
    BY <1>1, <1>2 DEF CallServed, CallAnsweredForm, CallFailedForm, storeVars, historyVars, FormIInv,
                      FormTypeOK
  <1>8. /\ savedBy' \in [Sport -> 0 .. MaxAttempts]
        /\ outrun' \in SUBSET Sport
        /\ unheard' \in SUBSET (1 .. MaxAttempts)
    <2>1. /\ savedBy \in [Sport -> 0 .. MaxAttempts] /\ outrun \in SUBSET Sport
          /\ unheard \in SUBSET (1 .. MaxAttempts) /\ c.attempt \in 1 .. MaxAttempts
          /\ c.what = "sport" => c.sport \in Sport
      BY <1>2 DEF FormIInv, FormTypeOK, FormCall
    <2>2. CASE CallServed(c)
      BY <2>1, <2>2 DEF CallServed
    <2>3. CASE CallAnsweredForm(c)
      BY <2>1, <2>3 DEF CallAnsweredForm, historyVars
    <2>4. CASE CallFailedForm(c)
      BY <2>1, <2>4 DEF CallFailedForm
    <2> QED
      BY <1>1, <2>2, <2>3, <2>4
  <1> QED
    BY <1>4, <1>5, <1>6, <1>7, <1>8 DEF textVars, photoVars, FormIInv, FormTypeOK, PreferencesValid

-----------------------------------------------------------------------------
(* The theorems.                                                           *)

\* At first no form is open.
LEMMA FormInitStep == FormInit => FormIInv
  <1> SUFFICES ASSUME FormInit
               PROVE  FormIInv
    OBVIOUS
  <1>1. /\ AGE_MIN_LIMIT \in Nat /\ DEFAULT_AGE_MAX \in Nat /\ AGE_MAX_LIMIT \in Nat
        /\ AGE_MIN_LIMIT \leq DEFAULT_AGE_MAX /\ DEFAULT_AGE_MAX \leq AGE_MAX_LIMIT
        /\ MAX_PHOTOS \in Nat /\ MaxPicks \in Nat /\ MaxAttempts \in Nat
        /\ DEFAULT_LEVEL \in Level
    BY LimitAssumption
  <1>2. wish \in Wish /\ PreferencesValid
    BY <1>1 DEF FormInit, DefaultWish, Wish, GenderPreference, PreferencesValid
  <1>3. DOMAIN sports = {} /\ DOMAIN sent = {} /\ levels \in [Sport -> Level]
    BY <1>1 DEF FormInit, NoSports
  <1>4. stored \in Stored /\ photoUris \in PhotoSet
    BY <1>1 DEF FormInit, Stored, PhotoSet
  <1>5. select \in SelectState
    BY DEF FormInit, SelectState
  <1>6. /\ photos \in 0 .. MAX_PHOTOS /\ picks \in 0 .. MaxPicks
        /\ attempt \in 0 .. MaxAttempts /\ submitted \in 0 .. MaxAttempts
    BY <1>1 DEF FormInit
  <1>7. /\ form \in Form \cup {None, "left"}
        /\ replaceMode \in BOOLEAN /\ filled \in BOOLEAN /\ reason \in BOOLEAN
        /\ isSubmitting \in BOOLEAN /\ formError \in BOOLEAN /\ named \in BOOLEAN
        /\ calls = {} /\ outrun = {} /\ unheard = {}
    BY DEF FormInit
  <1>8. savedBy \in [Sport -> 0 .. MaxAttempts]
    <2>1. 0 \in 0 .. MaxAttempts
      BY <1>1
    <2> QED
      BY <2>1 DEF FormInit
  <1>9. calls \in SUBSET FormCall /\ unheard \in SUBSET (1 .. MaxAttempts)
    BY <1>7
  <1> QED
    BY <1>2, <1>3, <1>4, <1>5, <1>6, <1>7, <1>8, <1>9 DEF FormIInv, FormTypeOK

\* Every step keeps the invariant of the forms.
LEMMA FormNextStep ==
    ASSUME FormIInv, [FormNext]_formVars
    PROVE  FormIInv'
  <1>1. CASE \E f \in Form : OpenForm(f)
    BY <1>1, OpenStep
  <1>2. CASE PickPhoto \/ PhotoPicked \/ RemovePhoto \/ \E on \in BOOLEAN : SetReplaceMode(on)
    BY <1>2, PhotoSteps
  <1>3. CASE TypeText \/ UseSelect \/ ChooseReason
    BY <1>3, TextSteps
  <1>4. CASE \E g \in GenderPreference : ToggleOpenTo(g)
    BY <1>4, ToggleStep
  <1>5. CASE \E x \in AGE_MIN_LIMIT - 1 .. AGE_MAX_LIMIT + 1 : TouchBar(x)
    BY <1>5, TouchStep
  <1>6. CASE \E control \in {"decMin", "incMin", "decMax", "incMax"} : StepAge(control)
    BY <1>6, StepAgeStep
  <1>7. CASE \E s \in Sport : ToggleSport(s) \/ \E level \in Level : UpdateSportState(s, level)
    <2>1. DEFAULT_LEVEL \in Level
      BY LimitAssumption
    <2> QED
      BY <1>7, <2>1, SportSteps
  <1>8. CASE Submit
    BY <1>8, SubmitStep
  <1>9. CASE FormCallEnds
    BY <1>9, CallSteps
  <1>10. CASE LeaveForm
    BY <1>10 DEF LeaveForm, textVars, photoVars, callVars, storeVars, historyVars, FormIInv,
           FormTypeOK, PreferencesValid
  <1>11. CASE UNCHANGED formVars
    BY <1>11 DEF formVars, textVars, photoVars, callVars, storeVars, historyVars, FormIInv,
           FormTypeOK, PreferencesValid
  <1> QED
    BY <1>1, <1>2, <1>3, <1>4, <1>5, <1>6, <1>7, <1>8, <1>9, <1>10, <1>11 DEF FormNext

\* The strengthening holds in every reachable state.
THEOREM FormInvariance == FormSpec => []FormIInv
BY FormInitStep, FormNextStep, PTL DEF FormSpec

\* Types; in particular no set of photos is ever larger than the limit, however
\* many pickers are open at the same time.
THEOREM FormTypes == FormSpec => []FormTypeOK
<1>1. FormIInv => FormTypeOK
  BY DEF FormIInv
<1> QED
  BY <1>1, FormInvariance, PTL

\* The preferences on the screen can always be saved: the ages are in order and
\* within the limits, something is chosen, and "any" stands alone.
THEOREM PreferencesSound == FormSpec => []PreferencesValid
<1>1. FormIInv => PreferencesValid
  BY DEF FormIInv
<1> QED
  BY <1>1, FormInvariance, PTL
-----------------------------------------------------------------------------
(* The calls of a form.                                                    *)

\* Only the calls for the sports may outlive their attempt; any other call is alone,
\* and waited for.  An attempt that was carried through has left none.
AttemptInv ==
    /\ \A c \in calls : c.attempt \leq attempt
    /\ \A c \in calls : c.what # "sport" =>
          isSubmitting /\ c.attempt = attempt /\ \A d \in calls : d = c
    /\ \A c \in calls : c.what = "sport" => form \in {"sports", "left"}
    /\ \A c \in calls : c.what = "report" => form \in {"report", "left"}
    /\ form = "report" => \A c \in calls : c.what = "report"
    /\ submitted # 0 =>
          /\ submitted = attempt /\ ~isSubmitting /\ form \in {"report", "left"}
          /\ \A c \in calls : c.attempt # attempt
    /\ form = None => calls = {} /\ submitted = 0 /\ unheard = {} /\ stored.reports = 0

\* The attempt that is waited for has not lost an answer yet.
HeardInv ==
    /\ \A x \in unheard : x \leq attempt
    /\ isSubmitting => attempt \notin unheard

\* The photos that are shown follow the uploads, unless an answer was lost.
UploadInv ==
    /\ \A c \in calls : c.what = "upload" /\ c.done => stored.photos = c.attempt
    /\ (\A c \in calls : c.what = "upload" => ~c.done) =>
          photoUris = stored.photos \/ stored.photos \in unheard

\* A sport that the last attempt saved is as it was sent, unless an earlier call came
\* after it; and each sport of the attempt that is waited for is saved, or is about to be.
SportInv ==
    /\ form \notin {"sports", "left"} => DOMAIN sports = {} /\ DOMAIN sent = {}
    /\ \A s \in Sport : savedBy[s] \leq attempt
    /\ \A c \in calls : c.what = "sport" /\ c.attempt = attempt =>
          c.sport \in DOMAIN sent /\ c.level = sent[c.sport]
    /\ \A s \in DOMAIN sent :
          savedBy[s] = attempt /\ s \notin outrun => stored.sports[s] = sent[s]
    /\ isSubmitting \/ submitted # 0 =>
          \A s \in DOMAIN sent :
             \/ savedBy[s] = attempt
             \/ \E c \in calls : c.what = "sport" /\ c.sport = s /\ c.attempt = attempt /\ ~c.done

\* The server has one report for each answer that was lost, and one that is on its way
\* back or has been answered.
Reported == submitted # 0 \/ \E c \in calls : c.what = "report" /\ c.done
ReportInv ==
    /\ form \notin {"report", "left"} => stored.reports = 0
    /\ stored.reports \leq Cardinality(unheard) + 1
    /\ (\E c \in calls : c.what = "report" /\ ~c.done) => stored.reports \leq Cardinality(unheard)
    /\ form = "report" =>
          stored.reports = Cardinality(unheard) + (IF Reported THEN 1 ELSE 0)

SavedInv == AttemptInv /\ HeardInv /\ UploadInv /\ SportInv /\ ReportInv

\* How many answers were lost.
LEMMA Unheard ==
    ASSUME FormIInv
    PROVE  /\ Cardinality(unheard) \in Nat
           /\ \A x : Cardinality(unheard \cup {x}) =
                        IF x \in unheard THEN Cardinality(unheard) ELSE Cardinality(unheard) + 1
  <1>1. MaxAttempts \in Int /\ 1 \in Int
    BY LimitAssumption
  <1>2. IsFiniteSet(unheard)
    <2>1. unheard \in SUBSET (1 .. MaxAttempts)
      BY DEF FormIInv, FormTypeOK
    <2>2. IsFiniteSet(1 .. MaxAttempts)
      BY <1>1, FS_Interval
    <2> QED
      BY <2>1, <2>2, FS_Subset
  <1> QED
    BY <1>2, FS_CardinalityType, FS_AddElement

\* What does not touch the calls, and leaves the sports alone or is of their form.
LEMMA SavedKeeps ==
    ASSUME FormIInv, SavedInv,
           UNCHANGED <<attempt, isSubmitting, calls, submitted, photoUris, stored, historyVars>>,
           form' = form \/ form' = "left" \/ form = None,
           sports' = sports \/ form = "sports", form' # None
    PROVE  SavedInv'
  <1>1. UNCHANGED <<attempt, isSubmitting, calls, sent, submitted, photoUris, stored, savedBy, outrun,
                    unheard>>
    BY DEF historyVars
  <1>2. AttemptInv'
    BY <1>1, NoFormAssumption DEF AllForms, SavedInv, AttemptInv
  <1>3. HeardInv' /\ UploadInv'
    BY <1>1 DEF SavedInv, HeardInv, UploadInv
  <1>4. SportInv'
    BY <1>1, NoFormAssumption DEF AllForms, SavedInv, SportInv
  <1>5. ReportInv'
    <2>1. CASE form' = form \/ form' = "left"
      BY <1>1, <2>1 DEF SavedInv, ReportInv, Reported
    <2>2. CASE form = None
      <3>1. calls = {} /\ submitted = 0 /\ unheard = {} /\ stored.reports = 0
        BY <2>2 DEF SavedInv, AttemptInv
      <3>2. Cardinality(unheard) = 0
        BY <3>1, FS_EmptySet
      <3> QED
        BY <1>1, <3>1, <3>2 DEF ReportInv, Reported
    <2> QED
      BY <2>1, <2>2
  <1> QED
    BY <1>2, <1>3, <1>4, <1>5 DEF SavedInv

\* What touches neither the form, nor its sports, nor the calls.
LEMMA SavedStays ==
    ASSUME SavedInv, UNCHANGED <<callVars, form, sports>>
    PROVE  SavedInv'
  <1>1. UNCHANGED <<attempt, isSubmitting, calls, sent, submitted, photoUris, stored, savedBy, outrun,
                    unheard>>
    BY DEF callVars, storeVars, historyVars
  <1> QED
    BY <1>1 DEF SavedInv, AttemptInv, HeardInv, UploadInv, SportInv, ReportInv, Reported

\* Which form offers what the calls and the sports depend on.
LEMMA SubmitOffered ==
    /\ "submit" \in FormOffers => /\ form \in AllForms /\ ~isSubmitting
                                  /\ form = "report" => submitted = 0
    /\ "sport" \in FormOffers \/ "fields" \in FormOffers => form = "sports"
  BY DEF AllForms, FormOffers, PhotosOffers, PhotoSlotOffers, SubmitOffers, PreferencesOffers,
         AgeRangeOffers, StepperOffers, SportsOffers, SportFieldsOffers, EditOffers,
         SelectOffers, EditPhotosOffers, ReportFormOffers

\* What the first calls of an attempt say.
SportCall(s) == [Call("sport") EXCEPT !.sport = s, !.level = sports[s]]

\* What a new call is.
LEMMA CallsSay ==
    /\ \A what \in {"upload", "profile", "preferences", "report"} :
          /\ Call(what).what = what /\ Call(what).attempt = attempt'
          /\ Call(what).done = FALSE
    /\ \A s : /\ SportCall(s).what = "sport" /\ SportCall(s).attempt = attempt'
             /\ SportCall(s).done = FALSE
             /\ SportCall(s).sport = s /\ SportCall(s).level = sports[s]
  BY DEF Call, SportCall

\* The calls that Submit sends are of a new attempt, and what they will save is on the
\* form.
LEMMA SavedSubmit ==
    ASSUME FormIInv, SavedInv, Submit
    PROVE  SavedInv'
  <1>1. /\ form \in AllForms /\ form # None /\ ~isSubmitting /\ submitted = 0
        /\ UNCHANGED <<form, sports, submitted, photoUris, stored, savedBy, outrun, unheard>>
    BY SubmitOffered, NoFormAssumption
       DEF Submit, textVars, storeVars, SavedInv, AttemptInv, AllForms
  <1>2. CASE ~DraftValid
    <2>1. UNCHANGED <<attempt, isSubmitting, calls, submitted, photoUris, stored, historyVars>>
      BY <1>1, <1>2 DEF Submit, historyVars
    <2> QED
      BY <1>1, <2>1, SavedKeeps
  <1>3. CASE DraftValid
    <2>1. /\ attempt' = attempt + 1 /\ isSubmitting' = TRUE /\ sent' = sports
          /\ calls' = calls \cup FirstCalls
          /\ attempt \in Nat /\ \A c \in calls : c.attempt \in Nat
      <3>1. attempt \in Nat /\ \A c \in calls : c \in FormCall
        BY DEF FormIInv, FormTypeOK
      <3>2. \A c \in calls : c.attempt \in Nat
        BY <3>1 DEF FormCall
      <3> QED
        BY <1>3, <3>1, <3>2 DEF Submit
    <2>2. /\ \A c \in calls : c.what = "sport" /\ c.attempt \leq attempt /\ c.attempt # attempt'
          /\ form # "sports" => calls = {}
      <3>1. \A c \in calls : c.what = "sport" /\ c.attempt \leq attempt
        BY <1>1 DEF SavedInv, AttemptInv
      <3>2. form # "sports" => calls = {}
        BY <1>1, <3>1 DEF SavedInv, AttemptInv, AllForms
      <3> QED
        BY <2>1, <3>1, <3>2
    <2>3. /\ form = "sports" => FirstCalls = {SportCall(x) : x \in DOMAIN sports}
          /\ form # "sports" =>
                \E what \in {"upload", "profile", "preferences", "report"} :
                      FirstCalls = {Call(what)} /\ (what = "report" <=> form = "report")
      BY <1>1 DEF FirstCalls, AllForms, SportCall
    <2>4. /\ \A c \in FirstCalls : c.attempt = attempt' /\ c.done = FALSE
          /\ form = "sports" \/ \A c, d \in FirstCalls : c = d
          /\ \A c \in FirstCalls : c.what = "report" <=> form = "report"
          /\ \A c \in FirstCalls : c.what = "sport" <=> form = "sports"
      <3>1. CASE form = "sports"
        BY <2>3, <3>1, CallsSay
      <3>2. CASE form # "sports"
        <4>1. PICK what \in {"upload", "profile", "preferences", "report"} :
                 FirstCalls = {Call(what)} /\ (what = "report" <=> form = "report")
          BY <2>3, <3>2
        <4>2. /\ Call(what).what = what /\ Call(what).attempt = attempt'
              /\ Call(what).done = FALSE
          BY CallsSay
        <4> QED
          BY <3>2, <4>1, <4>2
      <3> QED
        BY <3>1, <3>2
    <2>5. AttemptInv'
      BY <1>1, <2>1, <2>2, <2>4 DEF AttemptInv
    <2>6. HeardInv'
      <3>1. \A x \in unheard : x \in Nat
        BY DEF FormIInv, FormTypeOK
      <3> QED
        BY <1>1, <2>1, <3>1 DEF SavedInv, HeardInv
    <2>7. UploadInv'
      BY <1>1, <2>1, <2>2, <2>4 DEF SavedInv, UploadInv
    <2>8. SportInv'
      <3>1. /\ \A s \in Sport : savedBy[s] \in Nat /\ savedBy[s] \leq attempt
            /\ DOMAIN sports \subseteq Sport
        BY DEF SavedInv, SportInv, FormIInv, FormTypeOK
      <3>2. \A s \in Sport : savedBy'[s] \leq attempt' /\ savedBy'[s] # attempt'
        BY <1>1, <2>1, <3>1
      <3>3. form' \notin {"sports", "left"} => DOMAIN sports' = {} /\ DOMAIN sent' = {}
        BY <1>1, <2>1 DEF SavedInv, SportInv
      <3>4. \A c \in calls' : c.what = "sport" /\ c.attempt = attempt' =>
               c.sport \in DOMAIN sent' /\ c.level = sent'[c.sport]
        BY <2>1, <2>2, <2>3, <2>4, CallsSay
      <3>5. \A s \in DOMAIN sent' :
               \E c \in calls' : c.what = "sport" /\ c.sport = s /\ c.attempt = attempt' /\ ~c.done
        <4>1. CASE form = "sports"
          BY <2>1, <2>3, <4>1, CallsSay
        <4>2. CASE form # "sports"
          BY <1>1, <2>1, <3>3, <4>2 DEF AllForms, SavedInv, SportInv
        <4> QED
          BY <4>1, <4>2
      <3> QED
        BY <2>1, <3>1, <3>2, <3>3, <3>4, <3>5 DEF SportInv
    <2>9. ReportInv'
      <3>1. \A c \in calls' : c.what = "report" => form = "report" /\ ~c.done
        BY <2>1, <2>2, <2>4
      <3>2. form = "report" => stored.reports = Cardinality(unheard)
        BY <1>1, <2>2, Unheard DEF SavedInv, ReportInv, Reported
      <3>3. Cardinality(unheard) \in Nat
        BY Unheard
      <3> QED
        BY <1>1, <3>1, <3>2, <3>3 DEF SavedInv, ReportInv, Reported
    <2> QED
      BY <2>5, <2>6, <2>7, <2>8, <2>9 DEF SavedInv
  <1> QED
    BY <1>2, <1>3

\* The server stores what the call says.
LEMMA SavedServed ==
    ASSUME FormIInv, SavedInv, NEW c \in calls, CallServed(c)
    PROVE  SavedInv'
  <1> DEFINE e == [c EXCEPT !.done = TRUE]
  <1>1. /\ c \in FormCall /\ stored \in Stored /\ ~c.done
        /\ calls' = (calls \ {c}) \cup {e}
        /\ UNCHANGED <<form, sports, attempt, isSubmitting, sent, submitted, photoUris, unheard>>
    BY DEF CallServed, textVars, storeVars, FormIInv, FormTypeOK
  <1>2. /\ e.what = c.what /\ e.attempt = c.attempt /\ e.sport = c.sport /\ e.level = c.level
        /\ e.done = TRUE
    BY <1>1 DEF FormCall
  <1> HIDE DEF e
  <1>3. /\ stored'.photos = IF c.what = "upload" THEN c.attempt ELSE stored.photos
        /\ stored'.reports = IF c.what = "report" THEN stored.reports + 1 ELSE stored.reports
        /\ stored.reports \in Nat
    BY <1>1 DEF CallServed, Stored
  <1>4. \A s \in Sport : stored'.sports[s] = IF c.what = "sport" /\ s = c.sport THEN c.level
                                             ELSE stored.sports[s]
    BY <1>1 DEF CallServed, Stored
  <1>5. AttemptInv'
    <2>1. form # None
      BY DEF SavedInv, AttemptInv
    <2> QED
      BY <1>1, <1>2, <2>1 DEF SavedInv, AttemptInv
  <1>6. HeardInv' /\ UploadInv'
    <2>1. HeardInv'
      BY <1>1 DEF SavedInv, HeardInv
    <2>2. CASE c.what = "upload"
      <3>1. \A d \in calls : d = c
        BY <2>2 DEF SavedInv, AttemptInv
      <3> QED
        BY <1>1, <1>2, <1>3, <2>1, <2>2, <3>1 DEF UploadInv
    <2>3. CASE c.what # "upload"
      BY <1>1, <1>2, <1>3, <2>1, <2>3 DEF SavedInv, UploadInv
    <2> QED
      BY <2>2, <2>3
  <1>7. SportInv'
    <2>1. /\ DOMAIN sent \subseteq Sport /\ c.attempt \in Nat /\ attempt \in Nat
          /\ c.attempt \leq attempt
          /\ c.what = "sport" => c.sport \in Sport
          /\ \A s \in Sport : savedBy[s] \in Nat /\ savedBy[s] \leq attempt
      BY <1>1 DEF FormIInv, FormTypeOK, FormCall, SavedInv, AttemptInv, SportInv
    <2>2. \A s \in Sport :
             savedBy'[s] = IF c.what = "sport" /\ s = c.sport /\ savedBy[s] < c.attempt THEN c.attempt
                           ELSE savedBy[s]
      BY DEF CallServed, FormIInv, FormTypeOK
    <2>3. \A s \in Sport :
             s \in outrun' <=> IF c.what = "sport" /\ s = c.sport THEN c.attempt < savedBy[s]
                               ELSE s \in outrun
      BY <2>1 DEF CallServed
    <2>4. ASSUME NEW s \in DOMAIN sent, savedBy'[s] = attempt, s \notin outrun'
          PROVE  stored'.sports[s] = sent[s]
      <3>1. CASE c.what = "sport" /\ s = c.sport
        <4>1. c.attempt = attempt
          BY <2>1, <2>2, <2>3, <2>4, <3>1
        <4> QED
          BY <1>4, <2>1, <3>1, <4>1 DEF SavedInv, SportInv
      <3>2. CASE ~(c.what = "sport" /\ s = c.sport)
        BY <1>4, <2>1, <2>2, <2>3, <2>4, <3>2 DEF SavedInv, SportInv
      <3> QED
        BY <3>1, <3>2
    <2>5. ASSUME isSubmitting \/ submitted # 0, NEW s \in DOMAIN sent
          PROVE  \/ savedBy'[s] = attempt
                 \/ \E d \in calls' : d.what = "sport" /\ d.sport = s /\ d.attempt = attempt /\ ~d.done
      <3>1. CASE savedBy[s] = attempt
        BY <2>1, <2>2, <3>1
      <3>2. CASE savedBy[s] # attempt
        <4>1. PICK d \in calls : d.what = "sport" /\ d.sport = s /\ d.attempt = attempt /\ ~d.done
          BY <2>5, <3>2 DEF SavedInv, SportInv
        <4>2. CASE d = c
          BY <2>1, <2>2, <3>2, <4>1, <4>2
        <4>3. CASE d # c
          BY <1>1, <4>1, <4>3
        <4> QED
          BY <4>2, <4>3
      <3> QED
        BY <3>1, <3>2
    <2>6. \A s \in Sport : savedBy'[s] \leq attempt
      BY <2>1, <2>2
    <2>7. \A d \in calls' : d.what = "sport" /\ d.attempt = attempt =>
             d.sport \in DOMAIN sent /\ d.level = sent[d.sport]
      BY <1>1, <1>2 DEF SavedInv, SportInv
    <2>8. form \notin {"sports", "left"} => DOMAIN sports = {} /\ DOMAIN sent = {}
      BY DEF SavedInv, SportInv
    <2> QED
      BY <1>1, <2>4, <2>5, <2>6, <2>7, <2>8 DEF SportInv
  <1>8. ReportInv'
    <2>1. Cardinality(unheard) \in Nat
      BY Unheard
    <2>2. CASE c.what = "report"
      <3>1. /\ \A d \in calls : d = c
            /\ form \in {"report", "left"} /\ isSubmitting
        BY <2>2 DEF SavedInv, AttemptInv
      <3>2. stored.reports \leq Cardinality(unheard) /\ submitted = 0
        BY <1>1, <2>2, <3>1 DEF SavedInv, AttemptInv, ReportInv
      <3>3. form = "report" => stored.reports = Cardinality(unheard)
        BY <1>1, <2>1, <3>1, <3>2 DEF SavedInv, ReportInv, Reported
      <3>4. e \in calls' /\ \A d \in calls' : d = e
        BY <1>1, <3>1
      <3>5. (form = "report")' => Reported'
        BY <1>2, <2>2, <3>4 DEF Reported
      <3>6. stored'.reports = stored.reports + 1 /\ UNCHANGED <<form, unheard>>
        BY <1>1, <1>3, <2>2
      <3>7. stored'.reports \leq Cardinality(unheard) + 1
        BY <1>3, <2>1, <3>2, <3>6
      <3>8. ~\E d \in calls' : d.what = "report" /\ ~d.done
        BY <1>2, <3>4
      <3>9. form = "report" => stored'.reports = Cardinality(unheard) + 1
        BY <3>3, <3>6
      <3> QED
        BY <3>1, <3>5, <3>6, <3>7, <3>8, <3>9 DEF ReportInv
    <2>3. CASE c.what # "report"
      <3>1. Reported' <=> Reported
        BY <1>1, <1>2, <2>3 DEF Reported
      <3>2. (\E d \in calls' : d.what = "report" /\ ~d.done)
               => \E d \in calls : d.what = "report" /\ ~d.done
        BY <1>1, <1>2, <2>3
      <3> QED
        BY <1>1, <1>3, <2>3, <3>1, <3>2 DEF SavedInv, ReportInv
    <2> QED
      BY <2>2, <2>3
  <1> QED
    BY <1>5, <1>6, <1>7, <1>8 DEF SavedInv

\* An answer sends the next call of the same attempt, or ends it with nothing left.
LEMMA SavedAnswered ==
    ASSUME FormIInv, SavedInv, NEW c \in calls, CallAnsweredForm(c)
    PROVE  SavedInv'
  <1>1. /\ c \in FormCall /\ c.done /\ c.attempt # 0 /\ form # None
        /\ calls' = (calls \ {c}) \cup NextCall(c) /\ photoUris' = UrisAfter(c)
        /\ UNCHANGED <<sports, attempt, sent, stored, savedBy, outrun, unheard>>
    <2>1. c \in FormCall
      BY DEF FormIInv, FormTypeOK
    <2>2. c.attempt # 0
      BY <2>1, LimitAssumption DEF FormCall
    <2>3. form # None
      BY DEF SavedInv, AttemptInv
    <2> QED
      BY <2>1, <2>2, <2>3 DEF CallAnsweredForm, textVars, historyVars
  <1>2. /\ \A d \in NextCall(c) : d.attempt = c.attempt /\ d.what \in {"profile", "show"}
        /\ \A d, x \in NextCall(c) : d = x
        /\ NextCall(c) # {} => c.what # "sport" /\ c.what # "report"
        /\ c.what = "upload" => NextCall(c) # {}
    BY <1>1 DEF NextCall, FormCall
  <1>3. IF CarriedThrough(c)
        THEN isSubmitting' = FALSE /\ submitted' = c.attempt /\ form' \in {"report", "left"}
             /\ (form = "report" \/ form' = "left") /\ (form = "report" => form' = "report")
        ELSE UNCHANGED <<isSubmitting, submitted, form>>
    BY DEF CallAnsweredForm
  <1>4. CarriedThrough(c) =>
           /\ isSubmitting /\ c.attempt = attempt /\ NextCall(c) = {}
           /\ \A d \in calls' : d.attempt # attempt
    BY <1>1 DEF CarriedThrough, Waited
  <1>5. c.what # "sport" => (\A d \in calls : d = c) /\ isSubmitting /\ c.attempt = attempt
    BY DEF SavedInv, AttemptInv
  <1>6. AttemptInv'
    <2>1. \A d \in calls' : d.attempt \leq attempt
      BY <1>1, <1>2 DEF SavedInv, AttemptInv
    <2>2. ASSUME NEW d \in calls', d.what # "sport"
          PROVE  isSubmitting' /\ d.attempt = attempt' /\ \A x \in calls' : x = d
      <3>1. CASE d \in NextCall(c)
        <4>1. c.what # "sport" /\ ~CarriedThrough(c)
          BY <1>2, <1>4, <3>1
        <4> QED
          BY <1>1, <1>2, <1>3, <1>5, <3>1, <4>1
      <3>2. CASE d \in calls /\ d # c
        BY <2>2, <3>2 DEF SavedInv, AttemptInv
      <3> QED
        BY <1>1, <3>1, <3>2
    <2>3. \A d \in calls' : d.what = "sport" => form' \in {"sports", "left"}
      <3>1. \A d \in calls' : d.what = "sport" => d \in calls
        BY <1>1, <1>2
      <3> QED
        BY <1>3, <3>1 DEF SavedInv, AttemptInv
    <2>4. \A d \in calls' : d.what = "report" => form' \in {"report", "left"}
      <3>1. \A d \in calls' : d.what = "report" => d \in calls
        BY <1>1, <1>2
      <3> QED
        BY <1>3, <3>1 DEF SavedInv, AttemptInv
    <2>5. ASSUME submitted' # 0
          PROVE  /\ submitted' = attempt' /\ ~isSubmitting' /\ form' \in {"report", "left"}
                 /\ \A d \in calls' : d.attempt # attempt'
      <3>1. CASE CarriedThrough(c)
        BY <1>1, <1>3, <1>4, <3>1
      <3>2. CASE ~CarriedThrough(c)
        <4>1. submitted # 0 /\ UNCHANGED <<isSubmitting, submitted, form>>
          BY <1>3, <2>5, <3>2
        <4>2. \A d \in calls : d.attempt # attempt
          BY <4>1 DEF SavedInv, AttemptInv
        <4>3. \A d \in calls' : d.attempt # attempt
          BY <1>1, <1>2, <4>2
        <4> QED
          BY <1>1, <4>1, <4>3 DEF SavedInv, AttemptInv
      <3> QED
        BY <3>1, <3>2
    <2>6. form' # None
      BY <1>1, <1>3, NoFormAssumption DEF AllForms
    <2>7. form' = "report" => \A d \in calls' : d.what = "report"
      BY <1>1, <1>2, <1>3 DEF SavedInv, AttemptInv
    <2> QED
      BY <1>1, <2>1, <2>2, <2>3, <2>4, <2>5, <2>6, <2>7 DEF AttemptInv
  <1>7. HeardInv'
    BY <1>1, <1>3 DEF SavedInv, HeardInv
  <1>8. UploadInv'
    <2>1. \A d \in calls' : d.what = "upload" => d \in calls /\ d # c
      BY <1>1, <1>2
    <2>2. CASE c.what = "upload"
      <3>1. stored.photos = c.attempt /\ photoUris' = c.attempt
        BY <1>1, <2>2 DEF SavedInv, UploadInv, UrisAfter
      <3> QED
        BY <1>1, <1>5, <2>1, <2>2, <3>1 DEF UploadInv
    <2>3. CASE c.what # "upload"
      <3>1. photoUris' = photoUris \/ photoUris' = stored.photos
        BY <1>1, <2>3 DEF UrisAfter
      <3>2. (\A d \in calls' : d.what = "upload" => ~d.done)
               => \A d \in calls : d.what = "upload" => ~d.done
        BY <1>1, <2>3
      <3> QED
        BY <1>1, <2>1, <3>1, <3>2 DEF SavedInv, UploadInv
    <2> QED
      BY <2>2, <2>3
  <1>9. SportInv'
    <2>1. form' \notin {"sports", "left"} => form \notin {"sports", "left"}
      BY <1>3
    <2>2. \A d \in calls' : d.what = "sport" => d \in calls
      BY <1>1, <1>2
    <2>3. \A d \in calls : ~d.done => d \in calls'
      BY <1>1
    <2>4. isSubmitting' \/ submitted' # 0 => isSubmitting \/ submitted # 0
      BY <1>3, <1>4
    <2> QED
      BY <1>1, <2>1, <2>2, <2>3, <2>4 DEF SavedInv, SportInv
  <1>10. ReportInv'
    <2>1. \A d \in calls' : d.what = "report" => d \in calls
      BY <1>1, <1>2
    <2>2. form = "report" => (Reported' <=> Reported)
      <3> SUFFICES ASSUME form = "report"
                   PROVE  Reported' <=> Reported
        OBVIOUS
      <3>1. c.what # "sport"
        BY DEF SavedInv, AttemptInv
      <3>2. isSubmitting /\ c.attempt = attempt /\ \A d \in calls : d = c
        BY <1>5, <3>1
      <3>3. submitted = 0
        BY <3>2 DEF SavedInv, AttemptInv
      <3>4. CASE c.what = "report"
        <4>1. CarriedThrough(c)
          BY <1>2, <3>2, <3>4 DEF CarriedThrough, Waited
        <4> QED
          BY <1>1, <1>3, <3>4, <4>1 DEF Reported
      <3>5. c.what = "report"
        BY DEF SavedInv, AttemptInv
      <3> QED
        BY <3>4, <3>5
    <2>3. form' = "report" => form = "report"
      BY <1>3
    <2>4. form' \notin {"report", "left"} => form \notin {"report", "left"}
      BY <1>3
    <2> QED
      BY <1>1, <2>1, <2>2, <2>3, <2>4 DEF SavedInv, ReportInv
  <1> QED
    BY <1>6, <1>7, <1>8, <1>9, <1>10 DEF SavedInv

\* A failure ends the attempt that is waited for; what the server had done is remembered.
LEMMA SavedFailed ==
    ASSUME FormIInv, SavedInv, NEW c \in calls, CallFailedForm(c)
    PROVE  SavedInv'
  <1>1. /\ c \in FormCall /\ form # None
        /\ calls' = calls \ {c}
        /\ UNCHANGED <<form, sports, sent, submitted, attempt, photoUris, stored, savedBy, outrun>>
        /\ isSubmitting' = (isSubmitting /\ ~Waited(c))
    <2>1. isSubmitting' = (isSubmitting /\ ~Waited(c))
      BY DEF CallFailedForm, Waited, FormIInv, FormTypeOK
    <2> QED
      BY <2>1 DEF CallFailedForm, textVars, storeVars, FormIInv, FormTypeOK, SavedInv, AttemptInv
  <1>2. unheard' = IF c.done /\ c.what \in {"upload", "report"} THEN unheard \cup {c.attempt}
                   ELSE unheard
    BY DEF CallFailedForm
  <1>3. c.what # "sport" => /\ \A d \in calls : d = c
                            /\ isSubmitting /\ c.attempt = attempt /\ Waited(c) /\ submitted = 0
    BY DEF SavedInv, AttemptInv, Waited
  <1>4. AttemptInv'
    <2>1. \A d \in calls' : d.what # "sport" => isSubmitting'
      BY <1>1, <1>3 DEF SavedInv, AttemptInv
    <2> QED
      BY <1>1, <2>1 DEF SavedInv, AttemptInv
  <1>5. HeardInv'
    <2>1. CASE c.what # "sport"
      <3>1. attempt \in Nat /\ ~isSubmitting' /\ c.attempt = attempt
        <4>1. attempt \in Nat
          BY DEF FormIInv, FormTypeOK
        <4>2. Waited(c) /\ c.attempt = attempt
          BY <1>3, <2>1
        <4> QED
          BY <1>1, <4>1, <4>2
      <3>2. \A x \in unheard' : x \leq attempt
        BY <1>2, <3>1 DEF SavedInv, HeardInv
      <3> QED
        BY <1>1, <3>1, <3>2 DEF HeardInv
    <2>2. CASE c.what = "sport"
      BY <1>1, <1>2, <2>2 DEF SavedInv, HeardInv
    <2> QED
      BY <2>1, <2>2
  <1>6. UploadInv'
    <2>1. CASE c.what = "upload"
      BY <1>1, <1>2, <1>3, <2>1 DEF SavedInv, UploadInv
    <2>2. CASE c.what # "upload"
      BY <1>1, <1>2, <1>3, <2>2 DEF SavedInv, UploadInv
    <2> QED
      BY <2>1, <2>2
  <1>7. SportInv'
    <2>1. ASSUME isSubmitting' \/ submitted # 0
          PROVE  \A d \in calls : d.attempt = attempt => d \in calls'
      <3>1. c.attempt # attempt
        BY <1>1, <2>1 DEF SavedInv, AttemptInv, Waited
      <3> QED
        BY <1>1, <3>1
    <2> QED
      BY <1>1, <2>1 DEF SavedInv, SportInv
  <1>8. ReportInv'
    <2>1. /\ Cardinality(unheard) \in Nat /\ Cardinality(unheard') \in Nat
          /\ Cardinality(unheard) \leq Cardinality(unheard')
          /\ stored.reports \in Nat
      <3>1. stored.reports \in Nat
        BY DEF FormIInv, FormTypeOK, Stored
      <3>2. CASE unheard' = unheard
        BY <3>1, <3>2, Unheard
      <3>3. CASE unheard' = unheard \cup {c.attempt}
        <4>1. /\ Cardinality(unheard) \in Nat
              /\ Cardinality(unheard \cup {c.attempt}) \in
                    {Cardinality(unheard), Cardinality(unheard) + 1}
          BY Unheard
        <4> QED
          BY <3>1, <3>3, <4>1
      <3> QED
        BY <1>2, <3>2, <3>3
    <2>2. ASSUME form = "report"
          PROVE  stored.reports = Cardinality(unheard') + (IF Reported' THEN 1 ELSE 0)
      <3>1. c.what \in {"report", "upload", "profile", "show", "preferences"}
        BY <1>1, <2>2 DEF FormCall, SavedInv, AttemptInv
      <3>2. /\ calls' = {} /\ submitted = 0 /\ isSubmitting /\ c.attempt = attempt
            /\ calls = {c}
        BY <1>1, <1>3, <3>1
      <3>3. ~Reported'
        BY <1>1, <3>2 DEF Reported
      <3>4. c.attempt \notin unheard
        BY <3>2 DEF SavedInv, HeardInv
      <3>5. CASE c.what = "report" /\ c.done
        <4>1. Cardinality(unheard') = Cardinality(unheard) + 1
          BY <1>2, <3>4, <3>5, Unheard
        <4>2. stored.reports = Cardinality(unheard) + 1
          BY <2>2, <3>2, <3>5 DEF SavedInv, ReportInv, Reported
        <4> QED
          BY <2>1, <3>3, <4>1, <4>2
      <3>6. CASE c.what = "report" /\ ~c.done
        <4>1. stored.reports = Cardinality(unheard) /\ unheard' = unheard
          BY <1>2, <2>1, <2>2, <3>2, <3>6 DEF SavedInv, ReportInv, Reported
        <4> QED
          BY <2>1, <3>3, <4>1
      <3>7. c.what = "report"
        BY <2>2 DEF SavedInv, AttemptInv
      <3> QED
        BY <3>5, <3>6, <3>7
    <2>3. stored.reports \leq Cardinality(unheard') + 1
      BY <2>1 DEF SavedInv, ReportInv
    <2>4. (\E d \in calls' : d.what = "report" /\ ~d.done) => stored.reports \leq Cardinality(unheard')
      BY <1>1, <2>1 DEF SavedInv, ReportInv
    <2>5. form \notin {"report", "left"} => stored.reports = 0
      BY DEF SavedInv, ReportInv
    <2> QED
      BY <1>1, <2>2, <2>3, <2>4, <2>5 DEF ReportInv
  <1> QED
    BY <1>4, <1>5, <1>6, <1>7, <1>8 DEF SavedInv

\* Every step keeps what is saved.
LEMMA SavedNext ==
    ASSUME FormIInv, SavedInv, [FormNext]_formVars
    PROVE  SavedInv'
  <1>1. CASE \E f \in Form : OpenForm(f)
    <2>1. PICK f \in Form : OpenForm(f)
      BY <1>1
    <2>2. f # None
      BY FormAssumption, NoFormAssumption
    <2> QED
      BY <2>1, <2>2, SavedKeeps DEF OpenForm
  <1>2. CASE \/ PickPhoto \/ PhotoPicked \/ RemovePhoto
             \/ \E on \in BOOLEAN : SetReplaceMode(on)
    <2>1. UNCHANGED <<callVars, form, sports>>
      BY <1>2 DEF PickPhoto, PhotoPicked, RemovePhoto, SetReplaceMode, textVars
    <2> QED
      BY <2>1, SavedStays
  <1>3. CASE \/ TypeText \/ UseSelect \/ ChooseReason
             \/ \E g \in GenderPreference : ToggleOpenTo(g)
             \/ \E x \in AGE_MIN_LIMIT - 1 .. AGE_MAX_LIMIT + 1 : TouchBar(x)
             \/ \E control \in {"decMin", "incMin", "decMax", "incMax"} : StepAge(control)
    <2>1. UNCHANGED <<callVars, form, sports>>
      BY <1>3 DEF TypeText, UseSelect, ChooseReason, ToggleOpenTo, TouchBar, StepAge, Edited
    <2> QED
      BY <2>1, SavedStays
  <1>4. CASE \E s \in Sport : ToggleSport(s) \/ \E level \in Level : UpdateSportState(s, level)
    <2>1. form = "sports" /\ UNCHANGED <<callVars, form>>
      BY <1>4, SubmitOffered DEF ToggleSport, UpdateSportState, Edited
    <2>2. form' # None
      BY <2>1, NoFormAssumption DEF AllForms
    <2> QED
      BY <2>1, <2>2, SavedKeeps DEF callVars, storeVars
  <1>5. CASE Submit
    BY <1>5, SavedSubmit
  <1>6. CASE FormCallEnds
    BY <1>6, SavedServed, SavedAnswered, SavedFailed DEF FormCallEnds
  <1>7. CASE LeaveForm
    <2>1. UNCHANGED <<callVars, sports>> /\ form' = "left" /\ form' # None
      BY <1>7, NoFormAssumption DEF LeaveForm, textVars
    <2> QED
      BY <2>1, SavedKeeps DEF callVars, storeVars
  <1>8. CASE UNCHANGED formVars
    <2>1. UNCHANGED <<callVars, form, sports>>
      BY <1>8 DEF formVars, textVars
    <2> QED
      BY <2>1, SavedStays
  <1> QED
    BY <1>1, <1>2, <1>3, <1>4, <1>5, <1>6, <1>7, <1>8 DEF FormNext

\* At first nothing is sent.
LEMMA SavedInit == FormInit => SavedInv
  <1> SUFFICES ASSUME FormInit
               PROVE  SavedInv
    OBVIOUS
  <1>1. /\ calls = {} /\ submitted = 0 /\ photoUris = stored.photos /\ stored.reports = 0
        /\ DOMAIN sports = {} /\ DOMAIN sent = {} /\ attempt = 0 /\ ~isSubmitting
        /\ unheard = {} /\ \A s \in Sport : savedBy[s] = 0
        /\ form # "report"
    BY NoFormAssumption DEF FormInit, NoSports, AllForms
  <1>2. Cardinality(unheard) = 0
    BY <1>1, FS_EmptySet
  <1>3. AttemptInv /\ HeardInv /\ UploadInv /\ SportInv
    BY <1>1 DEF AttemptInv, HeardInv, UploadInv, SportInv
  <1>4. ReportInv
    BY <1>1, <1>2 DEF ReportInv
  <1> QED
    BY <1>3, <1>4 DEF SavedInv

\* What a form shows as saved is what the server has, over failed calls, lost answers
\* and further attempts (handleSave, handleFinish, handleSubmit and the profile store):
\* when the onboarding ends, the attempt that ended it has saved every sport, as it was
\* filled in; the photos shown are the server's; a report was stored once.  Three
\* exceptions are part of the statement: a sport that a call of an earlier attempt
\* saved again afterwards may be as that attempt had it; photos whose answer was lost
\* are not shown until an upload or a profile is answered; and a report whose answer
\* was lost is stored again when it is sent again.
THEOREM FormsSave == FormSpec => []FormsAreSaved
<1>1. FormIInv /\ SavedInv => FormsAreSaved
  <2> SUFFICES ASSUME FormIInv, SavedInv
               PROVE  FormsAreSaved
    OBVIOUS
  <2>1. PhotosShownAreStored
    BY DEF SavedInv, UploadInv, PhotosShownAreStored
  <2>2. SportsSaved
    BY DEF SavedInv, AttemptInv, SportInv, SportsSaved
  <2>3. ReportedOnce
    BY DEF SavedInv, ReportInv, Reported, ReportedOnce
  <2> QED
    BY <2>1, <2>2, <2>3 DEF FormsAreSaved
<1>2. FormIInv /\ SavedInv /\ [FormNext]_formVars => SavedInv'
  BY SavedNext
<1> QED
  BY <1>1, <1>2, SavedInit, FormInvariance, PTL DEF FormSpec

-----------------------------------------------------------------------------
(* The lists.                                                              *)

ListIsOf(c) == \A i \in list.items : i.for = c

\* Before a screen is opened there is nothing, and afterwards a chip is lit.
Unopened ==
    IF screen = None THEN InFlight = {} /\ post = None /\ settled = {} ELSE chip \in Chip

\* A fetch that was not overtaken is for the chip that is lit.
OneChip == \A s \in InFlight : ~fetches[s].overtaken => fetches[s].chip = chip

\* The list is that of the chip that is lit, or shows an error, or is about to be
\* replaced; unless its answer was overtaken.
Listed ==
    ~overtaken =>
        \/ list.error \/ ListIsOf(chip)
        \/ \E s \in InFlight : ~fetches[s].overtaken

\* Discovery has a spinner or an error, or a list for the sport that is chosen,
\* also while another fetch is still in flight.
DiscoveryListed ==
    screen = "Discovery" /\ ~overtaken => list.isLoading \/ list.error \/ ListIsOf(chip)

\* The load after a row was settled keeps the buttons off, and is alone.
Afters ==
    /\ \A s \in InFlight : fetches[s].why = "after" =>
          /\ screen = "Events" /\ acting # None /\ post = None
          /\ \A t \in InFlight : fetches[t].why = "after" => t = s
    /\ post # None => acting # None

\* The server does not list what has been settled for the same chip.
Unlisted ==
    /\ \A i \in settled : i.row \notin listed[i.for]
    /\ post # None /\ post.done => post.row \notin listed[post.sport]

\* Nor does an answer that the server read after it had settled the row.
Uncrossed ==
    \A s \in InFlight : fetches[s].read /\ ~fetches[s].crossed =>
        /\ \A i \in settled : i.for = fetches[s].chip => i.row \notin fetches[s].rows
        /\ post # None /\ post.done /\ post.sport = fetches[s].chip =>
              post.row \notin fetches[s].rows

\* The list shows no settled row, unless its answer crossed the act or the load after
\* the act is still in flight.
Gone ==
    ~crossed /\ (\A s \in InFlight : fetches[s].why # "after") => settled \cap list.items = {}

FeedIInv ==
    /\ FeedTypeOK /\ Unopened
    /\ OneChip /\ Listed /\ DiscoveryListed
    /\ Afters /\ Unlisted /\ Uncrossed /\ Gone

\* Every nonempty set of naturals has a least member.
LEMMA Least ==
    ASSUME NEW T, T \subseteq Nat, T # {}
    PROVE  \E x \in T : \A y \in T : x <= y
  <1>1. IsWellFoundedOn(OpToRel(<, Nat), Nat)
    BY NatLessThanWellFounded
  <1>2. PICK x \in T : \A y \in T : ~ (<<y, x>> \in OpToRel(<, Nat))
    BY <1>1, WFMin
  <1>3. \A y \in T : ~(y < x)
    BY <1>2, Zenon DEF OpToRel
  <1>4. \A y \in T : y \in Nat
    OBVIOUS
  <1>5. ASSUME NEW y \in T
        PROVE  x <= y
    <2>1. y \in Nat /\ x \in Nat /\ ~(y < x)
      BY <1>3, <1>4
    <2> QED
      BY <2>1, SMT
  <1> QED
    BY <1>5

Table == [FetchSlot -> Fetch \cup {None}]

\* A fetch that starts is of the lit chip and has read nothing.
LEMMA NewFetchTyped ==
    ASSUME chip' \in Chip, NEW why \in {"load", "pull", "after"}
    PROVE  /\ NewFetch(why) \in Fetch /\ NewFetch(why) # None
           /\ NewFetch(why).why = why /\ NewFetch(why).chip = chip' /\ ~NewFetch(why).read
           /\ ~NewFetch(why).overtaken
  <1>1. NewFetch(why) \in Fetch
    BY DEF NewFetch, Fetch
  <1>2. /\ NewFetch(why).why = why /\ NewFetch(why).chip = chip' /\ NewFetch(why).read = FALSE
        /\ NewFetch(why).overtaken = FALSE
    BY DEF NewFetch
  <1> QED
    BY <1>1, <1>2, NoFeedAssumption

\* A fetch in flight is overtaken when the chip is another one now; nothing else of it
\* changes.
LEMMA OvertakenIs ==
    ASSUME NEW f \in Fetch
    PROVE  /\ Overtaken(f) \in Fetch /\ Overtaken(f) # None
           /\ Overtaken(f).why = f.why /\ Overtaken(f).chip = f.chip
           /\ Overtaken(f).read = f.read /\ Overtaken(f).rows = f.rows
           /\ Overtaken(f).crossed = f.crossed
           /\ ~Overtaken(f).overtaken => f.chip = chip'
  <1>1. f # None
    BY NoFeedAssumption
  <1>2. CASE f.chip = chip'
    <2>1. Overtaken(f) = f
      BY <1>2 DEF Overtaken
    <2> QED
      BY <1>1, <1>2, <2>1
  <1>3. CASE f.chip # chip'
    <2> DEFINE g == [f EXCEPT !.overtaken = TRUE]
    <2>1. Overtaken(f) = g
      BY <1>1, <1>3 DEF Overtaken
    <2>2. /\ g \in Fetch /\ g.why = f.why /\ g.chip = f.chip /\ g.read = f.read /\ g.rows = f.rows
          /\ g.crossed = f.crossed /\ g.overtaken = TRUE
      BY DEF Fetch
    <2> HIDE DEF g
    <2> QED
      BY <2>1, <2>2, NoFeedAssumption
  <1> QED
    BY <1>2, <1>3

\* A fetch that is sent takes a slot that is free.
LEMMA SentTakes ==
    ASSUME NEW all, NEW why, NEW free \in FetchSlot, all[free] = None
    PROVE  \E q \in FetchSlot :
              /\ all[q] = None
              /\ Sent(all, why) =
                    [s \in FetchSlot |-> IF s = q THEN NewFetch(why) ELSE Overtaken(all[s])]
  <1> DEFINE T == {s \in FetchSlot : all[s] = None}
             first(q) == all[q] = None /\ \A p \in 1 .. q - 1 : all[p] # None
  <1>1. FetchSlot \subseteq Nat /\ \A q \in FetchSlot : \A p \in 1 .. q - 1 : p \in FetchSlot /\ p < q
    BY FetchAssumption DEF FetchSlot
  <1>2. PICK q \in T : \A s \in T : q <= s
    BY <1>1, Least
  <1>3. q \in FetchSlot /\ first(q)
    <2>1. ASSUME NEW p \in 1 .. q - 1, all[p] = None
          PROVE  FALSE
      <3>1. p \in T /\ p < q /\ p \in Nat /\ q \in Nat
        BY <1>1, <1>2, <2>1
      <3> QED
        BY <1>2, <3>1
    <2> QED
      BY <1>2, <2>1
  <1>4. (CHOOSE x \in FetchSlot : first(x)) \in FetchSlot /\ first(CHOOSE x \in FetchSlot : first(x))
    BY <1>3
  <1> QED
    BY <1>4 DEF Sent

\* What is sent: one fetch, or two for the same chip; the others may be overtaken.
SentTo(new, why) ==
    /\ new \subseteq FetchSlot /\ new # {}
    /\ \A s \in new : fetches[s] = None
    /\ fetches' = [s \in FetchSlot |-> IF s \in new THEN NewFetch(why) ELSE Overtaken(fetches[s])]

\* Fetching takes one free slot.
LEMMA FetchedOne ==
    ASSUME NEW why, Fetched(why)
    PROVE  \E q \in FetchSlot : SentTo({q}, why)
  <1>1. PICK q \in FetchSlot :
           /\ fetches[q] = None
           /\ fetches' = [s \in FetchSlot |-> IF s = q THEN NewFetch(why) ELSE Overtaken(fetches[s])]
    BY SentTakes DEF Fetched
  <1>2. fetches' = [s \in FetchSlot |-> IF s \in {q} THEN NewFetch(why) ELSE Overtaken(fetches[s])]
    BY <1>1
  <1> QED
    BY <1>1, <1>2 DEF SentTo

\* Fetching twice takes two.
LEMMA FetchedTwo ==
    ASSUME NEW why \in {"load", "pull", "after"}, chip' \in Chip, InFlight = {},
           fetches' = Sent(Sent(fetches, why), why)
    PROVE  \E new : SentTo(new, why)
  <1>1. 1 \in FetchSlot /\ 2 \in FetchSlot
    BY FetchAssumption DEF FetchSlot
  <1>2. \A s \in FetchSlot : fetches[s] = None
    BY DEF InFlight
  <1>3. Overtaken(None) = None /\ Overtaken(NewFetch(why)) = NewFetch(why)
    BY NewFetchTyped DEF Overtaken
  <1>4. PICK q \in FetchSlot :
           Sent(fetches, why) =
              [s \in FetchSlot |-> IF s = q THEN NewFetch(why) ELSE Overtaken(fetches[s])]
    BY <1>1, <1>2, SentTakes
  <1> DEFINE one == Sent(fetches, why)
  <1>5. /\ \A s \in FetchSlot : one[s] = IF s = q THEN NewFetch(why) ELSE None
        /\ \E free \in FetchSlot : one[free] = None
    <2>1. \A s \in FetchSlot : one[s] = IF s = q THEN NewFetch(why) ELSE None
      BY <1>2, <1>3, <1>4
    <2>2. \E free \in FetchSlot : free # q
      BY <1>1
    <2> QED
      BY <2>1, <2>2
  <1> HIDE DEF one
  <1>6. PICK r \in FetchSlot :
           Sent(one, why) = [s \in FetchSlot |-> IF s = r THEN NewFetch(why) ELSE Overtaken(one[s])]
    BY <1>5, SentTakes
  <1>7. \A s \in FetchSlot :
           (IF s = r THEN NewFetch(why) ELSE Overtaken(one[s])) =
           (IF s \in {q, r} THEN NewFetch(why) ELSE Overtaken(fetches[s]))
    BY <1>2, <1>3, <1>5
  <1>8. fetches' = [s \in FetchSlot |-> IF s \in {q, r} THEN NewFetch(why) ELSE Overtaken(fetches[s])]
    BY <1>6, <1>7 DEF one
  <1> QED
    BY <1>2, <1>8 DEF SentTo

\* The table after something was sent.
LEMMA SentTable ==
    ASSUME fetches \in Table, NEW new, NEW why \in {"load", "pull", "after"}, SentTo(new, why),
           chip' \in Chip
    PROVE  /\ fetches' \in Table
           /\ InFlight' = InFlight \cup new /\ InFlight \cap new = {}
           /\ new # {} /\ new \subseteq FetchSlot
           /\ \A s \in InFlight :
                 /\ fetches'[s].why = fetches[s].why /\ fetches'[s].chip = fetches[s].chip
                 /\ fetches'[s].read = fetches[s].read /\ fetches'[s].rows = fetches[s].rows
                 /\ fetches'[s].crossed = fetches[s].crossed
                 /\ ~fetches'[s].overtaken => fetches[s].chip = chip'
           /\ \A s \in new : /\ fetches'[s].why = why /\ fetches'[s].chip = chip'
                             /\ ~fetches'[s].read /\ ~fetches'[s].overtaken
  <1>1. /\ new \subseteq FetchSlot /\ new # {}
        /\ \A s \in new : fetches[s] = None
        /\ fetches' =
              [s \in FetchSlot |-> IF s \in new THEN NewFetch(why) ELSE Overtaken(fetches[s])]
    BY DEF SentTo
  <1>2. /\ \A s \in InFlight : s \in FetchSlot /\ fetches[s] \in Fetch /\ s \notin new
        /\ \A s \in FetchSlot \ InFlight : fetches[s] = None
    BY <1>1 DEF InFlight, Table
  <1>3. Overtaken(None) = None
    BY DEF Overtaken
  <1>4. /\ \A s \in new : fetches'[s] = NewFetch(why)
        /\ \A s \in InFlight : fetches'[s] = Overtaken(fetches[s])
        /\ \A s \in FetchSlot \ (InFlight \cup new) : fetches'[s] = None
    BY <1>1, <1>2, <1>3
  <1>5. /\ \A s \in new : fetches'[s] \in Fetch /\ fetches'[s] # None
        /\ \A s \in InFlight : fetches'[s] \in Fetch /\ fetches'[s] # None
    BY <1>2, <1>4, NewFetchTyped, OvertakenIs
  <1>6. \A s \in FetchSlot : fetches'[s] \in Fetch \cup {None}
    BY <1>4, <1>5
  <1>7. fetches' \in Table
    BY <1>1, <1>6 DEF Table
  <1>8. InFlight' = InFlight \cup new
    <2>1. InFlight \subseteq FetchSlot
      BY DEF InFlight
    <2>2. \A s \in FetchSlot : fetches'[s] # None <=> s \in InFlight \cup new
      BY <1>4, <1>5
    <2> QED
      BY <1>1, <2>1, <2>2 DEF InFlight
  <1> QED
    BY <1>1, <1>2, <1>4, <1>7, <1>8, NewFetchTyped, OvertakenIs

\* Types of what a fetch does to the list.
LEMMA BegunTyped ==
    ASSUME list \in FeedState, NEW why
    PROVE  /\ Begun(list, why) \in FeedState
           /\ Begun(list, why).items = list.items
           /\ Begun(list, why).error <=> list.error /\ why = "after"
           /\ Begun(list, why).isLoading <=> list.isLoading \/ Loads(why)
  <1>1. Loads(why) \in BOOLEAN
    BY DEF Loads
  <1> QED
    BY <1>1 DEF Begun, FeedState

\* A fetch that is sent, by the user, by a screen or after an act.
LEMMA SendingStep ==
    ASSUME FeedIInv, screen # None, NEW new, NEW why \in {"load", "pull"}, SentTo(new, why),
           UNCHANGED <<screen, acting, post, listed, settled>>, focused' \in BOOLEAN,
           chip' \in Chip, list' = Begun(list, why), Kept,
           screen = "Discovery" => why = "load"
    PROVE  FeedIInv'
  <1>1. fetches \in Table
    BY DEF FeedIInv, FeedTypeOK, Table
  <1>2. /\ fetches' \in Table
        /\ InFlight' = InFlight \cup new /\ InFlight \cap new = {}
        /\ new # {} /\ new \subseteq FetchSlot
        /\ \A s \in InFlight :
              /\ fetches'[s].why = fetches[s].why /\ fetches'[s].chip = fetches[s].chip
              /\ fetches'[s].read = fetches[s].read /\ fetches'[s].rows = fetches[s].rows
              /\ fetches'[s].crossed = fetches[s].crossed
              /\ ~fetches'[s].overtaken => fetches[s].chip = chip'
        /\ \A s \in new : /\ fetches'[s].why = why /\ fetches'[s].chip = chip'
                          /\ ~fetches'[s].read /\ ~fetches'[s].overtaken
    BY <1>1, SentTable
  <1>3. /\ list' \in FeedState /\ list'.items = list.items /\ ~list'.error
        /\ list'.isLoading <=> list.isLoading \/ Loads(why)
    BY BegunTyped DEF FeedIInv, FeedTypeOK
  <1>4. UNCHANGED <<overtaken, crossed>>
    BY DEF Kept
  <1>5. FeedTypeOK' /\ Unopened'
    BY <1>2, <1>3, <1>4 DEF FeedIInv, FeedTypeOK, Unopened, Table
  <1>6. OneChip' /\ Listed'
    BY <1>2 DEF OneChip, Listed
  <1>7. DiscoveryListed'
    BY <1>3 DEF DiscoveryListed, Loads
  <1>8. Afters'
    BY <1>2 DEF FeedIInv, Afters
  <1>9. Unlisted'
    BY DEF FeedIInv, Unlisted
  <1>10. Uncrossed'
    BY <1>2 DEF FeedIInv, Uncrossed
  <1>11. Gone'
    BY <1>2, <1>3, <1>4 DEF FeedIInv, Gone
  <1> QED
    BY <1>5, <1>6, <1>7, <1>8, <1>9, <1>10, <1>11 DEF FeedIInv

\* What the screens offer.
LEMMA FeedOffered ==
    /\ \A control : Offered(control) =>
          /\ screen # None
          /\ screen = "Discovery" => control # "pull"
    /\ screen = "Discovery" /\ "settle" \in FeedOffers => ~list.isLoading /\ ~list.error
  BY NoFeedAssumption
     DEF Offered, FeedOffers, AllFeeds, DiscoveryOffers, ChipRowOffers, PartnerCardOffers

\* What the user does to reload the list, or to filter it, asks under the chip that
\* is lit.
LEMMA UserSends ==
    ASSUME FeedIInv,
           \/ Again \/ Pull \/ (Return /\ screen \in {"Battles", "Events", "Upcoming"})
           \/ \E c \in Chip : SetChip(c)
    PROVE  FeedIInv'
  <1>1. screen # None /\ chip' \in Chip /\ focused' \in BOOLEAN
        /\ UNCHANGED <<screen, acting, post, listed, settled>> /\ Kept
    <2>1. screen # None
      BY FeedOffered DEF Again, Pull, Return, SetChip
    <2> QED
      BY <2>1 DEF Again, Pull, Return, SetChip, FeedIInv, FeedTypeOK, Unopened
  <1>2. CASE Again \/ (Return /\ screen \in {"Battles", "Events", "Upcoming"})
             \/ (screen # "Battles" /\ \E c \in Chip : SetChip(c))
    <2>1. Fetched("load")
      BY <1>2 DEF Again, Return, SetChip
    <2>2. PICK q \in FetchSlot : SentTo({q}, "load")
      BY <2>1, FetchedOne
    <2>3. list' = Begun(list, "load")
      BY <2>1 DEF Fetched
    <2> QED
      BY <1>1, <2>2, <2>3, SendingStep
  <1>3. CASE Pull
    <2>1. Fetched("pull") /\ screen # "Discovery"
      BY <1>3, FeedOffered DEF Pull
    <2>2. PICK q \in FetchSlot : SentTo({q}, "pull")
      BY <2>1, FetchedOne
    <2>3. list' = Begun(list, "pull")
      BY <2>1 DEF Fetched
    <2> QED
      BY <1>1, <2>1, <2>2, <2>3, SendingStep
  <1>4. CASE screen = "Battles" /\ \E c \in Chip : SetChip(c)
    <2>1. InFlight = {} /\ fetches' = Sent(Sent(fetches, "load"), "load")
          /\ list' = Begun(list, "load")
      BY <1>4 DEF SetChip
    <2>2. PICK new : SentTo(new, "load")
      BY <1>1, <2>1, FetchedTwo
    <2> QED
      BY <1>1, <2>1, <2>2, SendingStep
  <1> QED
    BY <1>2, <1>3, <1>4

\* The screen is mounted.
LEMMA OpenFeedStep ==
    ASSUME FeedIInv, NEW feed \in Feed, OpenFeed(feed)
    PROVE  FeedIInv'
  <1>1. /\ screen = None /\ screen' = feed /\ focused' = TRUE /\ chip' \in Chip
        /\ listed' \in [Chip -> SUBSET Row] /\ list' = Begun(list, "load")
        /\ UNCHANGED <<acting, post, settled, overtaken, crossed>>
        /\ InFlight = {} /\ post = None /\ settled = {} /\ fetches \in Table
        /\ feed # None
    BY FeedAssumption, NoFeedAssumption DEF OpenFeed, Kept, FeedIInv, FeedTypeOK, Unopened, Table
  <1>2. PICK new : SentTo(new, "load")
    <2>1. CASE fetches' = Sent(Sent(fetches, "load"), "load")
      BY <1>1, <2>1, FetchedTwo
    <2>2. CASE fetches' = Sent(fetches, "load")
      <3>1. 1 \in FetchSlot
        BY FetchAssumption DEF FetchSlot
      <3>2. \E s \in FetchSlot : fetches[s] = None
        BY <1>1, <3>1 DEF InFlight
      <3>3. Fetched("load")
        BY <1>1, <2>2, <3>2 DEF Fetched
      <3> QED
        BY <3>3, FetchedOne
    <2> QED
      BY <2>1, <2>2 DEF OpenFeed
  <1>3. /\ fetches' \in Table /\ InFlight' = new /\ new # {}
        /\ \A s \in new : /\ fetches'[s].why = "load" /\ fetches'[s].chip = chip'
                          /\ ~fetches'[s].read /\ ~fetches'[s].overtaken
    BY <1>1, <1>2, SentTable
  <1>4. list' \in FeedState /\ (list'.isLoading <=> list.isLoading \/ Loads("load"))
    BY <1>1, BegunTyped DEF FeedIInv, FeedTypeOK
  <1>5. FeedTypeOK' /\ Unopened'
    BY <1>1, <1>3, <1>4 DEF FeedIInv, FeedTypeOK, Unopened, Table
  <1>6. OneChip' /\ Listed'
    BY <1>3 DEF OneChip, Listed
  <1>7. DiscoveryListed'
    BY <1>4 DEF DiscoveryListed, Loads
  <1>8. Afters' /\ Unlisted' /\ Uncrossed' /\ Gone'
    BY <1>1, <1>3 DEF FeedIInv, Afters, Unlisted, Uncrossed, Gone
  <1> QED
    BY <1>5, <1>6, <1>7, <1>8 DEF FeedIInv

\* The server reads what it has, which is nothing that has been settled for the chip.
LEMMA FetchReadStep ==
    ASSUME FeedIInv, NEW s \in FetchSlot, FetchRead(s)
    PROVE  FeedIInv'
  <1> DEFINE f == [fetches[s] EXCEPT !.read = TRUE, !.rows = listed[fetches[s].chip]]
  <1>1. /\ fetches \in Table /\ fetches[s] \in Fetch /\ listed \in [Chip -> SUBSET Row]
        /\ fetches' = [fetches EXCEPT ![s] = f]
        /\ UNCHANGED <<screen, focused, chip, list, acting, post, listed, settled, overtaken,
                       crossed>>
    BY DEF FetchRead, Kept, FeedIInv, FeedTypeOK, Table
  <1>2. /\ f \in Fetch /\ f # None /\ f.chip = fetches[s].chip /\ f.why = fetches[s].why
        /\ f.overtaken = fetches[s].overtaken /\ f.rows = listed[f.chip]
    <2>1. fetches[s].chip \in Chip /\ listed[fetches[s].chip] \in SUBSET Row
      BY <1>1 DEF Fetch
    <2> QED
      BY <1>1, <2>1, NoFeedAssumption DEF Fetch
  <1> HIDE DEF f
  <1>3. fetches' \in Table /\ fetches'[s] = f /\ \A q \in FetchSlot \ {s} : fetches'[q] = fetches[q]
    BY <1>1, <1>2 DEF Table
  <1>4. InFlight' = InFlight /\ s \in InFlight
    BY <1>2, <1>3 DEF InFlight, FetchRead
  <1>5. \A q \in InFlight : /\ q \in FetchSlot /\ fetches'[q].chip = fetches[q].chip
                            /\ fetches'[q].why = fetches[q].why
                            /\ fetches'[q].overtaken = fetches[q].overtaken
    BY <1>2, <1>3, <1>4 DEF InFlight
  <1>6. FeedTypeOK' /\ Unopened'
    BY <1>1, <1>3, <1>4 DEF FeedIInv, FeedTypeOK, Unopened, Table
  <1>7. OneChip' /\ Listed' /\ DiscoveryListed'
    BY <1>1, <1>4, <1>5 DEF FeedIInv, OneChip, Listed, DiscoveryListed, ListIsOf
  <1>8. Afters' /\ Unlisted'
    BY <1>1, <1>4, <1>5 DEF FeedIInv, Afters, Unlisted
  <1>9. Uncrossed'
    BY <1>1, <1>2, <1>3, <1>4, <1>5 DEF FeedIInv, Uncrossed, Unlisted
  <1>10. Gone'
    BY <1>1, <1>4, <1>5 DEF FeedIInv, Gone
  <1> QED
    BY <1>6, <1>7, <1>8, <1>9, <1>10 DEF FeedIInv

\* A fetch is over, with an answer, an error or a 404.
LEMMA FetchOverStep ==
    ASSUME FeedIInv, NEW s \in FetchSlot,
           FetchAnswered(s) \/ FetchFailed(s) \/ TournamentsOff(s)
    PROVE  FeedIInv'
  <1> DEFINE f == fetches[s]
  <1>1. /\ fetches \in Table /\ f \in Fetch /\ f # None /\ s \in InFlight
        /\ fetches' = [fetches EXCEPT ![s] = None]
        /\ acting' = (IF f.why = "after" THEN None ELSE acting)
        /\ UNCHANGED <<screen, focused, chip, post, listed, settled>>
    BY DEF FetchAnswered, FetchFailed, TournamentsOff, Over, InFlight, FeedIInv, FeedTypeOK, Table
  <1>2. /\ fetches' \in Table /\ InFlight' = InFlight \ {s}
        /\ \A q \in InFlight' : fetches'[q] = fetches[q]
    BY <1>1 DEF Table, InFlight
  <1>3. /\ Finished(list, f) \in FeedState /\ Finished(list, f).items = list.items
        /\ Finished(list, f).error = list.error
    <2>1. list \in FeedState /\ Loads(f.why) \in BOOLEAN /\ f.cancelled \in BOOLEAN
      BY <1>1 DEF FeedIInv, FeedTypeOK, Fetch, Loads
    <2> QED
      BY <2>1 DEF Finished, FeedState
  \* It brings what the server had, shows a failure and may empty the list, or empties it.
  <1>4. \/ /\ f.read /\ list'.items = {[row |-> r, for |-> f.chip] : r \in f.rows}
           /\ overtaken' = f.overtaken /\ crossed' = f.crossed
        \/ /\ list'.error /\ screen \notin Silent
           /\ list'.items \subseteq list.items /\ UNCHANGED <<overtaken, crossed>>
        \/ list'.items = {} /\ UNCHANGED <<overtaken, crossed>>
    <2>1. CASE FetchAnswered(s)
      BY <1>3, <2>1 DEF FetchAnswered, FeedState
    <2>2. CASE FetchFailed(s)
      BY <1>3, <2>2 DEF FetchFailed, FeedState, Kept
    <2>3. CASE TournamentsOff(s)
      BY <1>3, <2>3 DEF TournamentsOff, FeedState, Kept
    <2> QED
      BY <2>1, <2>2, <2>3
  <1>5. list' \in FeedState
    <2>1. CASE FetchAnswered(s)
      <3>1. {[row |-> r, for |-> f.chip] : r \in f.rows} \in SUBSET FeedItem
        BY <1>1 DEF Fetch, FeedItem
      <3> QED
        BY <1>3, <2>1, <3>1 DEF FetchAnswered, FeedState
    <2>2. CASE FetchFailed(s)
      BY <1>3, <2>2 DEF FetchFailed, FeedState
    <2>3. CASE TournamentsOff(s)
      BY <1>3, <2>3 DEF TournamentsOff, FeedState
    <2> QED
      BY <2>1, <2>2, <2>3
  <1>6. overtaken' \in BOOLEAN /\ crossed' \in BOOLEAN
    BY <1>1, <1>4 DEF FeedIInv, FeedTypeOK, Fetch
  <1>7. FeedTypeOK' /\ Unopened'
    BY <1>1, <1>2, <1>5, <1>6 DEF FeedIInv, FeedTypeOK, Unopened, Table
  <1>8. OneChip'
    BY <1>1, <1>2 DEF FeedIInv, OneChip
  \* An answer that was not overtaken is for the chip that is lit.
  <1>9. ~overtaken' => list'.error \/ ListIsOf(chip)'
    <2> SUFFICES ASSUME ~overtaken'
                 PROVE  list'.error \/ ListIsOf(chip)'
      OBVIOUS
    <2>1. ASSUME list'.items = {[row |-> r, for |-> f.chip] : r \in f.rows},
                 overtaken' = f.overtaken
          PROVE  ListIsOf(chip)'
      <3>1. f.chip = chip /\ chip' = chip
        BY <1>1, <2>1 DEF FeedIInv, OneChip
      <3> QED
        BY <2>1, <3>1 DEF ListIsOf
    <2>2. list'.items = {} => ListIsOf(chip)'
      BY DEF ListIsOf
    <2> QED
      BY <1>4, <2>1, <2>2
  <1>10. Listed' /\ DiscoveryListed'
    BY <1>9 DEF Listed, DiscoveryListed, ListIsOf
  <1>11. Afters'
    BY <1>1, <1>2 DEF FeedIInv, Afters
  <1>12. Unlisted' /\ Uncrossed'
    BY <1>1, <1>2 DEF FeedIInv, Unlisted, Uncrossed
  <1>13. Gone'
    <2> SUFFICES ASSUME ~crossed', \A q \in InFlight' : fetches'[q].why # "after"
                 PROVE  settled' \cap list'.items = {}
      BY DEF Gone
    <2>1. CASE /\ f.read /\ list'.items = {[row |-> r, for |-> f.chip] : r \in f.rows}
               /\ crossed' = f.crossed
      <3>1. \A i \in settled : i.for = f.chip => i.row \notin f.rows
        BY <1>1, <2>1 DEF FeedIInv, Uncrossed
      <3>2. \A i \in list'.items : i.for = f.chip /\ i.row \in f.rows
        BY <2>1
      <3> QED
        BY <1>1, <3>1, <3>2
    <2>2. CASE list'.items = {}
      BY <2>2
    <2>3. CASE screen \notin Silent /\ list'.items \subseteq list.items /\ crossed' = crossed
      <3>1. \A q \in InFlight : fetches[q].why # "after"
        BY <2>3 DEF FeedIInv, Afters, Silent
      <3>2. settled \cap list.items = {}
        BY <2>3, <3>1 DEF FeedIInv, Gone
      <3> QED
        BY <1>1, <2>3, <3>2
    <2> QED
      BY <1>4, <2>1, <2>2, <2>3
  <1> QED
    BY <1>7, <1>8, <1>10, <1>11, <1>12, <1>13 DEF FeedIInv

\* A change of the fetches that leaves alone what the invariant says of them, but for
\* crossed, which may become TRUE.
LEMMA FlagsKept ==
    ASSUME FeedIInv, fetches' \in Table, InFlight' = InFlight,
           \A s \in InFlight : /\ fetches'[s].chip = fetches[s].chip
                               /\ fetches'[s].why = fetches[s].why
                               /\ fetches'[s].read = fetches[s].read
                               /\ fetches'[s].rows = fetches[s].rows
                               /\ fetches'[s].overtaken = fetches[s].overtaken
                               /\ ~fetches'[s].crossed => ~fetches[s].crossed,
           UNCHANGED <<screen, chip, list, acting, post, listed, settled, overtaken, crossed>>,
           focused' \in BOOLEAN
    PROVE  FeedIInv'
  <1>1. FeedTypeOK' /\ Unopened'
    BY DEF FeedIInv, FeedTypeOK, Unopened, Table
  <1>2. OneChip' /\ Listed' /\ DiscoveryListed'
    BY DEF FeedIInv, OneChip, Listed, DiscoveryListed, ListIsOf
  <1>3. Afters' /\ Unlisted'
    BY DEF FeedIInv, Afters, Unlisted
  <1>4. Uncrossed' /\ Gone'
    BY DEF FeedIInv, Uncrossed, Gone
  <1> QED
    BY <1>1, <1>2, <1>3, <1>4 DEF FeedIInv

\* What another screen on this one changes: the flags of the fetches.
LEMMA FocusStep ==
    ASSUME FeedIInv,
           \/ Leave \/ (Return /\ screen \notin {"Battles", "Events", "Upcoming"})
           \/ UNCHANGED feedVars
    PROVE  FeedIInv'
  <1>1. /\ UNCHANGED <<screen, chip, list, acting, post, listed, settled, overtaken, crossed>>
        /\ focused' \in BOOLEAN /\ fetches \in Table /\ InFlight \subseteq FetchSlot
    BY DEF Leave, Return, Kept, feedVars, FeedIInv, FeedTypeOK, Table, InFlight
  <1>2. CASE Leave /\ screen = "Events"
    <2> DEFINE g(s) == [fetches[s] EXCEPT !.cancelled = TRUE]
    <2>1. \A s \in InFlight : fetches[s] \in Fetch
      BY <1>1 DEF Table, InFlight
    <2>2. \A s \in InFlight : g(s) \in Fetch /\ g(s) # None
      BY <2>1, NoFeedAssumption DEF Fetch
    <2>3. fetches' = [s \in FetchSlot |-> IF s \in InFlight THEN g(s) ELSE fetches[s]]
      BY <1>2 DEF Leave
    <2>4. /\ \A s \in InFlight : fetches'[s] = g(s)
          /\ \A s \in FetchSlot \ InFlight : fetches'[s] = None
      BY <1>1, <2>3 DEF InFlight
    <2>5. \A s \in InFlight : /\ g(s).chip = fetches[s].chip /\ g(s).why = fetches[s].why
                              /\ g(s).read = fetches[s].read /\ g(s).rows = fetches[s].rows
                              /\ g(s).overtaken = fetches[s].overtaken
                              /\ g(s).crossed = fetches[s].crossed
      BY <2>1 DEF Fetch
    <2> HIDE DEF g
    <2>6. \A s \in FetchSlot : fetches'[s] \in Fetch \cup {None}
      BY <2>2, <2>4
    <2>7. fetches' \in Table
      BY <2>3, <2>6 DEF Table
    <2>8. InFlight' = InFlight
      <3>1. \A s \in FetchSlot : fetches'[s] # None <=> s \in InFlight
        BY <2>2, <2>4
      <3> QED
        BY <1>1, <3>1 DEF InFlight
    <2> QED
      BY <1>1, <2>4, <2>5, <2>7, <2>8, FlagsKept
  <1>3. CASE ~(Leave /\ screen = "Events")
    <2>1. fetches' = fetches
      <3>1. CASE Leave
        BY <1>1, <1>3, <3>1 DEF Leave, Table
      <3>2. CASE ~Leave
        BY <3>2 DEF Return, feedVars
      <3> QED
        BY <3>1, <3>2
    <2>2. InFlight' = InFlight
      BY <2>1 DEF InFlight
    <2> QED
      BY <1>1, <2>1, <2>2, FlagsKept
  <1> QED
    BY <1>2, <1>3

\* A row is settled, for the chip that is lit.
LEMMA SettleStep ==
    ASSUME FeedIInv, NEW item \in list.items, Settle(item)
    PROVE  FeedIInv'
  <1> DEFINE p == [row |-> item.row, sport |-> chip, done |-> FALSE]
  <1>1. /\ Offered("settle") /\ acting = None /\ acting' = item.row /\ post' = p
        /\ UNCHANGED <<screen, focused, chip, list, fetches, listed, settled, overtaken, crossed>>
        /\ InFlight' = InFlight
    BY DEF Settle, Kept, InFlight
  <1>2. screen # None /\ chip \in Chip /\ item \in FeedItem
    BY <1>1, FeedOffered DEF FeedIInv, FeedTypeOK, Unopened, FeedState
  <1>3. /\ item.row \in Row /\ item.row # None
        /\ p \in SettlePost /\ p.done = FALSE
    BY <1>2, FeedAssumption DEF FeedItem, SettlePost
  <1> HIDE DEF p
  <1>4. p # None
    BY <1>3, NoFeedAssumption
  <1>5. FeedTypeOK' /\ Unopened'
    BY <1>1, <1>2, <1>3 DEF FeedIInv, FeedTypeOK, Unopened
  <1>6. OneChip' /\ Listed' /\ DiscoveryListed'
    BY <1>1 DEF FeedIInv, OneChip, Listed, DiscoveryListed, ListIsOf
  <1>7. Afters' /\ Unlisted'
    BY <1>1, <1>3 DEF FeedIInv, Afters, Unlisted
  <1>8. Uncrossed' /\ Gone'
    BY <1>1, <1>3 DEF FeedIInv, Uncrossed, Gone
  <1> QED
    BY <1>5, <1>6, <1>7, <1>8 DEF FeedIInv

\* The server settles the row; what was read before has been crossed by it.
LEMMA PostServedStep ==
    ASSUME FeedIInv, PostServed
    PROVE  FeedIInv'
  <1> DEFINE p == [post EXCEPT !.done = TRUE]
             g(s) == [fetches[s] EXCEPT !.crossed = TRUE]
  <1>1. /\ post # None /\ ~post.done /\ post \in SettlePost /\ post' = p
        /\ listed' = [listed EXCEPT ![post.sport] = @ \ {post.row}]
        /\ listed \in [Chip -> SUBSET Row] /\ fetches \in Table
        /\ fetches' = [s \in FetchSlot |-> IF s \in InFlight /\ fetches[s].read THEN g(s)
                                           ELSE fetches[s]]
        /\ UNCHANGED <<screen, focused, chip, list, acting, settled, overtaken, crossed>>
    BY DEF PostServed, Kept, FeedIInv, FeedTypeOK, Table
  <1>2. p \in SettlePost /\ p.row = post.row /\ p.sport = post.sport /\ p.done = TRUE
    BY <1>1 DEF SettlePost
  <1> HIDE DEF p
  <1>3. p # None
    BY <1>2, NoFeedAssumption
  <1>4. /\ listed' \in [Chip -> SUBSET Row] /\ post.sport \in Chip
        /\ \A c \in Chip : listed'[c] \subseteq listed[c]
        /\ post.row \notin listed'[post.sport]
    <2>1. post.sport \in Chip
      BY <1>1 DEF SettlePost
    <2>2. listed[post.sport] \in SUBSET Row
      BY <1>1, <2>1
    <2> QED
      BY <1>1, <2>1, <2>2
  <1>5. /\ InFlight \subseteq FetchSlot /\ \A s \in InFlight : fetches[s] \in Fetch
        /\ \A s \in FetchSlot \ InFlight : fetches[s] = None
    BY <1>1 DEF InFlight, Table
  <1>6. \A s \in InFlight : /\ g(s) \in Fetch /\ g(s) # None
                            /\ g(s).chip = fetches[s].chip /\ g(s).why = fetches[s].why
                            /\ g(s).overtaken = fetches[s].overtaken /\ g(s).crossed = TRUE
    BY <1>5, NoFeedAssumption DEF Fetch
  <1> HIDE DEF g
  <1>7. \A s \in FetchSlot : fetches'[s] = IF s \in InFlight /\ fetches[s].read THEN g(s)
                                           ELSE fetches[s]
    BY <1>1
  <1>8. fetches' \in Table
    <2>1. \A s \in FetchSlot : fetches'[s] \in Fetch \cup {None}
      BY <1>5, <1>6, <1>7
    <2> QED
      BY <1>1, <2>1 DEF Table
  <1>9. InFlight' = InFlight
    <2>1. \A s \in FetchSlot : fetches'[s] # None <=> s \in InFlight
      BY <1>5, <1>6, <1>7 DEF InFlight
    <2> QED
      BY <1>5, <2>1 DEF InFlight
  <1>10. \A s \in InFlight : /\ fetches'[s].chip = fetches[s].chip
                             /\ fetches'[s].why = fetches[s].why
                             /\ fetches'[s].overtaken = fetches[s].overtaken
                             /\ fetches'[s].crossed \/ ~fetches'[s].read
    BY <1>5, <1>6, <1>7
  <1>11. FeedTypeOK' /\ Unopened'
    BY <1>1, <1>2, <1>4, <1>8, <1>9 DEF FeedIInv, FeedTypeOK, Unopened, Table
  <1>12. OneChip' /\ Listed' /\ DiscoveryListed'
    BY <1>1, <1>9, <1>10 DEF FeedIInv, OneChip, Listed, DiscoveryListed, ListIsOf
  <1>13. Afters'
    BY <1>1, <1>9, <1>10 DEF FeedIInv, Afters
  <1>14. Unlisted'
    <2>1. \A i \in settled : i.for \in Chip /\ i.row \notin listed[i.for]
      BY DEF FeedIInv, FeedTypeOK, FeedItem, Unlisted
    <2> QED
      BY <1>1, <1>2, <1>4, <2>1 DEF Unlisted
  <1>15. Uncrossed' /\ Gone'
    BY <1>1, <1>9, <1>10 DEF FeedIInv, Uncrossed, Gone
  <1> QED
    BY <1>11, <1>12, <1>13, <1>14, <1>15 DEF FeedIInv

\* The answer takes the row from the list and, where the screen reloads, asks again.
LEMMA PostAnsweredStep ==
    ASSUME FeedIInv, PostAnswered
    PROVE  FeedIInv'
  <1> DEFINE i0 == [row |-> post.row, for |-> post.sport]
  <1>1. /\ post # None /\ post.done /\ post \in SettlePost /\ post' = None
        /\ settled' = settled \cup {i0}
        /\ UNCHANGED <<screen, focused, chip, listed, overtaken, crossed>>
        /\ fetches \in Table /\ screen # None /\ chip \in Chip
    BY DEF PostAnswered, Kept, FeedIInv, FeedTypeOK, Table, Unopened
  <1>2. i0 \in FeedItem /\ i0.row = post.row /\ i0.for = post.sport
    BY <1>1 DEF SettlePost, FeedItem
  <1> HIDE DEF i0
  <1>3. /\ acting # None
        /\ \A s \in InFlight : fetches[s].why # "after"
    BY <1>1 DEF FeedIInv, Afters
  <1>4. Unlisted'
    BY <1>1, <1>2 DEF FeedIInv, Unlisted
  <1>5. \A s \in InFlight : fetches[s].read /\ ~fetches[s].crossed =>
           \A i \in settled' : i.for = fetches[s].chip => i.row \notin fetches[s].rows
    BY <1>1, <1>2 DEF FeedIInv, Uncrossed
  <1>6. CASE screen = "Events"
    <2>1. Fetched("after") /\ acting' = acting /\ list' = Begun(list, "after")
      BY <1>6 DEF PostAnswered, Fetched
    <2>2. PICK q \in FetchSlot : SentTo({q}, "after")
      BY <2>1, FetchedOne
    <2>3. /\ fetches' \in Table /\ InFlight' = InFlight \cup {q}
          /\ \A s \in InFlight :
                /\ fetches'[s].why = fetches[s].why /\ fetches'[s].chip = fetches[s].chip
                /\ fetches'[s].read = fetches[s].read /\ fetches'[s].rows = fetches[s].rows
                /\ fetches'[s].crossed = fetches[s].crossed
                /\ ~fetches'[s].overtaken => fetches[s].chip = chip
          /\ fetches'[q].why = "after" /\ fetches'[q].chip = chip
          /\ ~fetches'[q].read /\ ~fetches'[q].overtaken
      BY <1>1, <2>2, SentTable
    <2>4. list' \in FeedState
      BY <2>1, BegunTyped DEF FeedIInv, FeedTypeOK
    <2>5. FeedTypeOK' /\ Unopened'
      BY <1>1, <1>2, <2>1, <2>3, <2>4 DEF FeedIInv, FeedTypeOK, Unopened, Table
    <2>6. OneChip' /\ Listed' /\ DiscoveryListed'
      BY <1>1, <1>6, <2>3 DEF OneChip, Listed, DiscoveryListed
    <2>7. Afters'
      BY <1>1, <1>3, <1>6, <2>1, <2>3 DEF Afters
    <2>8. Uncrossed' /\ Gone'
      BY <1>1, <1>5, <2>3 DEF Uncrossed, Gone
    <2> QED
      BY <1>4, <2>5, <2>6, <2>7, <2>8 DEF FeedIInv
  <1>7. CASE screen # "Events"
    <2>1. /\ acting' = None /\ fetches' = fetches /\ InFlight' = InFlight
          /\ list' = [list EXCEPT !.items = {i \in @ : i.row # post.row}]
      BY <1>7 DEF PostAnswered, InFlight
    <2>2. /\ list' \in FeedState /\ list'.error = list.error /\ list'.isLoading = list.isLoading
          /\ list'.items = {i \in list.items : i.row # post.row}
      BY <2>1 DEF FeedIInv, FeedTypeOK, FeedState
    <2>3. FeedTypeOK' /\ Unopened'
      BY <1>1, <1>2, <2>1, <2>2 DEF FeedIInv, FeedTypeOK, Unopened
    <2>4. OneChip' /\ Listed' /\ DiscoveryListed'
      BY <1>1, <2>1, <2>2 DEF FeedIInv, OneChip, Listed, DiscoveryListed, ListIsOf
    <2>5. Afters'
      BY <1>1, <1>3, <2>1 DEF FeedIInv, Afters
    <2>6. Uncrossed'
      BY <1>1, <1>5, <2>1 DEF Uncrossed
    <2>7. Gone'
      BY <1>1, <1>2, <1>3, <2>1, <2>2 DEF FeedIInv, Gone
    <2> QED
      BY <1>4, <2>3, <2>4, <2>5, <2>6, <2>7 DEF FeedIInv
  <1> QED
    BY <1>6, <1>7

\* A failure leaves the list as it is.
LEMMA PostFailedStep ==
    ASSUME FeedIInv, PostFailed
    PROVE  FeedIInv'
  <1>1. /\ post # None /\ post' = None /\ acting' = None /\ InFlight' = InFlight
        /\ UNCHANGED <<screen, focused, chip, list, fetches, listed, settled, overtaken, crossed>>
    BY DEF PostFailed, Kept, InFlight
  <1>2. FeedTypeOK' /\ Unopened'
    BY <1>1 DEF FeedIInv, FeedTypeOK, Unopened
  <1>3. OneChip' /\ Listed' /\ DiscoveryListed'
    BY <1>1 DEF FeedIInv, OneChip, Listed, DiscoveryListed, ListIsOf
  <1>4. Afters' /\ Unlisted'
    BY <1>1 DEF FeedIInv, Afters, Unlisted
  <1>5. Uncrossed' /\ Gone'
    BY <1>1 DEF FeedIInv, Uncrossed, Gone
  <1> QED
    BY <1>2, <1>3, <1>4, <1>5 DEF FeedIInv

\* At first no list is open.
LEMMA FeedInitStep == FeedInit => FeedIInv
  <1> SUFFICES ASSUME FeedInit
               PROVE  FeedIInv
    OBVIOUS
  <1>1. list \in FeedState /\ list.items = {} /\ InFlight = {}
    BY DEF FeedInit, EmptyList, FeedState, FeedItem, InFlight
  <1>2. FeedTypeOK /\ Unopened
    BY <1>1 DEF FeedInit, FeedTypeOK, Unopened
  <1>3. OneChip /\ Listed /\ DiscoveryListed
    BY <1>1 DEF FeedInit, OneChip, Listed, DiscoveryListed, ListIsOf
  <1>4. Afters /\ Unlisted /\ Uncrossed /\ Gone
    BY <1>1 DEF FeedInit, Afters, Unlisted, Uncrossed, Gone
  <1> QED
    BY <1>2, <1>3, <1>4 DEF FeedIInv

\* Every step keeps the invariant of the lists.
LEMMA FeedNextStep ==
    ASSUME FeedIInv, [FeedNext]_feedVars
    PROVE  FeedIInv'
  <1>1. CASE \E feed \in Feed : OpenFeed(feed)
    BY <1>1, OpenFeedStep
  <1>2. CASE \E s \in FetchSlot : FetchEnds(s)
    BY <1>2, FetchReadStep, FetchOverStep DEF FetchEnds
  <1>3. CASE PostEnds
    BY <1>3, PostServedStep, PostAnsweredStep, PostFailedStep DEF PostEnds
  <1>4. CASE Again \/ Pull \/ (Return /\ screen \in {"Battles", "Events", "Upcoming"})
             \/ \E c \in Chip : SetChip(c)
    BY <1>4, UserSends
  <1>5. CASE Leave \/ (Return /\ screen \notin {"Battles", "Events", "Upcoming"})
             \/ UNCHANGED feedVars
    BY <1>5, FocusStep
  <1>6. CASE \E item \in list.items : Settle(item)
    BY <1>6, SettleStep
  <1> QED
    BY <1>1, <1>2, <1>3, <1>4, <1>5, <1>6 DEF FeedNext

\* The strengthening holds in every reachable state.
THEOREM FeedInvariance == FeedSpec => []FeedIInv
BY FeedInitStep, FeedNextStep, PTL DEF FeedSpec

\* The lists, the fetches and the settling requests keep their types.
THEOREM FeedTypes == FeedSpec => []FeedTypeOK
<1>1. FeedIInv => FeedTypeOK
  BY DEF FeedIInv
<1> QED
  BY <1>1, FeedInvariance, PTL

\* A list that stands is that of the chip that is lit, a card of Discovery that can be
\* acted on was found under the sport it is acted on for, and no answer brings back what
\* has been settled for its sport; for any number of fetches that cross each other and
\* the acts (useDiscovery, usePendingSessions, useBlockedUsers and their screens).  Two
\* exceptions are part of the statement, each said of the one answer that the list shows
\* and over with the next: it arrived although a fetch for another chip had been sent
\* after it, or the server had read it before it carried out an act.
THEOREM ListsAreCurrent == FeedSpec => []ListIsCurrent
<1>1. FeedIInv => ListIsCurrent
  <2> SUFFICES ASSUME FeedIInv
               PROVE  ListIsCurrent
    OBVIOUS
  <2>1. ListMatchesChip
    BY DEF FeedIInv, Listed, ListIsOf, ListMatchesChip
  <2>2. CardIsForItsSport
    BY FeedOffered DEF FeedIInv, DiscoveryListed, ListIsOf, CardIsForItsSport
  <2>3. SettledIsGone
    BY DEF FeedIInv, Afters, Gone, SettledIsGone
  <2> QED
    BY <2>1, <2>2, <2>3 DEF ListIsCurrent
<1> QED
  BY <1>1, FeedInvariance, PTL
=============================================================================
