--------------------------------- MODULE Chat --------------------------------
(***************************************************************************)
(* The conversation of a match on one device (ChatScreen): its history,    *)
(* the messages that the WebSocket brings, the messages that are sent, and *)
(* the proposals of sessions between them, with the service behind it      *)
(* (routers/chat.py, services/chat.py) and the partner.                    *)
(*                                                                         *)
(* A message is represented by its place in the server's history, which    *)
(* is the order of created_at.  The socket is never opened again after it  *)
(* was lost.                                                               *)
(***************************************************************************)
EXTENDS Naturals, Sequences, SequencesExt, FiniteSets, Screens

CONSTANTS
    Proposal,     \* the sessions that may be proposed
    Limit,        \* limit of GET /matches/{id}/messages, 100 in the code
    MaxMessages,  \* bound on the messages of the conversation
    MaxRefreshes  \* bound on the fetches of proposals in flight at the same time

ASSUME LimitAssumption == Limit \in Nat \ {0} /\ MaxMessages \in Nat
ASSUME RefreshAssumption == MaxRefreshes \in Nat \ {0}
ASSUME NoProposalAssumption ==
    Proposal \cap {None, "propose", "report", "block", "again", "type", "send"} = {}

VARIABLES
    chat,       \* the screen: not yet open, in front, under another one, or left
    history,    \* server: who sent each message
    unsent,     \* server: the messages that are stored and not yet broadcast
    socket,     \* the WebSocket
    frames,     \* the messages on their way through it
    messages,   \* state of the screen
    load,       \* fetchMessages in flight, with isLoading and fetchError
    draft,      \* something has been typed
    sending,    \* the request behind isSending
    booked,     \* server: the proposals
    proposals,  \* state of the screen: their cards
    refreshes,  \* fetchProposals in flight
    deciding,   \* the request behind actingBookingId
    blocking,   \* the request behind isBlocking
    notes       \* history variables

listVars == <<history, unsent, socket, frames, messages, draft, sending>>
cardVars == <<booked, proposals, refreshes, deciding>>
chatVars == <<chat, listVars, load, cardVars, blocking, notes>>

Message == 1 .. MaxMessages
Sender == {"me", "partner"}
ProposalStatus == {"proposed", "confirmed", "declined", "cancelled"}
PROPOSAL_FETCH_STATUSES == {"proposed", "confirmed", "declined"}
BookingItem == [proposer : Sender, status : ProposalStatus]
Cards == [Proposal -> BookingItem \cup {None}]

\* fetchMessages waits for the history and for the proposals together.  upto: how
\* many messages the server returned; cards: they have arrived, too.
NoLoad == [waits |-> FALSE, read |-> FALSE, got |-> FALSE, upto |-> 0, cards |-> FALSE,
           isLoading |-> FALSE, fetchError |-> FALSE]
LoadState == [waits : BOOLEAN, read : BOOLEAN, got : BOOLEAN, upto : 0 .. MaxMessages,
              cards : BOOLEAN, isLoading : BOOLEAN, fetchError : BOOLEAN]

\* ofLoad: fetchMessages waits for this one.
RefreshState == [ofLoad : BOOLEAN, read : BOOLEAN, items : Cards]
Sending == [stored : 0 .. MaxMessages]
Deciding == [id : Proposal, to : {"confirmed", "declined"},
             phase : {"sent", "accepted", "refused"}]

\* early: the socket was there when the history was read.  missed: an answer or
\* the socket was lost.  others: the partner changed a proposal that no fetch will
\* read, an answer was lost, or a fetch crossed a decision or another fetch.
Notes == [early : BOOLEAN, missed : BOOLEAN, others : BOOLEAN]

\* None is no screen, no card and no request.
ASSUME NoChatAssumption ==
    None \notin {"front", "under", "left"} \cup BookingItem \cup Sending \cup Deciding
                  \cup RefreshState

RefreshSlot == 1 .. MaxRefreshes
NoCards == [p \in Proposal |-> None]

-----------------------------------------------------------------------------
(* lib/messages.ts, and what the screen offers.                            *)

\* Fault: nothing is dropped.
dedupeNothing(s) == s

\* dedupeMessagesById keeps the first occurrence.
dedupeMessagesById(s) ==
    LET out[i \in 0 .. Len(s)] ==
            IF i = 0 THEN <<>>
            ELSE IF s[i] \in ToSet(out[i - 1]) THEN out[i - 1] ELSE Append(out[i - 1], s[i])
    IN out[Len(s)]

\* The composer and the cards are there when nothing is loaded and nothing failed.
TimelineShown == ~load.isLoading /\ ~load.fetchError

\* SessionProposalCard: Accept and Decline, on a proposal of the partner.
showActionButtons(p) ==
    proposals[p] # None /\ proposals[p].status = "proposed"
        /\ proposals[p].proposer # "me"

\* One card decides at a time, whichever it is.
CardOffers(p) == IF showActionButtons(p) /\ deciding = None THEN {p} ELSE {}

SafetyMenu == {"report", "block"}
HeaderOffers == {"propose"} \cup SafetyMenu
TimelineOffers ==
    CASE load.isLoading -> {}
      [] ~load.isLoading /\ load.fetchError -> {"again"}
      [] OTHER ->
           {"type"} \cup (IF draft /\ sending = None THEN {"send"} ELSE {}) \cup
           UNION {CardOffers(p) : p \in Proposal}
ChatOffers == IF chat = "front" THEN HeaderOffers \cup TimelineOffers ELSE {}

-----------------------------------------------------------------------------
(* Loading.                                                                *)

\* A fetch of the proposals takes the first free slot.
Refreshed(ofLoad) ==
    \E s \in RefreshSlot :
        /\ refreshes[s] = None /\ \A q \in 1 .. s - 1 : refreshes[q] # None
        /\ refreshes' = [refreshes EXCEPT ![s] =
                            [ofLoad |-> ofLoad, read |-> FALSE, items |-> NoCards]]

Crossing ==
    \/ deciding # None /\ \E s \in RefreshSlot : refreshes[s] # None
    \/ \E s, q \in RefreshSlot : s # q /\ refreshes[s] # None /\ refreshes[q] # None
Crossed == [notes EXCEPT !.others = @ \/ Crossing']

\* The screen is mounted: it fetches, and opens the socket.
OpenChat ==
    /\ chat = None
    /\ chat' = "front"
    /\ load' = [load EXCEPT !.waits = TRUE, !.isLoading = TRUE]
    /\ socket' = "opening"
    /\ Refreshed(TRUE)
    /\ UNCHANGED <<history, unsent, frames, messages, draft, sending, booked, proposals,
                   deciding, blocking, notes>>

\* "Try again": fetchMessages leaves isLoading and fetchError alone.  A second
\* press is left out while the first is in flight.
TryAgain ==
    /\ "again" \in ChatOffers /\ ~load.waits
    /\ load' = [NoLoad EXCEPT !.waits = TRUE, !.fetchError = load.fetchError]
    /\ Refreshed(TRUE)
    /\ UNCHANGED <<chat, listVars, booked, proposals, deciding, blocking>>
    /\ notes' = Crossed

\* services/chat.py returns the oldest messages.
HistoryRead ==
    /\ load.waits /\ ~load.read
    /\ load' = [load EXCEPT !.read = TRUE,
                            !.upto = IF Len(history) < Limit THEN Len(history) ELSE Limit]
    /\ notes' = [notes EXCEPT !.early = socket = "open"]
    /\ UNCHANGED <<chat, listVars, cardVars, blocking>>

\* Fault: the answer replaces what the socket has brought meanwhile.
MergedOver(l) == [i \in 1 .. l.upto |-> i]

\* The answer is merged before the messages that are there.
Merged(l) == dedupeMessagesById([i \in 1 .. l.upto |-> i] \o messages)

\* Promise.all: the messages are shown when both requests have been answered.
LoadProgress(l) ==
    IF l.got /\ l.cards
    THEN /\ messages' = Merged(l)
         /\ load' = [NoLoad EXCEPT !.fetchError = l.fetchError]
    ELSE load' = l /\ UNCHANGED messages

HistoryArrived ==
    /\ load.waits /\ load.read /\ ~load.got
    /\ LoadProgress([load EXCEPT !.got = TRUE])
    /\ UNCHANGED <<chat, history, unsent, socket, frames, draft, sending, cardVars, blocking,
                   notes>>

\* Fault: the screen goes on loading.
LoadGivenUpLoading == [NoLoad EXCEPT !.fetchError = TRUE, !.isLoading = load.isLoading]

\* One of the two fails: the other one is not waited for any more.
LoadGivenUp == [NoLoad EXCEPT !.fetchError = TRUE]

HistoryFailed ==
    /\ load.waits /\ ~load.got
    /\ load' = LoadGivenUp
    /\ refreshes' = [s \in RefreshSlot |-> IF refreshes[s] = None THEN None
                                    ELSE [refreshes[s] EXCEPT !.ofLoad = FALSE]]
    /\ notes' = [notes EXCEPT !.missed = TRUE]
    /\ UNCHANGED <<chat, listVars, booked, proposals, deciding, blocking>>

Visible(cards) ==
    [p \in Proposal |-> IF cards[p] # None /\ cards[p].status \in PROPOSAL_FETCH_STATUSES
                        THEN cards[p] ELSE None]

RefreshRead(s) ==
    /\ refreshes[s] # None /\ ~refreshes[s].read
    /\ refreshes' = [refreshes EXCEPT ![s].read = TRUE, ![s].items = Visible(booked)]
    /\ UNCHANGED <<chat, listVars, load, booked, proposals, deciding, blocking, notes>>

RefreshArrived(s) ==
    /\ refreshes[s] # None /\ refreshes[s].read
    /\ proposals' = refreshes[s].items
    /\ refreshes' = [refreshes EXCEPT ![s] = None]
    /\ IF refreshes[s].ofLoad THEN LoadProgress([load EXCEPT !.cards = TRUE])
       ELSE UNCHANGED <<load, messages>>
    /\ UNCHANGED <<chat, history, unsent, socket, frames, draft, sending, booked, deciding,
                   blocking, notes>>

\* A failed refresh on focus is not shown at all.
RefreshFailed(s) ==
    /\ refreshes[s] # None
    /\ refreshes' = [refreshes EXCEPT ![s] = None]
    /\ load' = IF refreshes[s].ofLoad THEN LoadGivenUp ELSE load
    /\ notes' = [notes EXCEPT !.others = TRUE, !.missed = @ \/ refreshes[s].ofLoad]
    /\ UNCHANGED <<chat, listVars, booked, proposals, deciding, blocking>>

-----------------------------------------------------------------------------
(* Messages.                                                               *)

\* send_message commits; the broadcast follows.
Stored(sender) ==
    /\ Len(history) < MaxMessages
    /\ history' = Append(history, sender)
    /\ unsent' = unsent \cup {Len(history')}

PartnerSends ==
    /\ chat \notin {None, "left"}
    /\ Stored("partner")
    /\ UNCHANGED <<chat, socket, frames, messages, draft, sending, load, cardVars, blocking,
                   notes>>

\* _ConnectionManager.broadcast: in whatever order the requests get there.
Broadcast(m) ==
    /\ m \in unsent
    /\ unsent' = unsent \ {m}
    /\ frames' = IF socket = "open" THEN Append(frames, m) ELSE frames
    /\ UNCHANGED <<chat, history, socket, messages, draft, sending, load, cardVars, blocking,
                   notes>>

SocketOpened ==
    /\ socket = "opening"
    /\ socket' = "open"
    /\ UNCHANGED <<chat, history, unsent, frames, messages, draft, sending, load, cardVars,
                   blocking, notes>>

SocketLost ==
    /\ socket \in {"opening", "open"}
    /\ socket' = "lost"
    /\ frames' = <<>>
    /\ notes' = [notes EXCEPT !.missed = TRUE]
    /\ UNCHANGED <<chat, history, unsent, messages, draft, sending, load, cardVars, blocking>>

\* ws.onmessage.
FrameArrived ==
    /\ frames # <<>>
    /\ messages' = dedupeMessagesById(Append(messages, Head(frames)))
    /\ frames' = Tail(frames)
    /\ UNCHANGED <<chat, history, unsent, socket, draft, sending, load, cardVars, blocking,
                   notes>>

Type ==
    /\ "type" \in ChatOffers
    /\ draft' = ~draft
    /\ UNCHANGED <<chat, history, unsent, socket, frames, messages, sending, load, cardVars,
                   blocking, notes>>

\* sendMessage, up to its await.
Send ==
    /\ "send" \in ChatOffers
    /\ draft' = FALSE
    /\ sending' = [stored |-> 0]
    /\ UNCHANGED <<chat, history, unsent, socket, frames, messages, load, cardVars, blocking,
                   notes>>

SendServed ==
    /\ sending # None /\ sending.stored = 0
    /\ Stored("me")
    /\ sending' = [stored |-> Len(history')]
    /\ UNCHANGED <<chat, socket, frames, messages, draft, load, cardVars, blocking, notes>>

\* The text goes back into the box after a failure, whatever has been typed since.
SendAnswered ==
    /\ sending # None /\ sending.stored # 0
    /\ messages' = dedupeMessagesById(Append(messages, sending.stored))
    /\ sending' = None
    /\ UNCHANGED <<chat, history, unsent, socket, frames, draft, load, cardVars, blocking,
                   notes>>

SendFailed ==
    /\ sending # None
    /\ draft' = TRUE
    /\ sending' = None
    /\ UNCHANGED <<chat, history, unsent, socket, frames, messages, load, cardVars, blocking,
                   notes>>

-----------------------------------------------------------------------------
(* Proposals.                                                              *)

\* Another screen lies on the chat: the composer, a booking, or a report.
LeaveChat ==
    /\ ChatOffers \cap {"propose", "report"} # {}
    /\ chat' = "under"
    /\ UNCHANGED <<listVars, load, cardVars, blocking, notes>>

\* The focus comes back: the proposals are fetched.
ReturnToChat ==
    /\ chat = "under"
    /\ chat' = "front"
    /\ Refreshed(FALSE)
    /\ UNCHANGED <<listVars, load, booked, proposals, deciding, blocking>>
    /\ notes' = Crossed

\* The composer's proposal; the booking's own page.
ProposeThere(p) ==
    /\ chat = "under" /\ booked[p] = None
    /\ booked' = [booked EXCEPT ![p] = [proposer |-> "me", status |-> "proposed"]]
    /\ UNCHANGED <<chat, listVars, load, proposals, refreshes, deciding, blocking, notes>>

CancelThere(p) ==
    /\ chat = "under" /\ booked[p] # None
    /\ \/ booked[p].status = "proposed" /\ booked[p].proposer = "me"
       \/ booked[p].status = "confirmed"
    /\ booked' = [booked EXCEPT ![p].status = "cancelled"]
    /\ UNCHANGED <<chat, listVars, load, proposals, refreshes, deciding, blocking, notes>>

\* The partner proposes, or answers, or cancels.
PartnerBooks(p) ==
    /\ chat \notin {None, "left"}
    /\ \/ booked[p] = None
          /\ booked' = [booked EXCEPT ![p] = [proposer |-> "partner", status |-> "proposed"]]
       \/ /\ booked[p] # None
          /\ \E to \in CASE booked[p].status = "confirmed" -> {"cancelled"}
                         [] booked[p].status # "proposed" /\ booked[p].status # "confirmed" -> {}
                         [] OTHER -> IF booked[p].proposer = "me"
                                     THEN {"confirmed", "declined"} ELSE {"cancelled"} :
                booked' = [booked EXCEPT ![p].status = to]
    /\ notes' = [notes EXCEPT !.others =
                    @ \/ \A s \in RefreshSlot : refreshes[s] = None \/ refreshes[s].read]
    /\ UNCHANGED <<chat, listVars, load, proposals, refreshes, deciding, blocking>>

\* performBookingAction, up to its await.
Decide(p, to) ==
    /\ p \in ChatOffers
    /\ deciding' = [id |-> p, to |-> to, phase |-> "sent"]
    /\ UNCHANGED refreshes
    /\ notes' = Crossed
    /\ UNCHANGED <<chat, listVars, load, booked, proposals, blocking>>

DecisionServed ==
    /\ deciding # None /\ deciding.phase = "sent"
    /\ IF booked[deciding.id].status = "proposed" /\ booked[deciding.id].proposer = "partner"
       THEN /\ booked' = [booked EXCEPT ![deciding.id].status = deciding.to]
            /\ deciding' = [deciding EXCEPT !.phase = "accepted"]
       ELSE deciding' = [deciding EXCEPT !.phase = "refused"] /\ UNCHANGED booked
    /\ UNCHANGED <<chat, listVars, load, proposals, refreshes, blocking, notes>>

\* Fault: the card keeps its buttons.
DecisionAnsweredOnly ==
    /\ deciding # None /\ deciding.phase = "accepted"
    /\ deciding' = None
    /\ UNCHANGED <<chat, listVars, load, booked, refreshes, blocking, notes, proposals>>

\* The answer replaces the card, if it is still there.
DecisionAnswered ==
    /\ deciding # None /\ deciding.phase = "accepted"
    /\ proposals' = [proposals EXCEPT ![deciding.id] =
                        IF @ = None THEN None ELSE [@ EXCEPT !.status = deciding.to]]
    /\ deciding' = None
    /\ UNCHANGED <<chat, listVars, load, booked, refreshes, blocking, notes>>

DecisionFailed ==
    /\ deciding # None
    /\ notes' = [notes EXCEPT !.others = @ \/ deciding.phase = "accepted"]
    /\ deciding' = None
    /\ UNCHANGED <<chat, listVars, load, booked, proposals, refreshes, blocking>>

-----------------------------------------------------------------------------
(* Blocking: the alert's button goes back.                                 *)

performBlock ==
    /\ "block" \in ChatOffers /\ ~blocking
    /\ blocking' = TRUE
    /\ UNCHANGED <<chat, listVars, load, cardVars, notes>>

BlockAnswered ==
    /\ blocking
    /\ blocking' = FALSE
    /\ chat' = "left"
    /\ socket' = "closed" /\ frames' = <<>>
    /\ UNCHANGED <<history, unsent, messages, draft, sending, load, cardVars, notes>>

BlockFailed ==
    /\ blocking
    /\ blocking' = FALSE
    /\ UNCHANGED <<chat, listVars, load, cardVars, notes>>

-----------------------------------------------------------------------------
ChatInit ==
    /\ chat = None
    /\ history = <<>> /\ unsent = {} /\ socket = "closed" /\ frames = <<>>
    /\ messages = <<>> /\ load = NoLoad
    /\ draft = FALSE /\ sending = None
    /\ booked = NoCards /\ proposals = NoCards
    /\ refreshes = [s \in RefreshSlot |-> None]
    /\ deciding = None /\ blocking = FALSE
    /\ notes = [early |-> FALSE, missed |-> FALSE, others |-> FALSE]

HistoryEnds == HistoryRead \/ HistoryArrived \/ HistoryFailed
RefreshEnds(s) == RefreshRead(s) \/ RefreshArrived(s) \/ RefreshFailed(s)
SendEnds == SendServed \/ SendAnswered \/ SendFailed
DecisionEnds == DecisionServed \/ DecisionAnswered \/ DecisionFailed
BlockEnds == BlockAnswered \/ BlockFailed

ChatNext ==
    \/ OpenChat \/ TryAgain \/ HistoryEnds
    \/ \E s \in RefreshSlot : RefreshEnds(s)
    \/ PartnerSends \/ SocketOpened \/ SocketLost \/ FrameArrived
    \/ \E m \in Message : Broadcast(m)
    \/ Type \/ Send \/ SendEnds
    \/ LeaveChat \/ ReturnToChat
    \/ \E p \in Proposal :
          \/ ProposeThere(p) \/ CancelThere(p) \/ PartnerBooks(p)
          \/ \E to \in {"confirmed", "declined"} : Decide(p, to)
    \/ DecisionEnds
    \/ performBlock \/ BlockEnds

ChatSpec == ChatInit /\ [][ChatNext]_chatVars

\* Every request is answered, refused or given up after its timeout.
ChatFairness ==
    /\ WF_chatVars(HistoryEnds) /\ \A s \in RefreshSlot : WF_chatVars(RefreshEnds(s))
    /\ WF_chatVars(SendEnds) /\ WF_chatVars(DecisionEnds)
FairChatSpec == ChatSpec /\ ChatFairness

-----------------------------------------------------------------------------
(* Properties.                                                             *)

\* Every variable has its type.
ChatTypeOK ==
    /\ chat \in {None, "front", "under", "left"}
    /\ history \in Seq(Sender) /\ Len(history) <= MaxMessages
    /\ unsent \in SUBSET Message
    /\ socket \in {"closed", "opening", "open", "lost"}
    /\ frames \in Seq(Message)
    /\ messages \in Seq(Message) /\ Len(messages) <= MaxMessages
    /\ load \in LoadState
    /\ draft \in BOOLEAN /\ sending \in Sending \cup {None}
    /\ booked \in Cards /\ proposals \in Cards
    /\ refreshes \in [RefreshSlot -> RefreshState \cup {None}]
    /\ deciding \in Deciding \cup {None} /\ blocking \in BOOLEAN
    /\ notes \in Notes

Shown == ToSet(messages)

\* When everything is quiet the conversation is complete: what the partner has sent
\* while the history was on its way is there, too, and so is what the user has
\* sent.  That needs a socket that was open when the history was read, and a
\* history that fits into one page.
NothingMissed ==
    (/\ chat \in {"front", "under"} /\ TimelineShown /\ ~load.waits /\ sending = None
     /\ frames = <<>> /\ unsent = {} /\ notes.early /\ ~notes.missed
     /\ Len(history) <= Limit) => Shown = 1 .. Len(history)

\* lib/messages.ts: a message that arrives from the history, from the socket and
\* as the answer to sending it is shown once.
ShownOnce == Cardinality(Shown) = Len(messages)

\* When everything is quiet the cards are those of the server: also of a session
\* that was proposed or cancelled on another screen, and of a proposal that was
\* accepted here, unless the partner acts, an answer is lost or a fetch crosses a
\* decision or another fetch.
OwnCardsShown ==
    (/\ chat = "front" /\ ~load.waits /\ deciding = None /\ ~notes.others /\ ~notes.missed
     /\ \A s \in RefreshSlot : refreshes[s] = None) => proposals = Visible(booked)

\* Every message of the conversation is shown, and shown once, and the cards between
\* them are those of the server.
ConversationIsWhole ==
    /\ NothingMissed
    /\ ShownOnce
    /\ OwnCardsShown

\* Loading, sending and deciding come to an end.
ChatSettles ==
    /\ load.isLoading ~> ~load.isLoading
    /\ (sending # None) ~> (sending = None)
    /\ (deciding # None) ~> (deciding = None)
=============================================================================
