----------------------------- MODULE HonorLedger -----------------------------
(***************************************************************************)
(* What the verified-result path promises, with no requests, locks or      *)
(* transactions: the two participants of a game each report a winner once, *)
(* a report is never changed, and the second report, when it agrees with   *)
(* the first, applies the result at that instant: the game counts once and *)
(* the ladder's title moves to the winner when nobody or the loser held    *)
(* it.  history is the chain of those moves.                               *)
(*                                                                         *)
(* Challenges.tla implements this specification.                           *)
(***************************************************************************)
EXTENDS Naturals, Sequences

CONSTANTS User, Challenge, Ladder, Nobody

VARIABLES
    game,     \* the players and the ladder of each challenge
    report,   \* the winner each user has reported
    applied,  \* how often a game's result was applied
    holder,   \* who holds the title of a ladder
    history   \* how the title moved

vars == <<game, report, applied, holder, history>>

NoGame == [challenger |-> Nobody, opponent |-> Nobody, ladder |-> Nobody]

Init ==
    /\ game = [c \in Challenge |-> NoGame]
    /\ report = [c \in Challenge |-> [u \in User |-> Nobody]]
    /\ applied = [c \in Challenge |-> 0]
    /\ holder = [l \in Ladder |-> Nobody]
    /\ history = [l \in Ladder |-> <<>>]

Open(c, u, v, l) ==
    /\ game[c] = NoGame
    /\ u # v
    /\ game' = [game EXCEPT ![c] = [challenger |-> u, opponent |-> v, ladder |-> l]]
    /\ UNCHANGED <<report, applied, holder, history>>

\* The winner w takes the title from nobody or from the loser x.
MoveTitle(c, w, x) ==
    LET l == game[c].ladder IN
    IF holder[l] \in {Nobody, x}
    THEN /\ holder' = [holder EXCEPT ![l] = w]
         /\ history' = [history EXCEPT ![l] =
                Append(@, [previous |-> holder[l], new |-> w, source |-> c])]
    ELSE UNCHANGED <<holder, history>>

\* u reports that w beat x; v is the other player.
Report(c, u, v, w, x) ==
    /\ u # v /\ {u, v} = {game[c].challenger, game[c].opponent}
    /\ w # x /\ {w, x} = {u, v}
    /\ report[c][u] = Nobody
    /\ report' = [report EXCEPT ![c][u] = w]
    /\ IF report[c][v] = w
       THEN applied' = [applied EXCEPT ![c] = @ + 1] /\ MoveTitle(c, w, x)
       ELSE UNCHANGED <<applied, holder, history>>
    /\ UNCHANGED game

Next ==
    \E c \in Challenge, u, v \in User :
       \/ \E l \in Ladder : Open(c, u, v, l)
       \/ \E w, x \in {u, v} : Report(c, u, v, w, x)

Spec == Init /\ [][Next]_vars
=============================================================================
