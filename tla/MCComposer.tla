----------------------------- MODULE MCComposer -----------------------------
(***************************************************************************)
(* An instance of SessionComposer for TLC.  The times of a booking and its *)
(* place do not meet before it is submitted, so a behaviour has one or the *)
(* other.                                                                  *)
(***************************************************************************)
EXTENDS SessionComposer

\* Once the place has been touched the pickers of the times stay closed, and the
\* clock stands still; once the times have been touched, the place stays as it is.
PlaceTouched == located # "idle" \/ location # "" \/ kind = "battle"
TimesTouched == modal # "none" \/ edited # now \/ draft # InitialDraft(now)

\* The form is left alone while a request is in flight, the other fields are filled
\* in before the picker is opened, and the picker is searched by radius, on the
\* map and with the footer for a booking, and by text for a game.
Focused ==
    /\ PlaceTouched => UNCHANGED <<now, modal>>
    /\ TimesTouched => UNCHANGED <<location, isOpen>>
    /\ sent # None => UNCHANGED <<modal, isOpen, place, fields, sport>>
    /\ located' # "idle" => UNCHANGED fields /\ (kind = "battle" => fields.title /\ fields.capacity)
    /\ lost > 0 => UNCHANGED isOpen
    /\ kind = "booking" => form'.searchText = ""
    /\ kind = "battle" => form'.radiusOption = "near" /\ form'.manualText = ""
                        /\ form'.mode = "list"

FocusedSpec == Init /\ [][Next /\ Focused]_vars /\ Fairness
=============================================================================
