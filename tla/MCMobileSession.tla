--------------------------- MODULE MCMobileSession --------------------------
(***************************************************************************)
(* Instances of MobileSession for TLC.                                     *)
(***************************************************************************)
EXTENDS MobileSession

CONSTANTS a, b

\* One account has a password and a profile from the start, and keeps them; the
\* other one is opened here, by registration or with Apple, and may be deleted.
\* Of the requests for the profile, one is in flight at a time.
ProfileCalls(tasks) == {s \in Task : tasks[s].pc \in {"put", "get1", "get2"}}

Drawn ==
    /\ a \in listed'
    /\ \A s \in Task :
        /\ task'[s].kind = "login" => task'[s].who \in {a, None}
        /\ task'[s].kind \in {"register", "apple"} => task'[s].who \in {b, None}
    /\ \A s, q \in ProfileCalls(task') : s = q

DrawnSpec ==
    /\ Init /\ registered = {a} /\ listed = {a}
    /\ [][Next /\ Drawn]_vars
    /\ \A s \in Task : WF_vars(Continue(s))
=============================================================================
