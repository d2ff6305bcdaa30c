---------------------------- MODULE MobileSession ---------------------------
(***************************************************************************)
(* Who is signed in on a device: the auth and profile stores               *)
(* (stores/auth.ts, stores/profile.ts), the bearer token of lib/api.ts,    *)
(* the keychain behind expo-secure-store, and the screens that start their *)
(* operations (splash, login, register, onboarding, profile), with the     *)
(* root navigator that leads from one to the next.                         *)
(*                                                                         *)
(* JavaScript runs one segment at a time: an asynchronous operation is a   *)
(* task that gives way where the code awaits, and one action is everything *)
(* from one await to the next.  A request carries the token that is set    *)
(* when it is sent, whoever is signed in when it is answered.  Calls of    *)
(* the keychain are served in the order in which they are made.            *)
(*                                                                         *)
(* The data of an account is represented by the account.  Of the profile   *)
(* store the profile is kept; steps 2 to 4 of onboarding are one screen    *)
(* here (Forms has them apart, and the lists that they merge into).        *)
(***************************************************************************)
EXTENDS Integers, Sequences

CONSTANTS
    Account,  \* accounts; a token is represented by the account it is for
    Slots,    \* bound on the operations in flight at the same time
    None,     \* null
    MaxDepth  \* bound on the screens that lie on one another

ASSUME NoneAssumption == None \notin Account
ASSUME SlotsAssumption == Slots \in Nat \ {0}
ASSUME MaxDepthAssumption == MaxDepth \in Nat \ {0}

Task == 1 .. Slots

VARIABLES
    secure,     \* the token in SecureStore
    keychain,   \* the tasks that wait for SecureStore, in order
    bearer,     \* _token of lib/api.ts
    token,      \* auth store: token
    user,       \* auth store: user
    isLoading,  \* auth store: isLoading
    latest,     \* the task whose operation has the number authOpVersion
    store,      \* profile store: profile
    stack,      \* the navigator's routes
    task,       \* the operations in flight
    registered, \* server: the accounts that exist
    listed,     \* server: the accounts that have a profile
    overlapped, \* history variable: two auth operations were in flight at once
    mixed       \* history variable: an operation of the profile store and one of
                \* the auth store were, or somebody signed in over another session

identity == <<secure, bearer, token, user>>
server == <<registered, listed>>
crossings == <<overlapped, mixed>>
vars == <<identity, keychain, isLoading, latest, store, stack, task, server, crossings>>

Maybe == Account \cup {None}
Screen == {"Splash", "AuthEntry", "LoginScreen", "RegisterScreen",
           "OnboardingStep1", "OnboardingStep2", "Main", "Profile", "EditProfile"}
UNAUTH_ROUTES == {"Splash", "AuthEntry", "LoginScreen", "RegisterScreen"}

AuthKind == {"initialize", "login", "register", "apple", "logout", "delete"}
Kind == AuthKind \cup {"visit", "save", "step1", "step4", "none"}
KeychainCall == {"read", "persist", "undo", "wipe"}
Call == {"sheet", "post", "me", "erase", "put", "get1", "get2"}

\* Requests that the server answers for the account of their token.
Bearing == {"me", "erase", "put", "get1", "get2"}

\* who: the account of the credentials; hdr: the token the request carries;
\* screen: where the operation was started, while that screen is mounted;
\* got: the profile that fetchProfile has fetched so far.
TaskRow ==
    [kind : Kind, pc : KeychainCall \cup Call \cup {"idle"}, who : Maybe, hdr : Maybe,
     screen : Screen \cup {"gone"}, got : Maybe]
Idle ==
    [kind |-> "none", pc |-> "idle", who |-> None, hdr |-> None, screen |-> "gone",
     got |-> None]

-----------------------------------------------------------------------------
(* The navigator.                                                          *)

Top == stack[Len(stack)]
OnScreen(routes) == {routes[i] : i \in 1 .. Len(routes)}

\* The routes change: a task whose screen is gone navigates no more.
Show(routes, tasks) ==
    /\ stack' = routes
    /\ task' = [s \in Task |-> IF tasks[s].screen \in OnScreen(routes) THEN tasks[s]
                               ELSE [tasks[s] EXCEPT !.screen = "gone"]]

Pop(routes) == SubSeq(routes, 1, Len(routes) - 1)

\* Fault: the old screen goes and no other one comes.
ReplacedRemoved(routes, from, to) == SelectSeq(routes, LAMBDA r : r # from)

\* navigation.replace, which does nothing once its screen is gone.
Replaced(routes, from, to) ==
    IF from \in OnScreen(routes)
    THEN [i \in 1 .. Len(routes) |-> IF routes[i] = from THEN to ELSE routes[i]]
    ELSE routes

\* navigation.navigate goes back to a route that is there, or pushes it.
Navigated(routes, to) ==
    IF to \in OnScreen(routes)
    THEN SubSeq(routes, 1, CHOOSE i \in 1 .. Len(routes) : routes[i] = to)
    ELSE IF Len(routes) < MaxDepth THEN Append(routes, to) ELSE routes

\* RootNavigator's effect on the token: signed out, nobody stays on a screen of
\* the authenticated stack.
SafetyNet(routes) ==
    IF token # None /\ token' = None /\ routes[Len(routes)] \notin UNAUTH_ROUTES
    THEN <<"AuthEntry">> ELSE routes

-----------------------------------------------------------------------------
(* Tasks.                                                                  *)

\* A task goes on to its next await, which is a request or a keychain call.
Waits(t, pc) == [t EXCEPT !.pc = pc]
Sends(t, pc) == [t EXCEPT !.pc = pc, !.hdr = bearer']
With(s, t) == [task EXCEPT ![s] = t]
Ended(s) == [task EXCEPT ![s] = Idle]

Busy(kind, screen) == \E s \in Task : task[s].kind = kind /\ task[s].screen = screen

\* An auth operation that may still write the identity.
InFlight(s) ==
    task[s].kind \in AuthKind
        /\ task[s].pc \in {"post", "read", "persist", "me", "undo", "wipe"}

FetchesProfile(s) == task[s].pc \in {"put", "get1", "get2"}

\* The slots are alike: an operation takes the first that is free.
Free(s) == task[s].pc = "idle" /\ \A q \in 1 .. s - 1 : task[q].pc # "idle"

Start(s, kind, pc, who) ==
    /\ Free(s)
    /\ task' = With(s, [Idle EXCEPT !.kind = kind, !.pc = pc, !.who = who,
                                    !.hdr = IF pc \in Bearing THEN bearer ELSE None,
                                    !.screen = Top])

\* nextAuthOp, and the history variables.
nextAuthOp(s) ==
    /\ latest' = s
    /\ overlapped' = (overlapped \/ \E q \in Task \ {s} : InFlight(q))
    /\ mixed' = \/ mixed \/ overlapped' \/ \E q \in Task \ {s} : FetchesProfile(q)
                \/ task'[s].kind \in {"login", "register", "apple"}
                      /\ (token # None \/ store # None)

StartsProfileCall ==
    /\ mixed' = (mixed \/ \E q \in Task : InFlight(q))
    /\ UNCHANGED overlapped

\* Fault: only the keychain is guarded.
isCurrentAlways(s) == TRUE
isCurrent(s) == s = latest

KeychainTurn(s, pc) ==
    /\ task[s].pc = pc
    /\ keychain # <<>> /\ s = Head(keychain)

\* The server answers for the account of the token, if there is one.
Authorized(s) == task[s].hdr \in registered

-----------------------------------------------------------------------------
(* What the screens offer: operations, and screens to go to.               *)

AuthEntryOffers == {"LoginScreen", "RegisterScreen"}

\* The button that logs in is off while isLoading, the one of Apple never.
LoginOffers == {"apple", "RegisterScreen"} \cup (IF isLoading THEN {} ELSE {"login"})
RegisterOffers == {"LoginScreen"} \cup (IF isLoading THEN {} ELSE {"register"})

\* The button of a form is off while its own request is in flight.
FormOffers(kind, screen) == IF Busy(kind, screen) THEN {} ELSE {kind}

\* ProfileScreen: "Edit" needs a profile, and a press on "Log out" or "Delete my
\* account" does nothing while the account is being deleted.
HeaderOffers == IF store = None THEN {} ELSE {"EditProfile"}
ActionOffers == IF Busy("delete", "Profile") THEN {} ELSE {"logout", "delete"}
ProfileOffers ==
    IF Busy("visit", "Profile") THEN {} ELSE HeaderOffers \cup ActionOffers

\* The tabs; Profile is the one that starts an operation of the stores.
MainTabs == {"Profile"}

Offers ==
    CASE Top = "AuthEntry" -> AuthEntryOffers
      [] Top = "Main" -> MainTabs
      [] Top = "LoginScreen" -> LoginOffers
      [] Top = "RegisterScreen" -> RegisterOffers
      [] Top = "OnboardingStep1" -> FormOffers("step1", Top)
      [] Top = "OnboardingStep2" -> FormOffers("step4", Top)
      [] Top = "EditProfile" -> FormOffers("save", Top)
      [] Top = "Profile" -> ProfileOffers
      [] OTHER -> {}

-----------------------------------------------------------------------------
(* The auth store.                                                         *)

StartLogin(s, a) ==
    /\ "login" \in Offers
    /\ Start(s, "login", "post", a)
    /\ nextAuthOp(s)
    /\ isLoading' = TRUE
    /\ UNCHANGED <<identity, keychain, store, stack, server>>

StartRegister(s, a) ==
    /\ "register" \in Offers
    /\ Start(s, "register", "post", a)
    /\ nextAuthOp(s)
    /\ isLoading' = TRUE
    /\ UNCHANGED <<identity, keychain, store, stack, server>>

\* handleAppleSignIn: the operation begins when the system's sheet comes back with
\* a credential.
OpenAppleSheet(s, a) ==
    /\ "apple" \in Offers
    /\ Start(s, "apple", "sheet", a)
    /\ UNCHANGED <<identity, keychain, isLoading, latest, store, stack, server, crossings>>

CloseAppleSheet(s) ==
    /\ task[s].pc = "sheet"
    /\ task' = Ended(s)
    /\ UNCHANGED <<identity, keychain, isLoading, latest, store, stack, server, crossings>>

StartApple(s) ==
    /\ task[s].pc = "sheet"
    /\ task' = With(s, Waits(task[s], "post"))
    /\ nextAuthOp(s)
    /\ isLoading' = TRUE
    /\ UNCHANGED <<identity, keychain, store, stack, server>>

\* The token arrives: a password opens an account that exists, registration one
\* that does not, and Apple either.
PostAnswered(s) ==
    LET t == task[s]
    IN /\ t.pc = "post" /\ t.kind \in {"login", "register", "apple"}
       /\ t.kind = "login" => t.who \in registered
       /\ t.kind = "register" => t.who \notin registered
       /\ registered' = registered \cup {t.who}
       /\ task' = With(s, Waits(t, "persist"))
       /\ keychain' = Append(keychain, s)
       /\ UNCHANGED <<identity, isLoading, latest, store, stack, listed, crossings>>

\* login, register and loginWithApple are over, and have not thrown: a new
\* account goes to onboarding, another one to routeAfterAuth.
Resolved(s) ==
    IF task[s].kind = "register"
    THEN Show(Replaced(stack, task[s].screen, "OnboardingStep1"), Ended(s))
    ELSE Show(stack, With(s, [Sends(task[s], "get1") EXCEPT !.who = None]))

\* hydrateUserAfterToken after setItemAsync.
hydrateCurrent(s) ==
    LET who == task[s].who
    IN /\ KeychainTurn(s, "persist")
       /\ isCurrent(s)
       /\ keychain' = Tail(keychain)
       /\ secure' = who /\ bearer' = who /\ token' = who /\ user' = None
       /\ task' = With(s, Sends(task[s], "me"))
       /\ UNCHANGED <<isLoading, latest, store, stack, server, crossings>>

\* The operation is stale: the token stays in SecureStore, and the caller goes
\* on as after a login.
hydrateStale(s) ==
    /\ KeychainTurn(s, "persist")
    /\ ~isCurrent(s)
    /\ keychain' = Tail(keychain)
    /\ secure' = task[s].who
    /\ isLoading' = FALSE
    /\ UNCHANGED bearer
    /\ Resolved(s)
    /\ UNCHANGED <<token, user, latest, store, server, crossings>>

\* /auth/me answers: the user of the token that the request carried.
MeAnswered(s) ==
    /\ task[s].pc = "me" /\ task[s].kind # "initialize"
    /\ Authorized(s)
    /\ user' = IF isCurrent(s) THEN task[s].hdr ELSE user
    /\ isLoading' = FALSE
    /\ UNCHANGED bearer
    /\ Resolved(s)
    /\ UNCHANGED <<secure, keychain, token, latest, store, server, crossings>>

\* /auth/me fails: the newest operation drops its token, a stale one throws.
MeFailed(s) ==
    /\ task[s].pc = "me" /\ isCurrent(s)
    /\ task' = With(s, [task[s] EXCEPT !.pc = "undo", !.who = None, !.hdr = None])
    /\ keychain' = Append(keychain, s)
    /\ UNCHANGED <<identity, isLoading, latest, store, stack, server, crossings>>

MeFailedStale(s) ==
    /\ task[s].pc = "me" /\ ~isCurrent(s) /\ task[s].kind # "initialize"
    /\ task' = Ended(s)
    /\ isLoading' = FALSE
    /\ UNCHANGED <<identity, keychain, latest, store, stack, server, crossings>>

\* Fault: requests go on with the token that was refused.
hydrateUndoneBearing(s) ==
    /\ KeychainTurn(s, "undo") /\ task[s].kind # "initialize"
    /\ keychain' = Tail(keychain)
    /\ secure' = None /\ token' = None /\ user' = None
    /\ isLoading' = FALSE
    /\ Show(SafetyNet(stack), Ended(s))
    /\ UNCHANGED <<bearer, latest, store, server, crossings>>

\* deleteItemAsync has run; nothing asks again whether the operation is current.
hydrateUndone(s) ==
    /\ KeychainTurn(s, "undo") /\ task[s].kind # "initialize"
    /\ keychain' = Tail(keychain)
    /\ secure' = None /\ bearer' = None /\ token' = None /\ user' = None
    /\ isLoading' = FALSE
    /\ Show(SafetyNet(stack), Ended(s))
    /\ UNCHANGED <<latest, store, server, crossings>>

\* logout, up to its await; one more press may follow.
StartLogout(s) ==
    /\ "logout" \in Offers
    /\ Start(s, "logout", "wipe", None)
    /\ nextAuthOp(s)
    /\ keychain' = Append(keychain, s)
    /\ UNCHANGED <<identity, isLoading, store, stack, server>>

\* Fault: the profile store outlives the session.
logoutDoneKeeping(s) ==
    /\ KeychainTurn(s, "wipe")
    /\ keychain' = Tail(keychain)
    /\ secure' = None /\ bearer' = None /\ token' = None /\ user' = None
    /\ Show(<<"AuthEntry">>, Ended(s))
    /\ UNCHANGED <<isLoading, latest, store, server, crossings>>

\* The rest of logout and resetToAuthEntry.
logoutDone(s) ==
    /\ KeychainTurn(s, "wipe")
    /\ keychain' = Tail(keychain)
    /\ secure' = None /\ bearer' = None /\ token' = None /\ user' = None
    /\ store' = None
    /\ Show(<<"AuthEntry">>, Ended(s))
    /\ UNCHANGED <<isLoading, latest, server, crossings>>

\* handleDeleteAccount: DELETE /auth/me, once at a time, then logout.
StartDelete(s) ==
    /\ "delete" \in Offers
    /\ Start(s, "delete", "erase", None)
    /\ UNCHANGED <<identity, keychain, isLoading, latest, store, stack, server, crossings>>

EraseAnswered(s) ==
    /\ task[s].pc = "erase" /\ Authorized(s)
    /\ registered' = registered \ {task[s].hdr}
    /\ listed' = listed \ {task[s].hdr}
    /\ task' = With(s, [task[s] EXCEPT !.pc = "wipe", !.hdr = None])
    /\ nextAuthOp(s)
    /\ keychain' = Append(keychain, s)
    /\ UNCHANGED <<identity, isLoading, store, stack>>

-----------------------------------------------------------------------------
(* initialize, and the splash screen that waits for it.                    *)

\* Fault: only a session leads away from the splash screen.
SplashNextSession(s) ==
    IF token' = None THEN Show(stack, Ended(s))
    ELSE Show(stack, With(s, Sends(task[s], "get1")))

\* Splash after initialize: nobody is signed in, or the profile decides.
SplashNext(s) ==
    IF token' = None
    THEN Show(Replaced(stack, task[s].screen, "AuthEntry"), Ended(s))
    ELSE Show(stack, With(s, Sends(task[s], "get1")))

initializeRead(s) ==
    /\ KeychainTurn(s, "read")
    /\ keychain' = Tail(keychain)
    /\ IF secure # None /\ isCurrent(s)
       THEN /\ bearer' = secure
            /\ task' = With(s, Sends(task[s], "me"))
            /\ UNCHANGED <<token, stack>>
       ELSE UNCHANGED <<bearer, token>> /\ SplashNext(s)
    /\ UNCHANGED <<secure, user, isLoading, latest, store, server, crossings>>

initializeAnswered(s) ==
    /\ task[s].pc = "me" /\ task[s].kind = "initialize"
    /\ Authorized(s)
    /\ token' = IF isCurrent(s) THEN task[s].hdr ELSE token
    /\ user' = IF isCurrent(s) THEN task[s].hdr ELSE user
    /\ UNCHANGED bearer
    /\ SplashNext(s)
    /\ UNCHANGED <<secure, keychain, isLoading, latest, store, server, crossings>>

initializeUndone(s) ==
    /\ KeychainTurn(s, "undo") /\ task[s].kind = "initialize"
    /\ keychain' = Tail(keychain)
    /\ secure' = None /\ bearer' = None
    /\ UNCHANGED token
    /\ SplashNext(s)
    /\ UNCHANGED <<user, isLoading, latest, store, server, crossings>>

-----------------------------------------------------------------------------
(* The profile store.                                                      *)

\* fetchProfile: requests one after another, each with the token of its moment.
ProfileArrived(s) ==
    /\ task[s].pc = "get1" /\ Authorized(s) /\ task[s].hdr \in listed
    /\ UNCHANGED bearer
    /\ task' = With(s, [Sends(task[s], "get2") EXCEPT !.got = task[s].hdr])
    /\ UNCHANGED <<secure, token, user, keychain, isLoading, latest, store, stack,
                   server, crossings>>

\* The last request, the write into the store, and what the caller does next:
\* the splash and login screens go on to the tabs (a profile that exists has the
\* fields of step 1), EditProfile goes back.
SportsArrived(s) ==
    LET t == task[s]
    IN /\ t.pc = "get2" /\ Authorized(s)
       /\ store' = t.got
       /\ Show(CASE t.kind \in {"initialize", "login", "apple"} ->
                      Replaced(stack, t.screen, "Main")
                 [] t.kind = "save" /\ t.screen # "gone" -> Pop(stack)
                 [] OTHER -> stack, Ended(s))
       /\ UNCHANGED <<identity, keychain, isLoading, latest, server, crossings>>

\* The screens that write.  ProfileScreen fetches when it is mounted.
VisitProfile(s) ==
    /\ "Profile" \in Offers
    /\ Free(s)
    /\ Show([stack EXCEPT ![Len(stack)] = "Profile"],
            With(s, [Idle EXCEPT !.kind = "visit", !.pc = "get1", !.hdr = bearer,
                                 !.screen = "Profile"]))
    /\ StartsProfileCall
    /\ UNCHANGED <<identity, keychain, isLoading, latest, store, server>>

\* handleContinue of step 1, handleFinish of step 4, and handleSave.
Submit(s, kind) ==
    /\ kind \in Offers
    /\ Start(s, kind, "put", None)
    /\ StartsProfileCall
    /\ UNCHANGED <<identity, keychain, isLoading, latest, store, stack, server>>

SubmitStep1(s) == Submit(s, "step1")
SubmitStep4(s) == Submit(s, "step4")
SubmitEdit(s) == Submit(s, "save")

\* upsertProfile: onboarding goes on to the next step, EditProfile fetches.
ProfileStored(s) ==
    LET t == task[s]
    IN /\ t.pc = "put" /\ t.kind \in {"step1", "save"} /\ Authorized(s)
       /\ listed' = listed \cup {t.hdr}
       /\ store' = t.hdr
       /\ UNCHANGED bearer
       /\ IF t.kind = "save" THEN Show(stack, With(s, Sends(t, "get1")))
          ELSE Show(Navigated(stack, "OnboardingStep2"), Ended(s))
       /\ UNCHANGED <<secure, token, user, keychain, isLoading, latest, registered,
                      crossings>>

\* upsertSportProfile; the onboarding is over.
SportsStored(s) ==
    /\ task[s].pc = "put" /\ task[s].kind = "step4" /\ Authorized(s)
    /\ Show(Replaced(stack, task[s].screen, "Main"), Ended(s))
    /\ UNCHANGED <<identity, keychain, isLoading, latest, store, server, crossings>>

\* Fault: an operation that fails leaves isLoading on.
RequestFailedLoading(s) ==
    /\ task[s].pc \in Call \ {"sheet", "me"}
    /\ Show(stack, Ended(s))
    /\ UNCHANGED <<identity, keychain, isLoading, latest, store, server, crossings>>

\* A request is refused or not answered within the 15 seconds of request(): the
\* caller shows an error, and after a login onboarding starts.
RequestFailed(s) ==
    /\ task[s].pc \in Call \ {"sheet", "me"}
    /\ isLoading' = IF task[s].pc = "post" THEN FALSE ELSE isLoading
    /\ Show(IF task[s].kind \in {"initialize", "login", "apple"} /\ task[s].pc # "post"
            THEN Replaced(stack, task[s].screen, "OnboardingStep1") ELSE stack, Ended(s))
    /\ UNCHANGED <<identity, keychain, latest, store, server, crossings>>

\* The server has done what it was asked and the answer is lost.
AnswerLost(s) ==
    LET t == task[s]
    IN \/ /\ t.pc = "post" /\ t.kind \in {"register", "apple"}
          /\ registered' = registered \cup {t.who}
          /\ isLoading' = FALSE
          /\ UNCHANGED listed
          /\ task' = Ended(s)
          /\ UNCHANGED <<identity, keychain, latest, store, stack, crossings>>
       \/ /\ t.pc = "erase" /\ Authorized(s)
          /\ registered' = registered \ {t.hdr}
          /\ listed' = listed \ {t.hdr}
          /\ task' = Ended(s)
          /\ UNCHANGED <<identity, keychain, isLoading, latest, store, stack, crossings>>
       \/ /\ t.pc = "put" /\ t.kind \in {"step1", "save"} /\ Authorized(s)
          /\ listed' = listed \cup {t.hdr}
          /\ task' = Ended(s)
          /\ UNCHANGED <<identity, keychain, isLoading, latest, store, stack, registered,
                         crossings>>

-----------------------------------------------------------------------------
(* Links, the back gesture, and a restart of the app.                      *)

Move(routes) ==
    /\ Show(routes, task)
    /\ UNCHANGED <<identity, keychain, isLoading, latest, store, server, crossings>>

OpenAuthScreen(screen) ==
    /\ screen \in Offers
    /\ Move(IF Top = "AuthEntry" THEN Navigated(stack, screen)
            ELSE Replaced(stack, Top, screen))
OpenEditProfile == "EditProfile" \in Offers /\ Move(Navigated(stack, "EditProfile"))

\* replace and navigate leave what lies beneath, and the gesture goes back to it.
Back == Len(stack) > 1 /\ Move(Pop(stack))

\* The process ends and the app starts again with what SecureStore has.
Restart ==
    /\ bearer' = None /\ token' = None /\ user' = None /\ isLoading' = FALSE
    /\ store' = None
    /\ stack' = <<"Splash">>
    /\ latest' = 1
    /\ keychain' = <<1>>
    /\ task' = [q \in Task |-> IF q # 1 THEN Idle
                ELSE [Idle EXCEPT !.kind = "initialize", !.pc = "read", !.screen = "Splash"]]
    /\ overlapped' = FALSE /\ mixed' = FALSE
    /\ UNCHANGED <<secure, server>>

Init ==
    /\ secure \in Maybe
    /\ bearer = None /\ token = None /\ user = None /\ isLoading = FALSE
    /\ store = None
    /\ stack = <<"Splash">>
    /\ latest = 1
    /\ keychain = <<1>>
    /\ task = [q \in Task |-> IF q # 1 THEN Idle
               ELSE [Idle EXCEPT !.kind = "initialize", !.pc = "read", !.screen = "Splash"]]
    /\ registered \in SUBSET Account
    /\ listed \in SUBSET registered
    /\ overlapped = FALSE /\ mixed = FALSE

\* What an operation in flight does next.
Continue(s) ==
    \/ PostAnswered(s) \/ hydrateCurrent(s) \/ hydrateStale(s)
    \/ MeAnswered(s) \/ MeFailed(s) \/ MeFailedStale(s) \/ hydrateUndone(s)
    \/ logoutDone(s) \/ EraseAnswered(s)
    \/ initializeRead(s) \/ initializeAnswered(s) \/ initializeUndone(s)
    \/ ProfileArrived(s) \/ SportsArrived(s)
    \/ ProfileStored(s) \/ SportsStored(s)
    \/ RequestFailed(s) \/ AnswerLost(s)

User(s) ==
    \/ \E a \in Account : StartLogin(s, a) \/ StartRegister(s, a) \/ OpenAppleSheet(s, a)
    \/ CloseAppleSheet(s) \/ StartApple(s)
    \/ StartLogout(s) \/ StartDelete(s) \/ VisitProfile(s)
    \/ SubmitStep1(s) \/ SubmitStep4(s) \/ SubmitEdit(s)

Next ==
    \/ \E s \in Task : Continue(s) \/ User(s)
    \/ \E screen \in {"LoginScreen", "RegisterScreen"} : OpenAuthScreen(screen)
    \/ OpenEditProfile \/ Back \/ Restart

Spec == Init /\ [][Next]_vars

\* Every request is answered or times out, and the keychain serves its calls.
FairSpec == Spec /\ \A s \in Task : WF_vars(Continue(s))

-----------------------------------------------------------------------------
(* Properties.                                                             *)

\* Every variable has its type.
TypeOK ==
    /\ secure \in Maybe /\ bearer \in Maybe /\ token \in Maybe /\ user \in Maybe
    /\ keychain \in Seq(Task)
    /\ isLoading \in BOOLEAN /\ overlapped \in BOOLEAN /\ mixed \in BOOLEAN
    /\ latest \in Task
    /\ store \in Maybe
    /\ stack \in Seq(Screen) /\ stack # <<>>
    /\ task \in [Task -> TaskRow]
    /\ registered \in SUBSET Account
    /\ listed \in SUBSET Account

\* Nothing is ever sent in the name of another account than the one the screens
\* show as signed in, however operations overlap and stale ones answer late.
UserIsSender == user # None => bearer \in {user, None}

\* Auth operations that do not overlap leave one identity everywhere: in memory,
\* on the requests and in SecureStore, so that a restart signs in the same account
\* or nobody.
Settled ==
    (~overlapped /\ \A s \in Task : ~InFlight(s)) =>
        secure = token /\ bearer = token /\ user = token

\* The profile that the screens show is never somebody else's: the store outlives
\* neither a logout nor the deletion of the account, unless a request for a profile
\* crossed a change of the session.
StoreIsUsers ==
    (~mixed /\ \A s \in Task : ~InFlight(s)) => store \in {None, user}

\* When nothing is in flight there is one identity: in the keychain, in memory, on the
\* requests and in the profile.
OneIdentity ==
    /\ Settled
    /\ StoreIsUsers

\* The spinner that keeps the login buttons off goes away.
SpinnerStops == isLoading ~> ~isLoading

\* The splash screen does not stay, unless the app is restarted for ever.
SplashLeaves ==
    <>[][~Restart]_vars => ((Top = "Splash") ~> (Top # "Splash"))

\* Neither a spinner nor the splash screen stays.
NothingHangs ==
    /\ SpinnerStops
    /\ SplashLeaves
=============================================================================
