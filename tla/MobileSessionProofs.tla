------------------------- MODULE MobileSessionProofs -------------------------
(***************************************************************************)
(* Proofs about MobileSession, for every set of accounts, any number of    *)
(* operations in flight and screens of any depth: types, that nothing is   *)
(* sent in the name of another account than the one that is shown, and     *)
(* that operations which do not overlap leave one identity everywhere.     *)
(***************************************************************************)
EXTENDS MobileSession, SequenceTheorems, TLAPS

\* The routes of a navigator: EditProfile always lies on another screen, so that
\* the screen that is saved can go back.
Routes == {r \in Seq(Screen) : r # <<>> /\ r[1] # "EditProfile"}

\* A task of EditProfile navigates as long as its screen is there, credentials are
\* somebody's, and initialize has its own steps.
RowOK(t) ==
    /\ t.kind = "initialize" => t.pc \in {"read", "me", "undo", "get1", "get2"}
    /\ t.pc = "read" => t.kind = "initialize"
    /\ t.kind = "save" => t.screen \in {"EditProfile", "gone"}
    /\ t.pc \in {"sheet", "post"} => t.who \in Account
Mounted == \A s \in Task : task[s].screen \in OnScreen(stack) \cup {"gone"}

\* initialize has not yet given way to the screens.
Early(s) == task[s].kind = "initialize" /\ task[s].pc \in {"read", "me", "undo"}

\* Nobody else runs until then, and nobody is signed in.
Starting ==
    \A s \in Task : Early(s) =>
        /\ stack = <<"Splash">> /\ latest = s
        /\ user = None /\ token = None
        /\ \A q \in Task \ {s} : task[q].pc = "idle"

\* The newest operation asks /auth/me with the token that is set, if one is.
MeCurrent ==
    \A s \in Task : task[s].pc = "me" /\ s = latest => bearer \in {task[s].hdr, None}

IInv ==
    /\ TypeOK
    /\ stack \in Routes
    /\ \A s \in Task : RowOK(task[s])
    /\ Mounted /\ Starting /\ MeCurrent
    /\ UserIsSender

-----------------------------------------------------------------------------
(* The navigator.                                                          *)

\* A screen that replaces another one leaves a stack of screens.
LEMMA ReplacedRoutes ==
    ASSUME NEW r \in Routes, NEW from, NEW to \in Screen \ {"EditProfile"}
    PROVE  Replaced(r, from, to) \in Routes
  <1> DEFINE new == [i \in 1 .. Len(r) |-> IF r[i] = from THEN to ELSE r[i]]
  <1>1. r \in Seq(Screen) /\ r # <<>> /\ r[1] # "EditProfile"
    BY DEF Routes
  <1>2. Len(r) \in Nat /\ Len(r) >= 1 /\ \A i \in 1 .. Len(r) : r[i] \in Screen
    BY <1>1, ElementOfSeq, LenProperties, EmptySeq
  <1>3. new \in Seq(Screen) /\ Len(new) = Len(r)
    <2>1. \A i \in 1 .. Len(r) : new[i] \in Screen
      BY <1>2
    <2> QED
      BY <2>1, <1>2, IsASeq
  <1>4. new # <<>> /\ new[1] # "EditProfile"
    BY <1>1, <1>2, <1>3
  <1> QED
    BY <1>1, <1>3, <1>4 DEF Replaced, Routes

\* The beginning of a route is a route.
LEMMA PrefixRoutes ==
    ASSUME NEW r \in Routes, NEW n \in 1 .. Len(r)
    PROVE  SubSeq(r, 1, n) \in Routes
  <1>1. r \in Seq(Screen) /\ r # <<>> /\ r[1] # "EditProfile" /\ Len(r) \in Nat
    BY LenProperties DEF Routes
  <1>2. \A i \in 1 .. n : i \in 1 .. Len(r)
    BY <1>1
  <1>3. SubSeq(r, 1, n) \in Seq(Screen) /\ Len(SubSeq(r, 1, n)) = n
        /\ SubSeq(r, 1, n)[1] = r[1]
    BY <1>1, <1>2, SubSeqProperties, ElementOfSeq
  <1>4. SubSeq(r, 1, n) # <<>>
    BY <1>3, LenProperties, EmptySeq
  <1> QED
    BY <1>1, <1>3, <1>4 DEF Routes

\* So does one that is navigated to.
LEMMA NavigatedRoutes ==
    ASSUME NEW r \in Routes, NEW to \in Screen
    PROVE  Navigated(r, to) \in Routes
  <1>1. r \in Seq(Screen) /\ r # <<>> /\ r[1] # "EditProfile" /\ Len(r) \in Nat /\ Len(r) >= 1
    BY LenProperties, EmptySeq DEF Routes
  <1>2. CASE to \in OnScreen(r)
    <2>1. \E i \in 1 .. Len(r) : r[i] = to
      BY <1>2 DEF OnScreen
    <2>2. (CHOOSE i \in 1 .. Len(r) : r[i] = to) \in 1 .. Len(r)
      BY <2>1
    <2> QED
      BY <1>2, <2>2, PrefixRoutes DEF Navigated
  <1>3. CASE to \notin OnScreen(r) /\ Len(r) < MaxDepth
    <2>1. Append(r, to) \in Seq(Screen) /\ Append(r, to) # <<>> /\ Append(r, to)[1] = r[1]
      BY <1>1, AppendProperties
    <2> QED
      BY <1>1, <1>3, <2>1 DEF Navigated, Routes
  <1>4. CASE to \notin OnScreen(r) /\ ~(Len(r) < MaxDepth)
    BY <1>4 DEF Navigated
  <1> QED
    BY <1>2, <1>3, <1>4

\* So does one that is left.
LEMMA PopRoutes ==
    ASSUME NEW r \in Routes, Len(r) > 1
    PROVE  Pop(r) \in Routes
  <1>1. Len(r) \in Nat /\ Len(r) - 1 \in 1 .. Len(r)
    BY LenProperties DEF Routes
  <1> QED
    BY <1>1, PrefixRoutes DEF Pop

\* The two stacks the app may begin with are stacks of screens.
LEMMA FirstRoutes ==
    /\ <<"AuthEntry">> \in Routes
    /\ <<"Splash">> \in Routes
  BY DEF Routes, Screen

\* The safety net of the root navigator keeps one.
LEMMA NetRoutes ==
    ASSUME NEW r \in Routes
    PROVE  SafetyNet(r) \in Routes
  BY FirstRoutes DEF SafetyNet

-----------------------------------------------------------------------------
(* One step of one task.                                                   *)

\* The task s has become t, perhaps without its screen; the others are what they
\* were, perhaps without theirs.
Became(s, t) ==
    /\ stack' \in Routes
    /\ task' \in [Task -> TaskRow]
    /\ \A q \in Task : RowOK(task'[q])
    /\ Mounted'
    /\ \A q \in Task \ {s} : /\ task'[q].kind = task[q].kind
                             /\ task'[q].pc = task[q].pc
                             /\ task'[q].hdr = task[q].hdr
    /\ task'[s].kind = t.kind /\ task'[s].pc = t.pc /\ task'[s].hdr = t.hdr

\* A navigation while s becomes t.
LEMMA ShowBecame ==
    ASSUME IInv, NEW s \in Task, NEW t \in TaskRow, RowOK(t),
           NEW routes \in Routes, Show(routes, With(s, t))
    PROVE  Became(s, t)
  <1> DEFINE tasks == With(s, t)
             lost(x) == [x EXCEPT !.screen = "gone"]
  <1>1. tasks \in [Task -> TaskRow] /\ tasks[s] = t
        /\ \A q \in Task \ {s} : tasks[q] = task[q]
    BY DEF IInv, TypeOK, With
  <1>2. \A x \in TaskRow : /\ lost(x) \in TaskRow
                           /\ lost(x).kind = x.kind /\ lost(x).pc = x.pc
                           /\ lost(x).hdr = x.hdr /\ lost(x).who = x.who
                           /\ lost(x).screen = "gone"
    BY DEF TaskRow
  <1>3. stack' = routes
        /\ task' = [q \in Task |-> IF tasks[q].screen \in OnScreen(routes) THEN tasks[q]
                                   ELSE lost(tasks[q])]
    BY DEF Show
  <1> HIDE DEF tasks, lost
  <1>4. ASSUME NEW q \in Task
        PROVE  /\ task'[q] \in TaskRow
               /\ task'[q].kind = tasks[q].kind /\ task'[q].pc = tasks[q].pc
               /\ task'[q].hdr = tasks[q].hdr /\ task'[q].who = tasks[q].who
               /\ task'[q].screen \in {tasks[q].screen, "gone"}
               /\ task'[q].screen \in OnScreen(routes) \cup {"gone"}
    <2>1. tasks[q] \in TaskRow
      BY <1>1
    <2>2. CASE tasks[q].screen \in OnScreen(routes)
      BY <1>3, <2>1, <2>2
    <2>3. CASE tasks[q].screen \notin OnScreen(routes)
      BY <1>2, <1>3, <2>1, <2>3
    <2> QED
      BY <2>2, <2>3
  <1>5. task' \in [Task -> TaskRow]
    BY <1>3, <1>4
  <1>6. \A q \in Task : RowOK(tasks[q])
    BY <1>1 DEF IInv
  <1>7. \A q \in Task : RowOK(task'[q])
    BY <1>4, <1>6 DEF RowOK
  <1>8. Mounted'
    BY <1>3, <1>4 DEF Mounted
  <1> QED
    BY <1>1, <1>3, <1>4, <1>5, <1>7, <1>8 DEF Became

\* No navigation while s becomes t.
LEMMA StayBecame ==
    ASSUME IInv, NEW s \in Task, NEW t \in TaskRow, RowOK(t),
           t.screen \in OnScreen(stack) \cup {"gone"},
           task' = With(s, t), stack' = stack
    PROVE  Became(s, t)
  <1>1. task' \in [Task -> TaskRow] /\ task'[s] = t
        /\ \A q \in Task \ {s} : task'[q] = task[q]
    BY DEF IInv, TypeOK, With
  <1>2. Mounted'
    BY <1>1 DEF Mounted, IInv
  <1> QED
    BY <1>1, <1>2 DEF Became, IInv

\* What a step has to show of the identity.
LEMMA StepKeeps ==
    ASSUME IInv, NEW s \in Task, NEW t, Became(s, t),
           \A q \in Task \ {s} : ~Early(q),
           secure' \in Maybe, bearer' \in Maybe, token' \in Maybe, user' \in Maybe,
           keychain' \in Seq(Task), isLoading' \in BOOLEAN, overlapped' \in BOOLEAN,
           mixed' \in BOOLEAN, latest' \in Task, store' \in Maybe,
           registered' \in SUBSET Account, listed' \in SUBSET Account,
           user' # None => bearer' \in {user', None},
           t.pc = "me" /\ latest' = s => bearer' \in {t.hdr, None},
           latest' # s => latest' = latest /\ bearer' \in {bearer, None},
           t.kind = "initialize" /\ t.pc \in {"read", "me", "undo"} =>
              /\ Early(s)
              /\ stack' = stack /\ latest' = latest /\ user' = None /\ token' = None
    PROVE  IInv'
  <1>1. stack' \in Seq(Screen) /\ stack' # <<>> /\ task' \in [Task -> TaskRow]
    BY DEF Became, Routes
  <1>2. TypeOK'
    BY <1>1 DEF TypeOK
  <1>3. MeCurrent'
    <2> SUFFICES ASSUME NEW q \in Task, task'[q].pc = "me", q = latest'
                 PROVE  bearer' \in {task'[q].hdr, None}
      BY DEF MeCurrent
    <2>1. CASE q = s
      BY <2>1 DEF Became
    <2>2. CASE q # s
      BY <2>2 DEF Became, IInv, MeCurrent
    <2> QED
      BY <2>1, <2>2
  <1>4. Starting'
    <2> SUFFICES ASSUME NEW q \in Task, Early(q)'
                 PROVE  /\ stack' = <<"Splash">> /\ latest' = q
                        /\ user' = None /\ token' = None
                        /\ \A p \in Task \ {q} : task'[p].pc = "idle"
      BY DEF Starting
    <2>1. q = s
      BY DEF Became, Early
    <2>2. t.kind = "initialize" /\ t.pc \in {"read", "me", "undo"}
      BY <2>1 DEF Became, Early
    <2>3. Early(s)
      BY <2>2
    <2>4. stack = <<"Splash">> /\ latest = s /\ \A p \in Task \ {s} : task[p].pc = "idle"
      BY <2>3 DEF IInv, Starting
    <2> QED
      BY <2>1, <2>2, <2>4 DEF Became
  <1>5. UserIsSender'
    BY DEF UserIsSender
  <1>6. (stack \in Routes)' /\ (\A q \in Task : RowOK(task[q]))' /\ Mounted'
    BY DEF Became, RowOK
  <1> QED
    BY <1>2, <1>3, <1>4, <1>5, <1>6 DEF IInv

\* While the app starts nothing else runs and nothing is offered.
LEMMA Alone ==
    ASSUME IInv, NEW s \in Task, task[s].pc # "idle" \/ Offers # {}
    PROVE  \A q \in Task \ {s} : ~Early(q)
  <1>1. ASSUME NEW q \in Task \ {s}, Early(q), Offers # {}
        PROVE  FALSE
    <2>1. stack = <<"Splash">>
      BY <1>1 DEF IInv, Starting
    <2>2. Top = "Splash"
      BY <2>1 DEF Top
    <2> QED
      BY <1>1, <2>2 DEF Offers
  <1> QED
    BY <1>1 DEF IInv, Starting

\* The screen on top is on the stack, which is never empty.
LEMMA TopScreen ==
    ASSUME IInv
    PROVE  Top \in Screen /\ Top \in OnScreen(stack) /\ Len(stack) \in Nat /\ Len(stack) >= 1
  <1>1. stack \in Seq(Screen) /\ Len(stack) \in Nat /\ Len(stack) >= 1
    BY LenProperties, EmptySeq DEF IInv, TypeOK
  <1>2. Len(stack) \in 1 .. Len(stack)
    BY <1>1
  <1> QED
    BY <1>1, <1>2, ElementOfSeq DEF Top, OnScreen

\* An operation that starts: it is none of initialize, and has not reached /auth/me.
LEMMA StartBecame ==
    ASSUME IInv, NEW s \in Task, NEW kind \in Kind \ {"initialize"},
           NEW pc \in (KeychainCall \cup Call) \ {"read"}, NEW who \in Maybe,
           kind = "save" => Top = "EditProfile",
           pc \in {"sheet", "post"} => who \in Account,
           Start(s, kind, pc, who), stack' = stack
    PROVE  \E t \in TaskRow : t.kind = kind /\ t.pc = pc /\ Became(s, t)
  <1> DEFINE t == [Idle EXCEPT !.kind = kind, !.pc = pc, !.who = who,
                               !.hdr = IF pc \in Bearing THEN bearer ELSE None,
                               !.screen = Top]
  <1>1. t \in TaskRow /\ t.kind = kind /\ t.pc = pc /\ t.who = who /\ t.screen = Top
    BY TopScreen DEF Idle, TaskRow, Maybe, IInv, TypeOK
  <1>2. task' = With(s, t)
    BY DEF Start
  <1> HIDE DEF t
  <1>3. RowOK(t)
    BY <1>1 DEF RowOK
  <1>4. Became(s, t)
    BY <1>1, <1>2, <1>3, TopScreen, StayBecame
  <1> QED
    BY <1>1, <1>4

\* Operations of the auth store that the user starts.
LEMMA AuthStarts ==
    ASSUME IInv, NEW s \in Task, NEW a \in Account,
           StartLogin(s, a) \/ StartRegister(s, a) \/ OpenAppleSheet(s, a)
    PROVE  IInv'
  <1>1. Offers # {}
    BY DEF StartLogin, StartRegister, OpenAppleSheet
  <1>2. \A q \in Task \ {s} : ~Early(q)
    BY <1>1, Alone
  <1>3. PICK t \in TaskRow : t.kind # "initialize" /\ t.pc # "me" /\ Became(s, t)
    <2>1. CASE StartLogin(s, a)
      BY <2>1, StartBecame DEF StartLogin, Kind, AuthKind, Call, Maybe
    <2>2. CASE StartRegister(s, a)
      BY <2>2, StartBecame DEF StartRegister, Kind, AuthKind, Call, Maybe
    <2>3. CASE OpenAppleSheet(s, a)
      <3>1. Start(s, "apple", "sheet", a) /\ stack' = stack
        BY <2>3 DEF OpenAppleSheet
      <3>2. "apple" \in Kind \ {"initialize"} /\ "sheet" \in (KeychainCall \cup Call) \ {"read"}
            /\ a \in Maybe
        BY DEF Kind, AuthKind, Call, Maybe
      <3>3. \E t \in TaskRow : t.kind = "apple" /\ t.pc = "sheet" /\ Became(s, t)
        BY <3>1, <3>2, StartBecame
      <3> QED
        BY <3>3
    <2> QED
      BY <2>1, <2>2, <2>3
  <1>4. /\ UNCHANGED <<identity, keychain, store, server>>
        /\ isLoading' \in BOOLEAN
        /\ latest' \in {s, latest}
        /\ overlapped' \in BOOLEAN /\ mixed' \in BOOLEAN
    BY DEF StartLogin, StartRegister, OpenAppleSheet, nextAuthOp, crossings, IInv, TypeOK
  <1> QED
    BY <1>2, <1>3, <1>4, StepKeeps DEF identity, server, IInv, TypeOK, UserIsSender, MeCurrent

\* The queue of keychain calls is one of tasks.
LEMMA KeychainTurns ==
    ASSUME IInv, NEW s \in Task
    PROVE  /\ keychain # <<>> => Tail(keychain) \in Seq(Task)
           /\ Append(keychain, s) \in Seq(Task)
  BY HeadTailProperties, AppendProperties DEF IInv, TypeOK

\* logout, deletion of the account, and the screens that save.
LEMMA OtherStarts ==
    ASSUME IInv, NEW s \in Task,
           \/ StartLogout(s) \/ StartDelete(s)
           \/ SubmitStep1(s) \/ SubmitStep4(s) \/ SubmitEdit(s)
    PROVE  IInv'
  <1>1. Offers # {}
    BY DEF StartLogout, StartDelete, SubmitStep1, SubmitStep4, SubmitEdit, Submit
  <1>2. \A q \in Task \ {s} : ~Early(q)
    BY <1>1, Alone
  <1>3. ASSUME Submit(s, "save")
        PROVE  Top = "EditProfile"
    BY <1>3 DEF Submit, Offers, AuthEntryOffers, MainTabs, LoginOffers, RegisterOffers,
                FormOffers, ProfileOffers, HeaderOffers, ActionOffers
  <1>4. PICK t \in TaskRow : t.kind # "initialize" /\ t.pc # "me" /\ Became(s, t)
    <2>1. CASE StartLogout(s)
      BY <2>1, StartBecame DEF StartLogout, Kind, AuthKind, KeychainCall, Maybe
    <2>2. CASE StartDelete(s)
      BY <2>2, StartBecame DEF StartDelete, Kind, AuthKind, Call, Maybe
    <2>3. CASE SubmitStep1(s)
      BY <2>3, StartBecame DEF SubmitStep1, Submit, Kind, AuthKind, Call, Maybe
    <2>4. CASE SubmitStep4(s)
      BY <2>4, StartBecame DEF SubmitStep4, Submit, Kind, AuthKind, Call, Maybe
    <2>5. CASE SubmitEdit(s)
      BY <2>5, <1>3, StartBecame DEF SubmitEdit, Submit, Kind, AuthKind, Call, Maybe
    <2> QED
      BY <2>1, <2>2, <2>3, <2>4, <2>5
  <1>5. /\ UNCHANGED <<identity, isLoading, store, server>>
        /\ latest' \in {s, latest}
        /\ overlapped' \in BOOLEAN /\ mixed' \in BOOLEAN
    BY DEF StartLogout, StartDelete, SubmitStep1, SubmitStep4, SubmitEdit, Submit,
           nextAuthOp, StartsProfileCall, crossings, IInv, TypeOK
  <1>6. keychain' \in Seq(Task)
    <2>1. keychain' \in {keychain, Append(keychain, s)}
      BY DEF StartLogout, StartDelete, SubmitStep1, SubmitStep4, SubmitEdit, Submit
    <2> QED
      BY <2>1, KeychainTurns DEF IInv, TypeOK
  <1> QED
    BY <1>2, <1>4, <1>5, <1>6, StepKeeps DEF identity, server, IInv, TypeOK, UserIsSender, MeCurrent

\* A visit of the profile sends the token that is set.
LEMMA VisitStep ==
    ASSUME IInv, NEW s \in Task, VisitProfile(s)
    PROVE  IInv'
  <1> DEFINE t == [Idle EXCEPT !.kind = "visit", !.pc = "get1", !.hdr = bearer,
                               !.screen = "Profile"]
             routes == [stack EXCEPT ![Len(stack)] = "Profile"]
  <1>1. \A q \in Task \ {s} : ~Early(q)
    BY Alone DEF VisitProfile
  <1>2. t \in TaskRow /\ t.kind = "visit" /\ t.pc = "get1" /\ RowOK(t)
    BY DEF Idle, TaskRow, Maybe, IInv, TypeOK, RowOK, Kind, KeychainCall, Call, Screen
  <1>3. routes \in Routes
    <2>1. stack \in Seq(Screen) /\ stack[1] # "EditProfile" /\ Len(stack) \in 1 .. Len(stack)
      BY TopScreen DEF IInv, Routes
    <2>2. routes \in Seq(Screen) /\ Len(routes) = Len(stack)
          /\ \A i \in 1 .. Len(stack) : routes[i] = IF i = Len(stack) THEN "Profile" ELSE stack[i]
      BY <2>1, ExceptSeq DEF Screen
    <2>3. routes # <<>> /\ routes[1] # "EditProfile"
      BY <2>1, <2>2, EmptySeq, TopScreen
    <2> QED
      BY <2>2, <2>3 DEF Routes
  <1> HIDE DEF t, routes
  <1>4. Became(s, t)
    BY <1>2, <1>3, ShowBecame DEF VisitProfile, t, routes
  <1>5. /\ UNCHANGED <<identity, keychain, isLoading, latest, store, server>>
        /\ overlapped' \in BOOLEAN /\ mixed' \in BOOLEAN
    BY DEF VisitProfile, StartsProfileCall, IInv, TypeOK
  <1> QED
    BY <1>1, <1>2, <1>4, <1>5, StepKeeps
       DEF identity, server, IInv, TypeOK, UserIsSender, MeCurrent

\* A task keeps its kind and its screen when it goes on.
LEMMA RowStays ==
    ASSUME IInv, NEW s \in Task, NEW t \in TaskRow,
           t.kind = task[s].kind, t.screen = task[s].screen,
           t.pc \in {"sheet", "post"} => t.who \in Account,
           t.kind = "initialize" => t.pc \in {"read", "me", "undo", "get1", "get2"},
           t.pc # "read"
    PROVE  RowOK(t) /\ t.screen \in OnScreen(stack) \cup {"gone"}
  BY DEF IInv, Mounted, RowOK

\* A free slot promises nothing.
LEMMA IdleRow == Idle \in TaskRow /\ RowOK(Idle) /\ Idle.screen = "gone"
                 /\ Idle.kind = "none" /\ Idle.pc = "idle"
  BY DEF Idle, TaskRow, Kind, Maybe, RowOK


-----------------------------------------------------------------------------
(* The operations go on.                                                   *)

\* Requests of the auth store, and its sheet.
LEMMA RequestSteps ==
    ASSUME IInv, NEW s \in Task,
           \/ CloseAppleSheet(s) \/ StartApple(s) \/ PostAnswered(s)
           \/ MeFailedStale(s) \/ EraseAnswered(s)
    PROVE  IInv'
  <1>1. task[s] \in TaskRow /\ task[s].pc \in {"sheet", "post", "me", "erase"}
    BY DEF CloseAppleSheet, StartApple, PostAnswered, MeFailedStale, EraseAnswered, IInv, TypeOK
  <1>2. \A q \in Task \ {s} : ~Early(q)
    BY <1>1, Alone
  <1>8. task[s].kind # "initialize" \/ MeFailedStale(s)
    BY DEF CloseAppleSheet, StartApple, PostAnswered, EraseAnswered, IInv, RowOK
  <1>3. PICK t \in TaskRow : /\ task' = With(s, t)
                            /\ t.pc \notin {"me", "read", "undo"}
                            /\ RowOK(t)
                            /\ t.screen \in OnScreen(stack) \cup {"gone"}
    <2>1. CASE CloseAppleSheet(s) \/ MeFailedStale(s)
      BY <2>1, IdleRow DEF CloseAppleSheet, MeFailedStale, Ended, With
    <2>2. ASSUME NEW pc \in {"post", "persist", "wipe"}, NEW hdr \in Maybe,
                 pc = "post" => task[s].pc = "sheet", task[s].kind # "initialize",
                 task' = With(s, [task[s] EXCEPT !.pc = pc, !.hdr = hdr])
          PROVE  \E t \in TaskRow : /\ task' = With(s, t)
                                    /\ t.pc \notin {"me", "read", "undo"}
                                    /\ RowOK(t)
                                    /\ t.screen \in OnScreen(stack) \cup {"gone"}
      <3> DEFINE t == [task[s] EXCEPT !.pc = pc, !.hdr = hdr]
      <3>1. t \in TaskRow /\ t.pc = pc /\ t.kind = task[s].kind /\ t.screen = task[s].screen
            /\ t.who = task[s].who
        BY <1>1 DEF TaskRow, KeychainCall, Call
      <3>2. pc = "post" => task[s].who \in Account
        BY <2>2 DEF IInv, RowOK
      <3> QED
        BY <2>2, <3>1, <3>2, RowStays
    <2>3. CASE StartApple(s) \/ PostAnswered(s)
      <3>1. PICK pc \in {"post", "persist"} :
               task' = With(s, [task[s] EXCEPT !.pc = pc]) /\ (pc = "post" => task[s].pc = "sheet")
        BY <2>3 DEF StartApple, PostAnswered, Waits
      <3>2. [task[s] EXCEPT !.pc = pc] = [task[s] EXCEPT !.pc = pc, !.hdr = task[s].hdr]
        BY <1>1 DEF TaskRow
      <3>3. task[s].hdr \in Maybe
        BY <1>1 DEF TaskRow
      <3> QED
        BY <1>8, <2>2, <2>3, <3>1, <3>2, <3>3 DEF MeFailedStale
    <2>4. CASE EraseAnswered(s)
      BY <1>8, <2>2, <2>4 DEF EraseAnswered, MeFailedStale, Maybe
    <2> QED
      BY <2>1, <2>3, <2>4 DEF PostAnswered
  <1>4. Became(s, t)
    BY <1>3, StayBecame DEF CloseAppleSheet, StartApple, PostAnswered, MeFailedStale, EraseAnswered
  <1>5. UNCHANGED <<identity, store>> /\ latest' \in {s, latest}
        /\ isLoading' \in BOOLEAN /\ overlapped' \in BOOLEAN /\ mixed' \in BOOLEAN
    BY DEF CloseAppleSheet, StartApple, PostAnswered, MeFailedStale, EraseAnswered, nextAuthOp,
           crossings, IInv, TypeOK
  <1>6. keychain' \in Seq(Task)
    <2>1. keychain' \in {keychain, Append(keychain, s)}
      BY DEF CloseAppleSheet, StartApple, PostAnswered, MeFailedStale, EraseAnswered
    <2> QED
      BY <2>1, KeychainTurns DEF IInv, TypeOK
  <1>7. registered' \in SUBSET Account /\ listed' \in SUBSET Account
    <2>1. CASE PostAnswered(s)
      <3>1. task[s].who \in Account
        BY <2>1 DEF PostAnswered, IInv, RowOK
      <3> QED
        BY <2>1, <3>1 DEF PostAnswered, IInv, TypeOK
    <2>2. CASE ~PostAnswered(s)
      BY <2>2 DEF CloseAppleSheet, StartApple, MeFailedStale, EraseAnswered, server, IInv, TypeOK
    <2> QED
      BY <2>1, <2>2
  <1> QED
    BY <1>2, <1>3, <1>4, <1>5, <1>6, <1>7, StepKeeps
       DEF identity, IInv, TypeOK, UserIsSender, MeCurrent

\* The token is in SecureStore and the operation is still the newest: the token
\* is set, and sent to /auth/me.
LEMMA HydrateCurrentStep ==
    ASSUME IInv, NEW s \in Task, hydrateCurrent(s)
    PROVE  IInv'
  <1> DEFINE a == task[s].who
             t == [task[s] EXCEPT !.pc = "me", !.hdr = a]
  <1>1. /\ task[s].pc = "persist" /\ s = latest /\ keychain # <<>>
        /\ keychain' = Tail(keychain)
        /\ secure' = a /\ bearer' = a /\ token' = a /\ user' = None
        /\ task' = With(s, t)
        /\ UNCHANGED <<isLoading, latest, store, stack, server, crossings>>
    BY DEF hydrateCurrent, KeychainTurn, isCurrent, Sends
  <1>2. \A q \in Task \ {s} : ~Early(q)
    BY <1>1, Alone
  <1>3. a \in Maybe /\ task[s].kind # "initialize"
    BY <1>1 DEF RowOK, IInv, TypeOK, TaskRow
  <1>4. /\ t \in TaskRow /\ t.pc = "me" /\ t.hdr = a /\ t.kind = task[s].kind
        /\ RowOK(t) /\ t.screen \in OnScreen(stack) \cup {"gone"}
    <2>1. task[s] \in TaskRow
      BY DEF IInv, TypeOK
    <2>2. /\ t \in TaskRow /\ t.pc = "me" /\ t.hdr = a /\ t.kind = task[s].kind
          /\ t.screen = task[s].screen
      BY <1>3, <2>1 DEF TaskRow, Call
    <2> HIDE DEF a, t
    <2> QED
      BY <1>3, <2>2, RowStays
  <1> HIDE DEF a, t
  <1>6. Became(s, t)
    BY <1>1, <1>4, StayBecame
  <1>7. keychain' \in Seq(Task)
    BY <1>1, KeychainTurns
  <1> QED
    BY <1>1, <1>2, <1>3, <1>4, <1>6, <1>7, StepKeeps
       DEF server, crossings, Maybe, IInv, TypeOK

\* An operation of the auth store or a caller is over, and something is shown.
LEMMA ShowEnds ==
    ASSUME IInv, NEW s \in Task, NEW routes \in Routes, Show(routes, Ended(s))
    PROVE  Became(s, Idle)
  <1>1. Ended(s) = With(s, Idle)
    BY DEF Ended, With
  <1> QED
    BY <1>1, IdleRow, ShowBecame

\* What login, register and Apple do when they are over.
LEMMA ResolvedBecame ==
    ASSUME IInv, NEW s \in Task, task[s].kind # "initialize", bearer' \in Maybe, Resolved(s)
    PROVE  \E t \in TaskRow : /\ t.kind # "initialize" /\ t.pc # "me" /\ Became(s, t)
  <1>1. stack \in Routes
    BY DEF IInv
  <1>2. CASE task[s].kind = "register"
    <2>1. Replaced(stack, task[s].screen, "OnboardingStep1") \in Routes
      BY <1>1, ReplacedRoutes DEF Screen
    <2>2. Became(s, Idle)
      BY <1>2, <2>1, ShowEnds DEF Resolved
    <2> QED
      BY <2>2, IdleRow
  <1>3. CASE task[s].kind # "register"
    <2> DEFINE t == [Sends(task[s], "get1") EXCEPT !.who = None]
    <2>1. task[s] \in TaskRow
      BY DEF IInv, TypeOK
    <2>2. t \in TaskRow /\ t.pc = "get1" /\ t.kind = task[s].kind /\ t.screen = task[s].screen
      BY <2>1 DEF Sends, TaskRow, Call, Maybe
    <2>3. Show(stack, With(s, t))
      BY <1>3 DEF Resolved
    <2> HIDE DEF t
    <2>4. RowOK(t)
      BY <2>2, RowStays
    <2>5. Became(s, t)
      BY <1>1, <2>2, <2>3, <2>4, ShowBecame
    <2> QED
      BY <2>2, <2>5
  <1> QED
    BY <1>2, <1>3

\* The operation is stale, or /auth/me has answered.
LEMMA ResolveSteps ==
    ASSUME IInv, NEW s \in Task, hydrateStale(s) \/ MeAnswered(s)
    PROVE  IInv'
  <1>1. /\ task[s].pc \in {"persist", "me"} /\ Resolved(s) /\ isLoading' = FALSE
        /\ UNCHANGED <<bearer, token, latest, store, server, crossings>>
    BY DEF hydrateStale, MeAnswered, KeychainTurn
  <1>2. \A q \in Task \ {s} : ~Early(q)
    BY <1>1, Alone
  <1>3. task[s].kind # "initialize" /\ bearer' \in Maybe
    BY <1>1 DEF hydrateStale, MeAnswered, KeychainTurn, IInv, TypeOK, RowOK
  <1>4. PICK t \in TaskRow : t.kind # "initialize" /\ t.pc # "me" /\ Became(s, t)
    BY <1>1, <1>3, ResolvedBecame
  <1>5. secure' \in Maybe /\ user' \in Maybe
    BY DEF hydrateStale, MeAnswered, IInv, TypeOK, TaskRow
  <1>6. user' # None => bearer' \in {user', None}
    <2>1. CASE user' = user
      BY <1>1, <2>1 DEF IInv, UserIsSender
    <2>2. CASE user' # user
      BY <1>1, <2>2 DEF hydrateStale, MeAnswered, isCurrent, IInv, MeCurrent
    <2> QED
      BY <2>1, <2>2
  <1>7. keychain' \in Seq(Task)
    BY KeychainTurns DEF hydrateStale, MeAnswered, KeychainTurn, IInv, TypeOK
  <1> QED
    BY <1>1, <1>2, <1>3, <1>4, <1>5, <1>6, <1>7, StepKeeps
       DEF server, crossings, IInv, TypeOK

\* The newest operation gives its token back.
LEMMA MeFailedStep ==
    ASSUME IInv, NEW s \in Task, MeFailed(s)
    PROVE  IInv'
  <1> DEFINE t == [task[s] EXCEPT !.pc = "undo", !.who = None, !.hdr = None]
  <1>1. /\ task[s].pc = "me" /\ task' = With(s, t) /\ keychain' = Append(keychain, s)
        /\ UNCHANGED <<identity, isLoading, latest, store, stack, server, crossings>>
    BY DEF MeFailed
  <1>2. \A q \in Task \ {s} : ~Early(q)
    BY <1>1, Alone
  <1>3. task[s] \in TaskRow
    BY DEF IInv, TypeOK
  <1>4. /\ t \in TaskRow /\ t.pc = "undo" /\ t.kind = task[s].kind
        /\ t.screen = task[s].screen
    BY <1>3 DEF TaskRow, KeychainCall, Maybe
  <1> HIDE DEF t
  <1>5. RowOK(t) /\ t.screen \in OnScreen(stack) \cup {"gone"}
    BY <1>4, RowStays
  <1>6. Became(s, t)
    BY <1>1, <1>4, <1>5, StayBecame
  <1>7. t.kind = "initialize" => Early(s) /\ user = None /\ token = None
    BY <1>1, <1>4 DEF IInv, Starting, Early
  <1>8. keychain' \in Seq(Task)
    BY <1>1, KeychainTurns
  <1> QED
    BY <1>1, <1>2, <1>4, <1>6, <1>7, <1>8, StepKeeps
       DEF identity, server, crossings, IInv, TypeOK, UserIsSender

\* The token has been deleted from SecureStore, after a refusal or a logout.
LEMMA WipeSteps ==
    ASSUME IInv, NEW s \in Task, hydrateUndone(s) \/ logoutDone(s)
    PROVE  IInv'
  <1>1. /\ task[s].pc # "idle" /\ keychain # <<>> /\ keychain' = Tail(keychain)
        /\ secure' = None /\ bearer' = None /\ token' = None /\ user' = None
        /\ store' \in {store, None} /\ isLoading' \in {isLoading, FALSE}
        /\ UNCHANGED <<latest, server, crossings>>
    BY DEF hydrateUndone, logoutDone, KeychainTurn
  <1>2. \A q \in Task \ {s} : ~Early(q)
    BY <1>1, Alone
  <1>3. SafetyNet(stack) \in Routes /\ <<"AuthEntry">> \in Routes
    BY NetRoutes, FirstRoutes DEF IInv
  <1>4. Became(s, Idle)
    BY <1>3, ShowEnds DEF hydrateUndone, logoutDone
  <1>5. keychain' \in Seq(Task)
    BY <1>1, KeychainTurns
  <1> QED
    BY <1>1, <1>2, <1>4, <1>5, IdleRow, StepKeeps DEF server, crossings, Maybe, IInv, TypeOK

\* Splash goes on, to the tabs by way of the profile or to the first screen.
LEMMA SplashBecame ==
    ASSUME IInv, NEW s \in Task, bearer' \in Maybe, SplashNext(s)
    PROVE  \E t \in TaskRow : /\ t.pc \notin {"read", "me", "undo"} /\ Became(s, t)
  <1>1. stack \in Routes
    BY DEF IInv
  <1>2. CASE token' = None
    <2>1. Replaced(stack, task[s].screen, "AuthEntry") \in Routes
      BY <1>1, ReplacedRoutes DEF Screen
    <2>2. Became(s, Idle)
      BY <1>2, <2>1, ShowEnds DEF SplashNext
    <2> QED
      BY <2>2, IdleRow
  <1>3. CASE token' # None
    <2> DEFINE t == [task[s] EXCEPT !.pc = "get1", !.hdr = bearer']
    <2>1. task[s] \in TaskRow
      BY DEF IInv, TypeOK
    <2>2. Show(stack, With(s, t))
      BY <1>3 DEF SplashNext, Sends
    <2>3. /\ t \in TaskRow /\ t.pc = "get1" /\ t.kind = task[s].kind
          /\ t.screen = task[s].screen
      BY <2>1 DEF TaskRow, Call
    <2> HIDE DEF t
    <2>4. RowOK(t)
      BY <2>3, RowStays
    <2> QED
      BY <1>1, <2>2, <2>3, <2>4, ShowBecame
  <1> QED
    BY <1>2, <1>3

\* initialize: the token of SecureStore, the answer of /auth/me, or its refusal.
LEMMA InitializeSteps ==
    ASSUME IInv, NEW s \in Task,
           initializeRead(s) \/ initializeAnswered(s) \/ initializeUndone(s)
    PROVE  IInv'
  <1>1. /\ task[s].pc \in {"read", "me", "undo"}
        /\ UNCHANGED <<isLoading, latest, store, server, crossings>>
    BY DEF initializeRead, initializeAnswered, initializeUndone, KeychainTurn
  <1>2. \A q \in Task \ {s} : ~Early(q)
    BY <1>1, Alone
  <1>3. keychain' \in Seq(Task)
    BY KeychainTurns DEF initializeRead, initializeAnswered, initializeUndone, KeychainTurn,
       IInv, TypeOK
  <1>4. task[s] \in TaskRow
    BY DEF IInv, TypeOK
  <1>5. CASE initializeRead(s)
    <2>1. secure' = secure /\ user' = user /\ token' = token /\ bearer' \in {bearer, secure}
          /\ task[s].pc = "read"
      BY <1>5 DEF initializeRead, KeychainTurn
    <2>2. CASE secure # None /\ isCurrent(s)
      <3> DEFINE t == [task[s] EXCEPT !.pc = "me", !.hdr = bearer']
      <3>1. task' = With(s, t) /\ stack' = stack /\ bearer' = secure /\ latest = s
        BY <1>5, <2>2 DEF initializeRead, Sends, isCurrent
      <3>2. bearer' \in Maybe
        BY <3>1 DEF IInv, TypeOK
      <3>3. /\ t \in TaskRow /\ t.pc = "me" /\ t.hdr = bearer' /\ t.kind = task[s].kind
            /\ t.screen = task[s].screen
        BY <1>4, <3>2 DEF TaskRow, Call
      <3> HIDE DEF t
      <3>4. RowOK(t) /\ t.screen \in OnScreen(stack) \cup {"gone"}
        BY <3>3, RowStays
      <3>5. Became(s, t)
        BY <3>1, <3>3, <3>4, StayBecame
      <3>6. task[s].kind = "initialize"
        BY <2>1 DEF IInv, RowOK
      <3>7. Early(s) /\ user = None /\ token = None
        BY <2>1, <3>6 DEF IInv, Starting, Early
      <3> QED
        BY <1>1, <1>2, <1>3, <2>1, <3>1, <3>2, <3>3, <3>5, <3>7, StepKeeps
           DEF server, crossings, IInv, TypeOK
    <2>3. CASE ~(secure # None /\ isCurrent(s))
      <3>1. bearer' = bearer /\ SplashNext(s)
        BY <1>5, <2>3 DEF initializeRead
      <3>2. PICK t \in TaskRow : t.pc \notin {"read", "me", "undo"} /\ Became(s, t)
        BY <3>1, SplashBecame DEF IInv, TypeOK
      <3> QED
        BY <1>1, <1>2, <1>3, <2>1, <3>1, <3>2, StepKeeps
           DEF server, crossings, IInv, TypeOK, UserIsSender
    <2> QED
      BY <2>2, <2>3
  <1>6. CASE initializeAnswered(s)
    <2>1. /\ task[s].pc = "me" /\ SplashNext(s)
          /\ UNCHANGED <<secure, bearer>>
          /\ user' \in {user, task[s].hdr} /\ token' \in {token, task[s].hdr}
          /\ user' # user => s = latest /\ user' = task[s].hdr
      BY <1>6 DEF initializeAnswered, isCurrent
    <2>2. PICK t \in TaskRow : t.pc \notin {"read", "me", "undo"} /\ Became(s, t)
      BY <2>1, SplashBecame DEF IInv, TypeOK
    <2>3. user' # None => bearer' \in {user', None}
      BY <2>1 DEF IInv, UserIsSender, MeCurrent
    <2>4. user' \in Maybe /\ token' \in Maybe
      BY <1>4, <2>1 DEF TaskRow, IInv, TypeOK
    <2> QED
      BY <1>1, <1>2, <1>3, <2>1, <2>2, <2>3, <2>4, StepKeeps
         DEF server, crossings, IInv, TypeOK
  <1>7. CASE initializeUndone(s)
    <2>1. /\ SplashNext(s) /\ secure' = None /\ bearer' = None
          /\ UNCHANGED <<token, user>>
      BY <1>7 DEF initializeUndone
    <2>2. PICK t \in TaskRow : t.pc \notin {"read", "me", "undo"} /\ Became(s, t)
      BY <2>1, SplashBecame DEF Maybe
    <2> QED
      BY <1>1, <1>2, <1>3, <2>1, <2>2, StepKeeps DEF server, crossings, Maybe, IInv, TypeOK
  <1> QED
    BY <1>5, <1>6, <1>7

\* Requests of the profile store and of the forms: none of them touches the
\* identity.
LEMMA ProfileSteps ==
    ASSUME IInv, NEW s \in Task,
           \/ ProfileArrived(s) \/ SportsArrived(s) \/ ProfileStored(s) \/ SportsStored(s)
           \/ RequestFailed(s) \/ AnswerLost(s)
    PROVE  IInv'
  <1>1. /\ task[s].pc \in {"get1", "get2", "put", "post", "erase"}
        /\ UNCHANGED <<identity, keychain, latest, crossings>>
    BY DEF ProfileArrived, SportsArrived, ProfileStored, SportsStored, RequestFailed, AnswerLost,
           identity, crossings, Call
  <1>2. \A q \in Task \ {s} : ~Early(q)
    BY <1>1, Alone
  <1>3. task[s] \in TaskRow /\ stack \in Routes
    BY DEF IInv, TypeOK
  <1>4. Ended(s) = With(s, Idle)
    BY DEF Ended, With
  <1>5. \E t \in TaskRow : t.pc \notin {"read", "me", "undo"} /\ Became(s, t)
    <2>1. CASE ProfileArrived(s)
      <3> DEFINE t == [Sends(task[s], "get2") EXCEPT !.got = task[s].hdr]
      <3>1. task' = With(s, t) /\ stack' = stack /\ bearer' = bearer
        BY <2>1 DEF ProfileArrived
      <3>2. bearer' \in Maybe
        BY <3>1 DEF IInv, TypeOK
      <3>3. t \in TaskRow /\ t.pc = "get2" /\ t.kind = task[s].kind /\ t.screen = task[s].screen
        BY <1>3, <3>2 DEF Sends, TaskRow, Call
      <3> HIDE DEF t
      <3>4. RowOK(t) /\ t.screen \in OnScreen(stack) \cup {"gone"}
        BY <3>3, RowStays
      <3> QED
        BY <3>1, <3>3, <3>4, StayBecame
    <2>2. CASE SportsArrived(s)
      <3>1. PICK routes : Show(routes, Ended(s)) /\
               routes \in {Replaced(stack, task[s].screen, "Main"), stack} \cup
                          (IF task[s].kind = "save" /\ task[s].screen # "gone"
                           THEN {Pop(stack)} ELSE {})
        BY <2>2 DEF SportsArrived
      <3>2. Replaced(stack, task[s].screen, "Main") \in Routes
        BY <1>3, ReplacedRoutes DEF Screen
      <3>3. ASSUME task[s].kind = "save", task[s].screen # "gone"
            PROVE  Pop(stack) \in Routes
        <4>1. "EditProfile" \in OnScreen(stack)
          BY <3>3 DEF IInv, RowOK, Mounted
        <4>2. PICK i \in 1 .. Len(stack) : stack[i] = "EditProfile"
          BY <4>1 DEF OnScreen
        <4>3. stack[1] # "EditProfile"
          BY <1>3 DEF Routes
        <4>4. Len(stack) > 1
          BY <4>2, <4>3, TopScreen
        <4> QED
          BY <1>3, <4>4, PopRoutes
      <3>4. routes \in Routes
        BY <1>3, <3>1, <3>2, <3>3
      <3> QED
        BY <3>1, <3>4, ShowEnds, IdleRow
    <2>3. CASE ProfileStored(s)
      <3>1. CASE task[s].kind = "save"
        <4> DEFINE t == [task[s] EXCEPT !.pc = "get1", !.hdr = bearer']
        <4>1. Show(stack, With(s, t)) /\ bearer' = bearer
          BY <2>3, <3>1 DEF ProfileStored, Sends
        <4>2. bearer' \in Maybe
          BY <4>1 DEF IInv, TypeOK
        <4>3. t \in TaskRow /\ t.pc = "get1" /\ t.kind = task[s].kind /\ t.screen = task[s].screen
          BY <1>3, <4>2 DEF TaskRow, Call
        <4> HIDE DEF t
        <4>4. RowOK(t)
          BY <4>3, RowStays
        <4> QED
          BY <1>3, <4>1, <4>3, <4>4, ShowBecame
      <3>2. CASE task[s].kind # "save"
        <4>1. Show(Navigated(stack, "OnboardingStep2"), Ended(s))
          BY <2>3, <3>2 DEF ProfileStored
        <4>2. Navigated(stack, "OnboardingStep2") \in Routes
          BY <1>3, NavigatedRoutes DEF Screen
        <4> QED
          BY <4>1, <4>2, ShowEnds, IdleRow
      <3> QED
        BY <3>1, <3>2
    <2>4. CASE SportsStored(s)
      <3>1. Show(Replaced(stack, task[s].screen, "Main"), Ended(s))
        BY <2>4 DEF SportsStored
      <3>2. Replaced(stack, task[s].screen, "Main") \in Routes
        BY <1>3, ReplacedRoutes DEF Screen
      <3> QED
        BY <3>1, <3>2, ShowEnds, IdleRow
    <2>5. CASE RequestFailed(s)
      <3>1. PICK routes : Show(routes, Ended(s)) /\
               routes \in {Replaced(stack, task[s].screen, "OnboardingStep1"), stack}
        BY <2>5 DEF RequestFailed
      <3>2. Replaced(stack, task[s].screen, "OnboardingStep1") \in Routes
        BY <1>3, ReplacedRoutes DEF Screen
      <3> QED
        BY <1>3, <3>1, <3>2, ShowEnds, IdleRow
    <2>6. CASE AnswerLost(s)
      <3>1. task' = With(s, Idle) /\ stack' = stack
        BY <1>4, <2>6 DEF AnswerLost
      <3> QED
        BY <3>1, StayBecame, IdleRow
    <2> QED
      BY <2>1, <2>2, <2>3, <2>4, <2>5, <2>6
  <1>6. store' \in Maybe /\ isLoading' \in BOOLEAN
    BY <1>3 DEF ProfileArrived, SportsArrived, ProfileStored, SportsStored, RequestFailed,
       AnswerLost, IInv, TypeOK, TaskRow
  <1>7. registered' \in SUBSET Account /\ listed' \in SUBSET Account
    <2>1. task[s].pc = "post" => task[s].who \in Account
      BY DEF IInv, RowOK
    <2>2. Authorized(s) => task[s].hdr \in Account
      BY DEF Authorized, IInv, TypeOK
    <2> QED
      BY <2>1, <2>2 DEF ProfileArrived, SportsArrived, ProfileStored, SportsStored, RequestFailed,
         AnswerLost, server, IInv, TypeOK
  <1> QED
    BY <1>1, <1>2, <1>5, <1>6, <1>7, StepKeeps
       DEF identity, crossings, IInv, TypeOK, UserIsSender

-----------------------------------------------------------------------------
(* Links, the back gesture, the start of the app, and all together.        *)

\* Moving between screens starts nothing and sends nothing.
LEMMA MoveSteps ==
    ASSUME IInv, (\E screen \in {"LoginScreen", "RegisterScreen"} : OpenAuthScreen(screen))
                    \/ OpenEditProfile \/ Back
    PROVE  IInv'
  <1>1. PICK routes \in Routes : Show(routes, task) /\ Move(routes)
    <2>1. ASSUME NEW screen \in {"LoginScreen", "RegisterScreen"}, OpenAuthScreen(screen)
          PROVE  \E routes \in Routes : Move(routes)
      <3>1. stack \in Routes /\ screen \in Screen \ {"EditProfile"}
        BY DEF IInv, Screen
      <3>2. Navigated(stack, screen) \in Routes /\ Replaced(stack, Top, screen) \in Routes
        BY <3>1, NavigatedRoutes, ReplacedRoutes
      <3>3. Move(Navigated(stack, screen)) \/ Move(Replaced(stack, Top, screen))
        BY <2>1 DEF OpenAuthScreen
      <3> QED
        BY <3>2, <3>3
    <2>2. ASSUME OpenEditProfile
          PROVE  \E routes \in Routes : Move(routes)
      <3>1. Navigated(stack, "EditProfile") \in Routes
        BY NavigatedRoutes DEF IInv, Screen
      <3> QED
        BY <2>2, <3>1 DEF OpenEditProfile
    <2>3. ASSUME Back
          PROVE  \E routes \in Routes : Move(routes)
      <3>1. Pop(stack) \in Routes
        BY <2>3, PopRoutes DEF Back, IInv
      <3> QED
        BY <2>3, <3>1 DEF Back
    <2> QED
      BY <2>1, <2>2, <2>3 DEF Move
  <1>2. \A q \in Task : ~Early(q)
    <2> SUFFICES ASSUME NEW q \in Task, Early(q)
                 PROVE  FALSE
      OBVIOUS
    <2>1. stack = <<"Splash">>
      BY DEF IInv, Starting
    <2>2. Len(stack) = 1 /\ Top = "Splash"
      BY <2>1 DEF Top
    <2>3. Offers = {}
      BY <2>2 DEF Offers
    <2> QED
      BY <2>2, <2>3 DEF OpenAuthScreen, OpenEditProfile, Back
  <1>3. PICK s \in Task : TRUE
    BY DEF IInv, TypeOK
  <1>4. task[s] \in TaskRow /\ RowOK(task[s]) /\ With(s, task[s]) = task
    BY DEF IInv, TypeOK, With
  <1>5. Became(s, task[s])
    BY <1>1, <1>4, ShowBecame
  <1>6. UNCHANGED <<identity, keychain, isLoading, latest, store, server, crossings>>
    BY <1>1 DEF Move
  <1>7. task[s].pc = "me" /\ latest = s => bearer \in {task[s].hdr, None}
    BY DEF IInv, MeCurrent
  <1>8. ~(task[s].kind = "initialize" /\ task[s].pc \in {"read", "me", "undo"})
    BY <1>2 DEF Early
  <1> QED
    BY <1>2, <1>4, <1>5, <1>6, <1>7, <1>8, StepKeeps
       DEF identity, server, crossings, IInv, TypeOK, UserIsSender

\* A started app: initialize reads SecureStore, and nothing else runs.
Fresh ==
    /\ secure \in Maybe /\ registered \in SUBSET Account /\ listed \in SUBSET Account
    /\ bearer = None /\ token = None /\ user = None /\ isLoading = FALSE /\ store = None
    /\ stack = <<"Splash">> /\ latest = 1 /\ keychain = <<1>>
    /\ task = [q \in Task |-> IF q # 1 THEN Idle
               ELSE [Idle EXCEPT !.kind = "initialize", !.pc = "read", !.screen = "Splash"]]
    /\ overlapped = FALSE /\ mixed = FALSE

\* The app as it starts satisfies the invariant.
LEMMA FreshIInv == Fresh => IInv
  <1> SUFFICES ASSUME Fresh
               PROVE  IInv
    OBVIOUS
  <1> USE DEF Fresh
  <1> DEFINE first == [Idle EXCEPT !.kind = "initialize", !.pc = "read", !.screen = "Splash"]
  <1>1. first \in TaskRow /\ first.kind = "initialize" /\ first.pc = "read"
        /\ first.screen = "Splash"
    BY DEF Idle, TaskRow, Kind, AuthKind, KeychainCall, Screen, Maybe
  <1>2. 1 \in Task
    BY SlotsAssumption DEF Task
  <1> HIDE DEF first
  <1>3. task[1] = first /\ \A q \in Task \ {1} : task[q] = Idle
    BY <1>2 DEF first
  <1>4. task \in [Task -> TaskRow]
    BY <1>1, IdleRow DEF first
  <1>5. stack \in Routes /\ OnScreen(stack) = {"Splash"}
    BY FirstRoutes DEF OnScreen
  <1>6. TypeOK
    <2>1. keychain \in Seq(Task)
      BY <1>2
    <2> QED
      BY <1>2, <1>4, <1>5, <2>1 DEF TypeOK, Routes, Maybe
  <1>7. \A q \in Task : RowOK(task[q])
    BY <1>1, <1>3, IdleRow DEF RowOK
  <1>8. Mounted
    BY <1>1, <1>3, <1>5, IdleRow DEF Mounted
  <1>9. Starting
    <2>1. \A q \in Task \ {1} : task[q].pc = "idle"
      BY <1>3, IdleRow
    <2> QED
      BY <2>1 DEF Starting, Early
  <1>10. MeCurrent
    BY <1>1, <1>3, IdleRow DEF MeCurrent
  <1> QED
    BY <1>5, <1>6, <1>7, <1>8, <1>9, <1>10 DEF IInv, UserIsSender

\* Every step keeps it.
LEMMA NextKeeps ==
    ASSUME IInv, [Next]_vars
    PROVE  IInv'
  <1>1. ASSUME NEW s \in Task, Continue(s)
        PROVE  IInv'
    BY <1>1, RequestSteps, HydrateCurrentStep, ResolveSteps, MeFailedStep, WipeSteps,
       InitializeSteps, ProfileSteps DEF Continue
  <1>2. ASSUME NEW s \in Task, User(s)
        PROVE  IInv'
    BY <1>2, AuthStarts, OtherStarts, VisitStep, RequestSteps DEF User
  <1>3. CASE Restart
    <2>1. TypeOK
      BY DEF IInv
    <2>2. secure' \in Maybe /\ registered' \in SUBSET Account /\ listed' \in SUBSET Account
      BY <1>3, <2>1 DEF Restart, server, TypeOK
    <2>3. Fresh'
      BY <1>3, <2>2 DEF Restart, Fresh
    <2>4. (Fresh => IInv)'
      BY FreshIInv, PTL
    <2> QED
      BY <2>3, <2>4
  <1>4. CASE UNCHANGED vars
    BY <1>4 DEF vars, identity, server, crossings, IInv, TypeOK, Mounted, Starting, Early,
                MeCurrent, UserIsSender, RowOK, OnScreen
  <1> QED
    BY <1>1, <1>2, <1>3, <1>4, MoveSteps DEF Next

\* And it holds at first.
LEMMA InitKeeps == Init => IInv
  <1>1. Init => Fresh
    BY DEF Init, Fresh
  <1> QED
    BY <1>1, FreshIInv

\* The strengthening holds in every reachable state.
THEOREM Invariance == Spec => []IInv
BY InitKeeps, NextKeeps, PTL DEF Spec

\* Every variable has its type in every reachable state; in particular the
\* navigator always shows a screen.
THEOREM TypeCorrectness == Spec => []TypeOK
<1>1. IInv => TypeOK
  BY DEF IInv
<1> QED
  BY <1>1, Invariance, PTL

\* Whatever operations overlap, and whenever their answers come, no request goes
\* out in the name of another account than the one that is shown as signed in.
THEOREM SenderIsUser == Spec => []UserIsSender
<1>1. IInv => UserIsSender
  BY DEF IInv
<1> QED
  BY <1>1, Invariance, PTL

-----------------------------------------------------------------------------
(* One identity.  While auth operations do not overlap the newest one is   *)
(* the only one in flight, and how far it is tells which of the keychain,  *)
(* the bearer token and the store agree.  While no profile request crosses *)
(* one of them, every such request carries the token of the user.          *)

\* Which operations take which steps.
KindFits(kind, pc) ==
    /\ pc \in {"post", "persist"} => kind \in {"login", "register", "apple"}
    /\ pc \in {"me", "undo"} => kind \in {"initialize", "login", "register", "apple"}
    /\ pc = "wipe" => kind \in {"logout", "delete"}
    /\ pc = "sheet" => kind = "apple"
    /\ pc = "erase" => kind = "delete"
KindsFit == \A s \in Task : KindFits(task[s].kind, task[s].pc)

Agree == secure = token /\ bearer = token /\ user = token

\* How far the operation has written its token.
Phase(t) ==
    /\ t.pc = "read" => bearer = None
    /\ t.pc \in {"post", "persist"} => Agree
    /\ t.pc = "me" => /\ secure = t.hdr /\ bearer = t.hdr
                      /\ t.kind # "initialize" => token = t.hdr

Orderly ==
    ~overlapped =>
        /\ \A s \in Task : InFlight(s) => s = latest /\ Phase(task[s])
        /\ (\A s \in Task : ~InFlight(s)) => Agree

Uncrossed ==
    ~mixed =>
        /\ ~overlapped
        /\ \A s \in Task : FetchesProfile(s) =>
              /\ task[s].hdr = user
              /\ task[s].pc = "get2" => task[s].got = user
              /\ \A q \in Task : ~InFlight(q)
        /\ \A s \in Task : InFlight(s) /\ task[s].kind \notin {"logout", "delete"} => store = None
        /\ (\A s \in Task : ~InFlight(s)) => store \in {None, user}

OInv == KindsFit /\ Orderly /\ Uncrossed

\* What the identity has to do with the task s that has gone on.
Turned(s, kind, pc, hdr, got) ==
    /\ \A q \in Task \ {s} : /\ task'[q].kind = task[q].kind /\ task'[q].pc = task[q].pc
                             /\ task'[q].hdr = task[q].hdr /\ task'[q].got = task[q].got
    /\ task'[s].kind = kind /\ task'[s].pc = pc /\ task'[s].hdr = hdr /\ task'[s].got = got

\* A task that goes on does so alone; losing its screen changes nothing that the
\* identity is made of.
LEMMA Turns ==
    ASSUME TypeOK, NEW s \in Task, NEW t \in TaskRow,
           task' = With(s, t) \/ (\E routes : Show(routes, With(s, t)))
    PROVE  Turned(s, t.kind, t.pc, t.hdr, t.got)
  <1> DEFINE tasks == With(s, t)
             lost(x) == [x EXCEPT !.screen = "gone"]
  <1>1. tasks \in [Task -> TaskRow] /\ tasks[s] = t
        /\ \A q \in Task \ {s} : tasks[q] = task[q]
    BY DEF TypeOK, With
  <1>2. \A x \in TaskRow : lost(x).kind = x.kind /\ lost(x).pc = x.pc
                           /\ lost(x).hdr = x.hdr /\ lost(x).got = x.got
    BY DEF TaskRow
  <1>3. CASE task' = tasks
    BY <1>1, <1>3 DEF Turned
  <1>4. ASSUME NEW routes, Show(routes, tasks)
        PROVE  Turned(s, t.kind, t.pc, t.hdr, t.got)
    <2>1. task' = [q \in Task |-> IF tasks[q].screen \in OnScreen(routes) THEN tasks[q]
                                  ELSE lost(tasks[q])]
      BY <1>4 DEF Show
    <2> HIDE DEF tasks, lost
    <2>2. \A q \in Task : /\ task'[q].kind = tasks[q].kind /\ task'[q].pc = tasks[q].pc
                          /\ task'[q].hdr = tasks[q].hdr /\ task'[q].got = tasks[q].got
      BY <1>1, <1>2, <2>1
    <2> QED
      BY <1>1, <2>2 DEF Turned
  <1> QED
    BY <1>3, <1>4

\* The same for a task that ends.
LEMMA EndTurns ==
    ASSUME TypeOK, NEW s \in Task,
           task' = Ended(s) \/ (\E routes : Show(routes, Ended(s)))
    PROVE  Turned(s, "none", "idle", None, None)
  <1>1. Ended(s) = With(s, Idle)
    BY DEF Ended, With
  <1>2. Idle.hdr = None /\ Idle.got = None
    BY DEF Idle
  <1> QED
    BY <1>1, <1>2, IdleRow, Turns

\* A step of a task that is no auth operation in flight, and does not become one.
LEMMA QuietStep ==
    ASSUME OInv, NEW s \in Task, NEW kind, NEW pc, NEW hdr, NEW got,
           Turned(s, kind, pc, hdr, got), KindFits(kind, pc),
           UNCHANGED <<identity, latest, crossings>>,
           ~InFlight(s), pc \notin {"post", "read", "persist", "me", "undo", "wipe"},
           pc \in {"put", "get1", "get2"} =>
              /\ FetchesProfile(s) /\ hdr \in {task[s].hdr, bearer}
              /\ pc = "get2" => got = task[s].hdr,
           ~mixed /\ store' # store => FetchesProfile(s) /\ store' = user
    PROVE  OInv'
  <1>1. KindsFit'
    BY DEF OInv, KindsFit, Turned
  <1>2. \A q \in Task : InFlight(q)' <=> InFlight(q)
    BY DEF Turned, InFlight
  <1>3. \A q \in Task : InFlight(q) => q # s
    OBVIOUS
  <1>4. Orderly'
    BY <1>2, <1>3 DEF OInv, Orderly, Phase, Agree, Turned, identity, crossings
  <1>5. Uncrossed'
    <2> SUFFICES ASSUME ~mixed
                 PROVE  Uncrossed'
      BY DEF Uncrossed, crossings
    <2>1. ~overlapped /\ overlapped' = overlapped
      BY DEF OInv, Uncrossed, crossings
    <2>2. ASSUME NEW q \in Task, FetchesProfile(q)'
          PROVE  /\ task'[q].hdr = user' /\ (task'[q].pc = "get2" => task'[q].got = user')
                 /\ \A r \in Task : ~InFlight(r)'
      <3>1. FetchesProfile(q)
        BY <2>2 DEF FetchesProfile, Turned
      <3>2. /\ task[q].hdr = user /\ (task[q].pc = "get2" => task[q].got = user)
            /\ \A r \in Task : ~InFlight(r)
        BY <3>1 DEF OInv, Uncrossed
      <3>3. bearer = user /\ user' = user
        BY <2>1, <3>2 DEF OInv, Orderly, Agree, identity
      <3>4. \A r \in Task : ~InFlight(r)'
        BY <1>2, <3>2
      <3>5. CASE q = s
        BY <2>2, <3>2, <3>3, <3>4, <3>5 DEF Turned, FetchesProfile
      <3>6. CASE q # s
        BY <3>2, <3>3, <3>4, <3>6 DEF Turned
      <3> QED
        BY <3>5, <3>6
    <2>3. ASSUME NEW q \in Task, InFlight(q)', task'[q].kind \notin {"logout", "delete"}
          PROVE  store' = None
      <3>1. InFlight(q) /\ task[q].kind \notin {"logout", "delete"}
        BY <1>2, <1>3, <2>3 DEF Turned
      <3>2. store = None /\ ~FetchesProfile(s)
        BY <3>1 DEF OInv, Uncrossed
      <3> QED
        BY <3>2
    <2>4. (\A q \in Task : ~InFlight(q)') => store' \in {None, user'}
      BY <1>2 DEF OInv, Uncrossed, identity
    <2> QED
      BY <2>1, <2>2, <2>3, <2>4 DEF Uncrossed
  <1> QED
    BY <1>1, <1>4, <1>5 DEF OInv

\* An auth operation begins, or its sheet or the deletion before it is over.
LEMMA AuthStep ==
    ASSUME OInv, NEW s \in Task, NEW kind, NEW pc, NEW hdr, NEW got,
           Turned(s, kind, pc, hdr, got), KindFits(kind, pc), kind \in AuthKind,
           UNCHANGED <<identity, store>>, nextAuthOp(s),
           ~InFlight(s), ~FetchesProfile(s), pc \in {"post", "wipe"}
    PROVE  OInv'
  <1>1. KindsFit'
    BY DEF OInv, KindsFit, Turned
  <1>2. \A q \in Task \ {s} : (InFlight(q)' <=> InFlight(q))
                              /\ (FetchesProfile(q)' <=> FetchesProfile(q))
    BY DEF Turned, InFlight, FetchesProfile
  <1>3. InFlight(s)' /\ ~FetchesProfile(s)'
    BY DEF Turned, InFlight, FetchesProfile
  <1>4. /\ latest' = s
        /\ ~overlapped' => ~overlapped /\ \A q \in Task \ {s} : ~InFlight(q)
        /\ ~mixed' => /\ ~mixed /\ ~overlapped' /\ \A q \in Task \ {s} : ~FetchesProfile(q)
                      /\ kind \in {"login", "register", "apple"} => store = None
    BY DEF nextAuthOp, Turned
  <1>5. Orderly'
    <2> SUFFICES ASSUME ~overlapped'
                 PROVE  Orderly'
      BY DEF Orderly
    <2>1. Agree
      BY <1>4 DEF OInv, Orderly
    <2>2. Agree'
      BY <2>1 DEF Agree, identity
    <2>3. Phase(task[s])'
      BY <2>2 DEF Phase, Turned
    <2> QED
      BY <1>2, <1>3, <1>4, <2>3 DEF Orderly
  <1>6. Uncrossed'
    <2> SUFFICES ASSUME ~mixed'
                 PROVE  Uncrossed'
      BY DEF Uncrossed
    <2>1. \A q \in Task : ~FetchesProfile(q)'
      BY <1>2, <1>3, <1>4
    <2>2. kind \notin {"logout", "delete"} => store' = None
      BY <1>4 DEF KindFits, AuthKind
    <2>3. \A q \in Task : InFlight(q)' => q = s
      BY <1>2, <1>4
    <2> QED
      BY <1>3, <1>4, <2>1, <2>2, <2>3 DEF Uncrossed, Turned
  <1> QED
    BY <1>1, <1>5, <1>6 DEF OInv

\* A request for the profile begins.
LEMMA ProfileStep ==
    ASSUME OInv, NEW s \in Task, NEW kind, NEW pc, NEW got,
           Turned(s, kind, pc, bearer, got),
           UNCHANGED <<identity, store, latest>>, StartsProfileCall,
           ~InFlight(s), pc \in {"put", "get1"}
    PROVE  OInv'
  <1>1. KindsFit'
    BY DEF OInv, KindsFit, KindFits, Turned
  <1>2. \A q \in Task : InFlight(q)' <=> InFlight(q)
    BY DEF Turned, InFlight
  <1>3. Orderly'
    BY <1>2 DEF OInv, Orderly, Phase, Agree, Turned, identity, StartsProfileCall
  <1>4. Uncrossed'
    <2> SUFFICES ASSUME ~mixed'
                 PROVE  Uncrossed'
      BY DEF Uncrossed
    <2>1. ~mixed /\ (\A q \in Task : ~InFlight(q)) /\ overlapped' = overlapped
      BY DEF StartsProfileCall
    <2>2. ~overlapped /\ Agree /\ store \in {None, user}
      BY <2>1 DEF OInv, Uncrossed, Orderly
    <2>3. \A q \in Task : FetchesProfile(q)' =>
             task'[q].hdr = user /\ (task'[q].pc = "get2" => task'[q].got = user)
      BY <2>1, <2>2 DEF OInv, Uncrossed, FetchesProfile, Turned, Agree
    <2> QED
      BY <1>2, <2>1, <2>2, <2>3 DEF Uncrossed, identity
  <1> QED
    BY <1>1, <1>3, <1>4 DEF OInv

\* An auth operation in flight goes on, or is over.
LEMMA FlightStep ==
    ASSUME OInv, NEW s \in Task, NEW kind, NEW pc, NEW hdr, NEW got,
           Turned(s, kind, pc, hdr, got), KindFits(kind, pc),
           UNCHANGED <<latest, crossings>>, InFlight(s),
           pc \notin {"read", "put", "get2"},
           ~overlapped => IF kind \in AuthKind /\ pc \in {"post", "persist", "me", "undo", "wipe"}
                          THEN /\ pc \in {"post", "persist"} => Agree'
                               /\ pc = "me" => /\ secure' = hdr /\ bearer' = hdr
                                               /\ kind # "initialize" => token' = hdr
                          ELSE Agree',
           ~mixed => IF kind \in AuthKind /\ pc \in {"post", "persist", "me", "undo", "wipe"}
                     THEN kind \notin {"logout", "delete"} => store' = None
                     ELSE /\ store' \in {None, user'}
                          /\ pc = "get1" => hdr = user'
    PROVE  OInv'
  <1>1. KindsFit'
    BY DEF OInv, KindsFit, Turned
  <1>2. \A q \in Task \ {s} : (InFlight(q)' <=> InFlight(q))
                              /\ (FetchesProfile(q)' <=> FetchesProfile(q))
    BY DEF Turned, InFlight, FetchesProfile
  <1>3. InFlight(s)' <=>
           kind \in AuthKind /\ pc \in {"post", "persist", "me", "undo", "wipe"}
    BY DEF Turned, InFlight
  <1>4. ~overlapped => s = latest /\ \A q \in Task \ {s} : ~InFlight(q)
    BY DEF OInv, Orderly
  <1>5. Orderly'
    <2> SUFFICES ASSUME ~overlapped
                 PROVE  Orderly'
      BY DEF Orderly, crossings
    <2>1. InFlight(s)' => Phase(task[s])'
      BY <1>3 DEF Phase, Turned
    <2>2. ~InFlight(s)' => Agree'
      BY <1>3
    <2> QED
      BY <1>2, <1>4, <2>1, <2>2 DEF Orderly
  <1>6. Uncrossed'
    <2> SUFFICES ASSUME ~mixed
                 PROVE  Uncrossed'
      BY DEF Uncrossed, crossings
    <2>1. ~overlapped /\ overlapped' = overlapped
      BY DEF OInv, Uncrossed, crossings
    <2>2. \A q \in Task : ~FetchesProfile(q)
      BY DEF OInv, Uncrossed
    <2>3. \A q \in Task : FetchesProfile(q)' => q = s /\ pc = "get1"
      BY <1>2, <2>2 DEF FetchesProfile, Turned
    <2>4. \A q \in Task : InFlight(q)' => q = s
      BY <1>2, <1>4, <2>1
    <2>5. pc = "get1" => ~InFlight(s)'
      BY <1>3
    <2> QED
      BY <1>3, <2>1, <2>3, <2>4, <2>5 DEF Uncrossed, Turned
  <1> QED
    BY <1>1, <1>5, <1>6 DEF OInv
-----------------------------------------------------------------------------
(* Every step.                                                             *)

\* What the steps need of the row of a task.
LEMMA RowFacts ==
    ASSUME IInv, OInv, NEW s \in Task
    PROVE  /\ task[s] \in TaskRow /\ KindFits(task[s].kind, task[s].pc)
           /\ task[s].pc = "read" => task[s].kind = "initialize"
           /\ InFlight(s) <=> task[s].pc \in {"post", "read", "persist", "me", "undo", "wipe"}
           /\ Early(s) => user = None /\ token = None /\ s = latest
  BY DEF IInv, TypeOK, OInv, KindsFit, KindFits, RowOK, InFlight, AuthKind, Starting, Early

\* Operations that begin.
LEMMA StartTurns ==
    ASSUME IInv, NEW s \in Task, NEW kind \in Kind, NEW pc \in KeychainCall \cup Call,
           NEW who \in Maybe, Start(s, kind, pc, who)
    PROVE  /\ Turned(s, kind, pc, IF pc \in Bearing THEN bearer ELSE None, None)
           /\ task[s].pc = "idle"
  <1> DEFINE hdr == IF pc \in Bearing THEN bearer ELSE None
             t == [Idle EXCEPT !.kind = kind, !.pc = pc, !.who = who, !.hdr = hdr,
                               !.screen = Top]
  <1>1. /\ t \in TaskRow /\ t.kind = kind /\ t.pc = pc /\ t.hdr = hdr /\ t.got = None
    BY TopScreen DEF Idle, TaskRow, Maybe, IInv, TypeOK
  <1>2. task' = With(s, t) /\ task[s].pc = "idle"
    BY DEF Start, Free
  <1> HIDE DEF t, hdr
  <1> QED
    BY <1>1, <1>2, Turns DEF IInv, hdr

\* A second auth operation is an overlap, which excuses what follows; a first one
\* starts from agreement.
LEMMA AuthStartsOne ==
    ASSUME IInv, OInv, NEW s \in Task, NEW a \in Account,
           StartLogin(s, a) \/ StartRegister(s, a) \/ OpenAppleSheet(s, a)
    PROVE  OInv'
  <1>1. /\ a \in Maybe /\ {"login", "register", "apple"} \subseteq Kind \cap AuthKind
        /\ {"post", "sheet"} \subseteq Call
    BY DEF Maybe, Kind, AuthKind, Call
  <1>2. CASE StartLogin(s, a) \/ StartRegister(s, a)
    <2>1. PICK kind \in {"login", "register"} : Start(s, kind, "post", a)
      BY <1>2 DEF StartLogin, StartRegister
    <2>2. Turned(s, kind, "post", None, None) /\ task[s].pc = "idle"
      BY <1>1, <2>1, StartTurns DEF Bearing
    <2>3. UNCHANGED <<identity, store>> /\ nextAuthOp(s)
      BY <1>2 DEF StartLogin, StartRegister
    <2> QED
      BY <1>1, <2>2, <2>3, AuthStep DEF InFlight, FetchesProfile, KindFits
  <1>3. CASE OpenAppleSheet(s, a)
    <2>1. Start(s, "apple", "sheet", a)
      BY <1>3 DEF OpenAppleSheet
    <2>2. Turned(s, "apple", "sheet", None, None) /\ task[s].pc = "idle"
      BY <1>1, <2>1, StartTurns DEF Bearing
    <2>3. UNCHANGED <<identity, latest, crossings>> /\ store' = store
      BY <1>3 DEF OpenAppleSheet
    <2> QED
      BY <2>2, <2>3, QuietStep DEF InFlight, KindFits
  <1> QED
    BY <1>2, <1>3

\* The other operations start from an identity that is one.
LEMMA OtherStartsOne ==
    ASSUME IInv, OInv, NEW s \in Task,
           \/ StartLogout(s) \/ StartDelete(s) \/ VisitProfile(s)
           \/ SubmitStep1(s) \/ SubmitStep4(s) \/ SubmitEdit(s)
    PROVE  OInv'
  <1>1. /\ None \in Maybe /\ {"logout", "delete"} \subseteq Kind \cap AuthKind
        /\ {"step1", "step4", "save"} \subseteq Kind
        /\ {"wipe", "erase", "put"} \subseteq KeychainCall \cup Call
    BY DEF Maybe, Kind, AuthKind, Call, KeychainCall
  <1>2. CASE StartLogout(s)
    <2>1. Start(s, "logout", "wipe", None) /\ UNCHANGED <<identity, store>> /\ nextAuthOp(s)
      BY <1>2 DEF StartLogout
    <2>2. Turned(s, "logout", "wipe", None, None) /\ task[s].pc = "idle"
      BY <1>1, <2>1, StartTurns DEF Bearing
    <2> QED
      BY <1>1, <2>1, <2>2, AuthStep DEF InFlight, FetchesProfile, KindFits
  <1>3. CASE StartDelete(s)
    <2>1. Start(s, "delete", "erase", None) /\ UNCHANGED <<identity, latest, crossings>>
          /\ store' = store
      BY <1>3 DEF StartDelete
    <2>2. Turned(s, "delete", "erase", bearer, None) /\ task[s].pc = "idle"
      BY <1>1, <2>1, StartTurns DEF Bearing
    <2> QED
      BY <2>1, <2>2, QuietStep DEF InFlight, KindFits
  <1>4. CASE SubmitStep1(s) \/ SubmitStep4(s) \/ SubmitEdit(s)
    <2>1. PICK kind \in {"step1", "step4", "save"} : Submit(s, kind)
      BY <1>4 DEF SubmitStep1, SubmitStep4, SubmitEdit
    <2>2. Start(s, kind, "put", None) /\ StartsProfileCall
          /\ UNCHANGED <<identity, store, latest>>
      BY <2>1 DEF Submit
    <2>3. Turned(s, kind, "put", bearer, None) /\ task[s].pc = "idle"
      BY <1>1, <2>2, StartTurns DEF Bearing
    <2> QED
      BY <2>2, <2>3, ProfileStep DEF InFlight
  <1>5. CASE VisitProfile(s)
    <2> DEFINE t == [Idle EXCEPT !.kind = "visit", !.pc = "get1", !.hdr = bearer,
                                 !.screen = "Profile"]
    <2>1. /\ \E routes : Show(routes, With(s, t))
          /\ StartsProfileCall /\ UNCHANGED <<identity, store, latest>>
          /\ task[s].pc = "idle"
      BY <1>5 DEF VisitProfile, Free
    <2>2. t \in TaskRow /\ t.kind = "visit" /\ t.pc = "get1" /\ t.hdr = bearer /\ t.got = None
      BY DEF Idle, TaskRow, Maybe, IInv, TypeOK, Kind, KeychainCall, Call, Screen
    <2> HIDE DEF t
    <2>3. Turned(s, "visit", "get1", bearer, None)
      BY <2>1, <2>2, Turns DEF IInv
    <2> QED
      BY <2>1, <2>3, ProfileStep DEF InFlight
  <1> QED
    BY <1>2, <1>3, <1>4, <1>5

\* Requests of the auth store and its sheet.
LEMMA RequestStepsOne ==
    ASSUME IInv, OInv, NEW s \in Task,
           \/ CloseAppleSheet(s) \/ StartApple(s) \/ PostAnswered(s)
           \/ MeFailed(s) \/ MeFailedStale(s) \/ EraseAnswered(s)
    PROVE  OInv'
  <1>1. CASE CloseAppleSheet(s)
    <2>1. /\ task[s].pc = "sheet" /\ task' = Ended(s) /\ store' = store
          /\ UNCHANGED <<identity, latest, crossings>>
      BY <1>1 DEF CloseAppleSheet
    <2>2. Turned(s, "none", "idle", None, None)
      BY <2>1, EndTurns DEF IInv
    <2> QED
      BY <2>1, <2>2, QuietStep DEF InFlight, KindFits
  <1>2. CASE StartApple(s)
    <2> DEFINE t == [task[s] EXCEPT !.pc = "post"]
    <2>1. /\ task[s].pc = "sheet" /\ task' = With(s, t)
          /\ nextAuthOp(s) /\ UNCHANGED <<identity, store>>
      BY <1>2 DEF StartApple, Waits
    <2>2. t \in TaskRow /\ t.kind = "apple" /\ t.pc = "post"
      BY <2>1, RowFacts DEF TaskRow, Call, KindFits
    <2> HIDE DEF t
    <2>3. Turned(s, "apple", "post", t.hdr, t.got)
      BY <2>1, <2>2, Turns DEF IInv
    <2> QED
      BY <2>1, <2>3, AuthStep DEF InFlight, FetchesProfile, KindFits, AuthKind
  <1>3. CASE PostAnswered(s)
    <2> DEFINE t == [task[s] EXCEPT !.pc = "persist"]
    <2>1. /\ task[s].pc = "post" /\ task' = With(s, t)
          /\ UNCHANGED <<identity, latest, store, crossings>>
          /\ task[s].kind \in {"login", "register", "apple"}
      BY <1>3 DEF PostAnswered, Waits
    <2>2. t \in TaskRow /\ t.kind = task[s].kind /\ t.pc = "persist"
      BY RowFacts DEF TaskRow, KeychainCall
    <2> HIDE DEF t
    <2>3. Turned(s, task[s].kind, "persist", t.hdr, t.got)
      BY <2>1, <2>2, Turns DEF IInv
    <2>4. InFlight(s)
      BY <2>1, RowFacts
    <2>5. ~overlapped => Agree'
      BY <2>1, <2>4 DEF OInv, Orderly, Phase, Agree, identity
    <2>6. ~mixed => store' = None
      BY <2>1, <2>4 DEF OInv, Uncrossed
    <2> QED
      BY <2>1, <2>3, <2>4, <2>5, <2>6, FlightStep DEF KindFits, AuthKind
  <1>4. CASE MeFailed(s)
    <2> DEFINE t == [task[s] EXCEPT !.pc = "undo", !.who = None, !.hdr = None]
    <2>1. /\ task[s].pc = "me" /\ task' = With(s, t)
          /\ UNCHANGED <<identity, latest, store, crossings>>
      BY <1>4 DEF MeFailed
    <2>2. t \in TaskRow /\ t.kind = task[s].kind /\ t.pc = "undo"
      BY RowFacts DEF TaskRow, KeychainCall, Maybe
    <2> HIDE DEF t
    <2>3. Turned(s, task[s].kind, "undo", t.hdr, t.got)
      BY <2>1, <2>2, Turns DEF IInv
    <2>4. InFlight(s) /\ KindFits(task[s].kind, "undo")
          /\ task[s].kind \in {"initialize", "login", "register", "apple"}
      BY <2>1, RowFacts DEF KindFits
    <2>5. ~mixed => store' = None
      BY <2>1, <2>4 DEF OInv, Uncrossed
    <2> QED
      BY <2>1, <2>3, <2>4, <2>5, FlightStep DEF AuthKind
  <1>5. CASE MeFailedStale(s)
    <2>1. /\ task[s].pc = "me" /\ task' = Ended(s) /\ s # latest
          /\ UNCHANGED <<identity, latest, store, crossings>>
      BY <1>5 DEF MeFailedStale, isCurrent
    <2>2. Turned(s, "none", "idle", None, None)
      BY <2>1, EndTurns DEF IInv
    <2>3. InFlight(s)
      BY <2>1, RowFacts
    <2>4. overlapped /\ mixed
      BY <2>1, <2>3 DEF OInv, Orderly, Uncrossed
    <2> QED
      BY <2>1, <2>2, <2>3, <2>4, FlightStep DEF KindFits
  <1>6. CASE EraseAnswered(s)
    <2> DEFINE t == [task[s] EXCEPT !.pc = "wipe", !.hdr = None]
    <2>1. /\ task[s].pc = "erase" /\ task' = With(s, t)
          /\ nextAuthOp(s) /\ UNCHANGED <<identity, store>>
      BY <1>6 DEF EraseAnswered
    <2>2. t \in TaskRow /\ t.kind = "delete" /\ t.pc = "wipe"
      BY <2>1, RowFacts DEF TaskRow, KeychainCall, Maybe, KindFits
    <2> HIDE DEF t
    <2>3. Turned(s, "delete", "wipe", t.hdr, t.got)
      BY <2>1, <2>2, Turns DEF IInv
    <2> QED
      BY <2>1, <2>3, AuthStep DEF InFlight, FetchesProfile, KindFits, AuthKind
  <1> QED
    BY <1>1, <1>2, <1>3, <1>4, <1>5, <1>6
\* An operation that is over ends, or its caller asks for the profile with the
\* token that is set now.
LEMMA OverTurns ==
    ASSUME IInv, OInv, NEW s \in Task, bearer' \in Maybe, Resolved(s) \/ SplashNext(s)
    PROVE  \E kind, pc, got :
              /\ Turned(s, kind, pc, IF pc = "get1" THEN bearer' ELSE None, got)
              /\ pc \in {"idle", "get1"}
  <1>1. CASE \E routes : Show(routes, Ended(s))
    <2>1. Turned(s, "none", "idle", None, None)
      BY <1>1, EndTurns DEF IInv
    <2> QED
      BY <2>1
  <1>2. ASSUME NEW who \in Maybe, NEW routes,
               Show(routes, With(s, [task[s] EXCEPT !.pc = "get1", !.hdr = bearer', !.who = who]))
        PROVE  \E got : Turned(s, task[s].kind, "get1", bearer', got)
    <2> DEFINE t == [task[s] EXCEPT !.pc = "get1", !.hdr = bearer', !.who = who]
    <2>1. t \in TaskRow /\ t.kind = task[s].kind /\ t.pc = "get1" /\ t.hdr = bearer'
      BY RowFacts DEF TaskRow, Call
    <2>2. \E r : Show(r, With(s, t))
      BY <1>2
    <2> HIDE DEF t
    <2>3. Turned(s, task[s].kind, "get1", bearer', t.got)
      BY <2>1, <2>2, Turns DEF IInv
    <2> QED
      BY <2>3
  <1>3. CASE Resolved(s) /\ task[s].kind # "register"
    <2>1. Show(stack, With(s, [Sends(task[s], "get1") EXCEPT !.who = None]))
      BY <1>3 DEF Resolved
    <2>2. [Sends(task[s], "get1") EXCEPT !.who = None]
             = [task[s] EXCEPT !.pc = "get1", !.hdr = bearer', !.who = None]
      BY RowFacts DEF Sends, TaskRow
    <2>3. \E got : Turned(s, task[s].kind, "get1", bearer', got)
      BY <1>2, <2>1, <2>2 DEF Maybe
    <2> QED
      BY <2>3
  <1>4. CASE SplashNext(s) /\ token' # None
    <2>1. Show(stack, With(s, Sends(task[s], "get1")))
      BY <1>4 DEF SplashNext
    <2>2. Sends(task[s], "get1")
             = [task[s] EXCEPT !.pc = "get1", !.hdr = bearer', !.who = task[s].who]
      BY RowFacts DEF Sends, TaskRow
    <2>3. task[s].who \in Maybe
      BY RowFacts DEF TaskRow
    <2>4. \E got : Turned(s, task[s].kind, "get1", bearer', got)
      BY <1>2, <2>1, <2>2, <2>3
    <2> QED
      BY <2>4
  <1> QED
    BY <1>1, <1>3, <1>4 DEF Resolved, SplashNext

\* An operation in flight that is over leaves one identity behind.
LEMMA OverStep ==
    ASSUME IInv, OInv, NEW s \in Task, bearer' \in Maybe, Resolved(s) \/ SplashNext(s),
           UNCHANGED <<latest, store, crossings>>, InFlight(s),
           task[s].kind \notin {"logout", "delete"},
           ~overlapped => Agree'
    PROVE  OInv'
  <1>1. PICK kind, pc, got :
           /\ Turned(s, kind, pc, IF pc = "get1" THEN bearer' ELSE None, got)
           /\ pc \in {"idle", "get1"}
    BY OverTurns
  <1>2. ~mixed => ~overlapped /\ store = None
    BY DEF OInv, Uncrossed
  <1>3. Agree' => bearer' = user'
    BY DEF Agree
  <1>4. PICK hdr : hdr = IF pc = "get1" THEN bearer' ELSE None
    OBVIOUS
  <1>5. Turned(s, kind, pc, hdr, got)
    BY <1>1, <1>4
  <1> QED
    BY <1>1, <1>2, <1>3, <1>4, <1>5, FlightStep DEF KindFits

\* A hydration that is still the newest operation sets the user its token belongs to;
\* another one sets nothing.
LEMMA HydrateStepsOne ==
    ASSUME IInv, OInv, NEW s \in Task,
           hydrateCurrent(s) \/ hydrateStale(s) \/ MeAnswered(s)
    PROVE  OInv'
  <1>1. task[s].pc \in {"persist", "me"} /\ InFlight(s)
        /\ task[s].kind \in {"login", "register", "apple"}
    BY RowFacts DEF hydrateCurrent, hydrateStale, MeAnswered, KeychainTurn, KindFits
  <1>2. CASE hydrateCurrent(s)
    <2> DEFINE t == [task[s] EXCEPT !.pc = "me", !.hdr = task[s].who]
    <2>1. /\ task' = With(s, t) /\ store' = store
          /\ secure' = task[s].who /\ bearer' = task[s].who /\ token' = task[s].who
          /\ UNCHANGED <<latest, crossings>>
      BY <1>2 DEF hydrateCurrent, Sends
    <2>2. t \in TaskRow /\ t.kind = task[s].kind /\ t.pc = "me" /\ t.hdr = task[s].who
      BY RowFacts DEF TaskRow, Call
    <2> HIDE DEF t
    <2>3. Turned(s, task[s].kind, "me", task[s].who, t.got)
      BY <2>1, <2>2, Turns DEF IInv
    <2>4. ~mixed => store' = None
      BY <1>1, <2>1 DEF OInv, Uncrossed
    <2> QED
      BY <1>1, <2>1, <2>3, <2>4, FlightStep DEF KindFits, AuthKind
  <1>3. CASE hydrateStale(s)
    <2>1. /\ s # latest /\ Resolved(s) /\ bearer' = bearer
          /\ UNCHANGED <<latest, store, crossings>>
      BY <1>3 DEF hydrateStale, isCurrent
    <2>2. overlapped
      BY <1>1, <2>1 DEF OInv, Orderly
    <2>3. bearer' \in Maybe
      BY <2>1 DEF IInv, TypeOK
    <2> QED
      BY <1>1, <2>1, <2>2, <2>3, OverStep
  <1>4. CASE MeAnswered(s)
    <2>1. /\ Resolved(s) /\ task[s].pc = "me"
          /\ user' = IF s = latest THEN task[s].hdr ELSE user
          /\ UNCHANGED <<secure, bearer, token, latest, store, crossings>>
      BY <1>4 DEF MeAnswered, isCurrent
    <2>2. ~overlapped => Agree'
      BY <1>1, <2>1 DEF OInv, Orderly, Phase, Agree
    <2>3. bearer' \in Maybe
      BY <2>1 DEF IInv, TypeOK
    <2> QED
      BY <1>1, <2>1, <2>2, <2>3, OverStep
  <1> QED
    BY <1>2, <1>3, <1>4

\* What is undone or logged out is undone in memory, store and keychain alike.
LEMMA WipeStepsOne ==
    ASSUME IInv, OInv, NEW s \in Task, hydrateUndone(s) \/ logoutDone(s)
    PROVE  OInv'
  <1>1. /\ task[s].pc \in {"undo", "wipe"} /\ \E routes : Show(routes, Ended(s))
        /\ secure' = None /\ bearer' = None /\ token' = None /\ user' = None
        /\ UNCHANGED <<latest, crossings>>
        /\ store' = None \/ (task[s].pc = "undo" /\ store' = store)
    BY DEF hydrateUndone, logoutDone, KeychainTurn
  <1>2. Turned(s, "none", "idle", None, None)
    BY <1>1, EndTurns DEF IInv
  <1>3. InFlight(s) /\ (task[s].pc = "undo" => task[s].kind \notin {"logout", "delete"})
    BY <1>1, RowFacts DEF KindFits
  <1>4. ~mixed => store' = None
    BY <1>1, <1>3 DEF OInv, Uncrossed
  <1>5. Agree'
    BY <1>1 DEF Agree
  <1> QED
    BY <1>1, <1>2, <1>3, <1>4, <1>5, FlightStep DEF KindFits

\* A restart restores the identity of the keychain, or none.
LEMMA InitializeStepsOne ==
    ASSUME IInv, OInv, NEW s \in Task,
           initializeRead(s) \/ initializeAnswered(s) \/ initializeUndone(s)
    PROVE  OInv'
  <1>1. /\ task[s].pc \in {"read", "me", "undo"} /\ task[s].kind = "initialize"
        /\ InFlight(s) /\ Early(s) /\ user = None /\ token = None /\ s = latest
        /\ UNCHANGED <<latest, store, crossings>>
    BY RowFacts DEF initializeRead, initializeAnswered, initializeUndone, KeychainTurn, Early
  <1>2. secure \in Maybe /\ bearer \in Maybe /\ None \in Maybe
    BY DEF IInv, TypeOK, Maybe
  <1>3. CASE initializeRead(s)
    <2>1. task[s].pc = "read" /\ UNCHANGED <<secure, user>>
      BY <1>3 DEF initializeRead, KeychainTurn
    <2>2. CASE secure # None
      <3> DEFINE t == [task[s] EXCEPT !.pc = "me", !.hdr = bearer']
      <3>1. task' = With(s, t) /\ bearer' = secure
        BY <1>1, <1>3, <2>2 DEF initializeRead, Sends, isCurrent
      <3>2. t \in TaskRow /\ t.kind = "initialize" /\ t.pc = "me" /\ t.hdr = secure
        BY <1>1, <1>2, <3>1, RowFacts DEF TaskRow, Call
      <3> HIDE DEF t
      <3>3. Turned(s, "initialize", "me", secure, t.got)
        BY <3>1, <3>2, Turns DEF IInv
      <3>4. ~mixed => store' = None
        BY <1>1 DEF OInv, Uncrossed
      <3> QED
        BY <1>1, <2>1, <3>1, <3>3, <3>4, FlightStep DEF KindFits, AuthKind
    <2>3. CASE secure = None
      <3>1. UNCHANGED <<bearer, token>> /\ SplashNext(s)
        BY <1>3, <2>3 DEF initializeRead
      <3>2. ~overlapped => Agree'
        BY <1>1, <2>1, <2>3, <3>1 DEF OInv, Orderly, Phase, Agree
      <3> QED
        BY <1>1, <1>2, <3>1, <3>2, OverStep
    <2> QED
      BY <2>2, <2>3
  <1>4. CASE initializeAnswered(s)
    <2>1. /\ task[s].pc = "me" /\ SplashNext(s) /\ UNCHANGED <<secure, bearer>>
          /\ token' = task[s].hdr /\ user' = task[s].hdr
      BY <1>1, <1>4 DEF initializeAnswered, isCurrent
    <2>2. ~overlapped => Agree'
      BY <1>1, <2>1 DEF OInv, Orderly, Phase, Agree
    <2> QED
      BY <1>1, <1>2, <2>1, <2>2, OverStep
  <1>5. CASE initializeUndone(s)
    <2>1. SplashNext(s) /\ secure' = None /\ bearer' = None /\ UNCHANGED <<token, user>>
      BY <1>5 DEF initializeUndone
    <2>2. Agree'
      BY <1>1, <2>1 DEF Agree
    <2> QED
      BY <1>1, <1>2, <2>1, <2>2, OverStep
  <1> QED
    BY <1>3, <1>4, <1>5

\* Requests of the profile store, and any request that fails.
LEMMA ProfileStepsOne ==
    ASSUME IInv, OInv, NEW s \in Task,
           \/ ProfileArrived(s) \/ SportsArrived(s) \/ ProfileStored(s) \/ SportsStored(s)
           \/ RequestFailed(s) \/ AnswerLost(s)
    PROVE  OInv'
  <1>1. UNCHANGED <<identity, latest, crossings>>
    BY DEF ProfileArrived, SportsArrived, ProfileStored, SportsStored, RequestFailed, AnswerLost,
           identity, crossings
  <1>2. CASE \E routes : task' = Ended(s) \/ Show(routes, Ended(s))
    <2>1. Turned(s, "none", "idle", None, None)
      BY <1>2, EndTurns DEF IInv
    <2>2. CASE task[s].pc = "post"
      <3>1. InFlight(s) /\ task[s].kind \notin {"logout", "delete"}
        BY <2>2, RowFacts DEF KindFits
      <3>2. store' = store
        BY <2>2 DEF ProfileArrived, SportsArrived, ProfileStored, SportsStored, RequestFailed,
                    AnswerLost
      <3>3. ~mixed => store' = None
        BY <3>1, <3>2 DEF OInv, Uncrossed
      <3>4. ~overlapped => Agree'
        BY <1>1, <2>2, <3>1 DEF OInv, Orderly, Phase, Agree, identity
      <3> QED
        BY <1>1, <2>1, <3>1, <3>3, <3>4, FlightStep DEF KindFits
    <2>3. CASE task[s].pc # "post"
      <3>1. task[s].pc \in {"get1", "get2", "put", "erase"}
        BY <2>3 DEF ProfileArrived, SportsArrived, ProfileStored, SportsStored, RequestFailed,
                    AnswerLost, Call
      <3>2. ~InFlight(s)
        BY <3>1 DEF InFlight
      <3>3. store' # store => \/ task[s].pc = "get2" /\ store' = task[s].got
                              \/ task[s].pc = "put" /\ store' = task[s].hdr
        BY <2>3 DEF ProfileArrived, SportsArrived, ProfileStored, SportsStored, RequestFailed,
                    AnswerLost
      <3>4. ~mixed /\ store' # store => FetchesProfile(s) /\ store' = user
        BY <3>3 DEF OInv, Uncrossed, FetchesProfile
      <3> QED
        BY <1>1, <2>1, <3>2, <3>4, QuietStep DEF KindFits
    <2> QED
      BY <2>2, <2>3
  <1>3. CASE ProfileArrived(s)
    <2> DEFINE t == [task[s] EXCEPT !.pc = "get2", !.hdr = bearer', !.got = task[s].hdr]
    <2>1. /\ task[s].pc = "get1" /\ store' = store /\ bearer' = bearer
          /\ task' = With(s, [Sends(task[s], "get2") EXCEPT !.got = task[s].hdr])
      BY <1>3 DEF ProfileArrived
    <2>2. [Sends(task[s], "get2") EXCEPT !.got = task[s].hdr] = t
      BY RowFacts DEF Sends, TaskRow
    <2>3. /\ t \in TaskRow /\ t.kind = task[s].kind /\ t.pc = "get2" /\ t.hdr = bearer
          /\ t.got = task[s].hdr
      BY <2>1, RowFacts DEF TaskRow, Call, IInv, TypeOK
    <2> HIDE DEF t
    <2>4. Turned(s, task[s].kind, "get2", bearer, task[s].hdr)
      BY <2>1, <2>2, <2>3, Turns DEF IInv
    <2> QED
      BY <1>1, <2>1, <2>4, QuietStep DEF InFlight, FetchesProfile, KindFits
  <1>4. CASE ProfileStored(s) /\ task[s].kind = "save"
    <2> DEFINE t == [task[s] EXCEPT !.pc = "get1", !.hdr = bearer']
    <2>1. /\ task[s].pc = "put" /\ store' = task[s].hdr /\ bearer' = bearer
          /\ Show(stack, With(s, t))
      BY <1>4 DEF ProfileStored, Sends
    <2>2. t \in TaskRow /\ t.kind = "save" /\ t.pc = "get1" /\ t.hdr = bearer
      BY <1>4, <2>1, RowFacts DEF TaskRow, Call, IInv, TypeOK
    <2> HIDE DEF t
    <2>3. Turned(s, "save", "get1", bearer, t.got)
      BY <2>1, <2>2, Turns DEF IInv
    <2>4. ~mixed /\ store' # store => store' = user
      BY <2>1 DEF OInv, Uncrossed, FetchesProfile
    <2> QED
      BY <1>1, <2>1, <2>3, <2>4, QuietStep DEF InFlight, FetchesProfile, KindFits
  <1>5. CASE SportsArrived(s) \/ (ProfileStored(s) /\ task[s].kind # "save")
             \/ SportsStored(s) \/ RequestFailed(s) \/ AnswerLost(s)
    <2>1. \E routes : task' = Ended(s) \/ Show(routes, Ended(s))
      BY <1>5 DEF SportsArrived, ProfileStored, SportsStored, RequestFailed, AnswerLost
    <2> QED
      BY <1>2, <2>1
  <1> QED
    BY <1>3, <1>4, <1>5

\* Navigation alone, and steps of something else.
LEMMA StillStep ==
    ASSUME IInv, OInv,
           (\E routes : Show(routes, task)) \/ task' = task,
           UNCHANGED <<identity, latest, store, crossings>>
    PROVE  OInv'
  <1>1. PICK s \in Task : TRUE
    BY DEF IInv, TypeOK
  <1>2. task[s] \in TaskRow /\ With(s, task[s]) = task
    BY DEF IInv, TypeOK, With
  <1>3. Turned(s, task[s].kind, task[s].pc, task[s].hdr, task[s].got)
    BY <1>2, Turns DEF IInv
  <1>4. \A q \in Task : /\ task'[q].kind = task[q].kind /\ task'[q].pc = task[q].pc
                        /\ task'[q].hdr = task[q].hdr /\ task'[q].got = task[q].got
    BY <1>3 DEF Turned
  <1> QED
    BY <1>4 DEF OInv, KindsFit, KindFits, Orderly, Uncrossed, Phase, Agree, InFlight,
                FetchesProfile, identity, crossings

\* The app as it starts is of one identity.
LEMMA FreshOInv == Fresh => OInv
  <1> SUFFICES ASSUME Fresh
               PROVE  OInv
    OBVIOUS
  <1>1. 1 \in Task
    BY SlotsAssumption DEF Task
  <1>2. \A q \in Task : /\ task[q].pc = IF q = 1 THEN "read" ELSE "idle"
                        /\ task[q].kind = IF q = 1 THEN "initialize" ELSE "none"
    BY <1>1 DEF Fresh, Idle
  <1>3. InFlight(1) /\ \A q \in Task : InFlight(q) => q = 1
    BY <1>1, <1>2 DEF InFlight, AuthKind
  <1> QED
    BY <1>1, <1>2, <1>3 DEF Fresh, OInv, KindsFit, KindFits, Orderly, Uncrossed, Phase,
                            FetchesProfile

\* Every step keeps it so, or sets the history variable of the race that broke it.
LEMMA NextKeepsOne ==
    ASSUME IInv, OInv, [Next]_vars
    PROVE  OInv'
  <1>1. ASSUME NEW s \in Task, Continue(s)
        PROVE  OInv'
    BY <1>1, RequestStepsOne, HydrateStepsOne, WipeStepsOne, InitializeStepsOne, ProfileStepsOne
       DEF Continue
  <1>2. ASSUME NEW s \in Task, User(s)
        PROVE  OInv'
    BY <1>2, AuthStartsOne, OtherStartsOne, RequestStepsOne DEF User
  <1>3. CASE (\E screen \in {"LoginScreen", "RegisterScreen"} : OpenAuthScreen(screen))
                \/ OpenEditProfile \/ Back
    <2>1. \E routes : Move(routes)
      BY <1>3 DEF OpenAuthScreen, OpenEditProfile, Back
    <2> QED
      BY <2>1, StillStep DEF Move
  <1>4. CASE Restart
    <2>1. secure' \in Maybe /\ registered' \in SUBSET Account /\ listed' \in SUBSET Account
      BY <1>4 DEF Restart, server, IInv, TypeOK
    <2>2. Fresh'
      BY <1>4, <2>1 DEF Restart, Fresh
    <2>3. (Fresh => OInv)'
      BY FreshOInv, PTL
    <2> QED
      BY <2>2, <2>3
  <1>5. CASE UNCHANGED vars
    BY <1>5, StillStep DEF vars, crossings
  <1> QED
    BY <1>1, <1>2, <1>3, <1>4, <1>5 DEF Next

\* The identity stays one outside the races that the history variables name.
THEOREM OneInvariance == Spec => []OInv
<1>1. Init => OInv
  <2>1. Init => Fresh
    BY DEF Init, Fresh
  <2> QED
    BY <2>1, FreshOInv
<1>2. IInv /\ OInv /\ [Next]_vars => OInv'
  BY NextKeepsOne
<1> QED
  BY <1>1, <1>2, Invariance, PTL DEF Spec

\* When nothing is in flight there is one identity in the keychain, on the requests,
\* in memory and in the profile store, whatever number of operations may be in
\* flight, in whatever order the user starts them and they are answered, refused or
\* lost, and however often the app starts again; unless auth operations overlapped,
\* or, for the profile, one of its requests crossed an auth operation.
THEOREM IdentityIsOne == Spec => []OneIdentity
<1>1. OInv => OneIdentity
  BY DEF OInv, Orderly, Uncrossed, OneIdentity, Settled, StoreIsUsers, Agree
<1> QED
  BY <1>1, OneInvariance, PTL
=============================================================================
