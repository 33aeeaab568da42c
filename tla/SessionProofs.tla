--------------------------- MODULE SessionProofs ---------------------------
(***************************************************************************)
(* Proofs about Session for any set of accounts, any number of overlapping *)
(* sign-ins and any bounds.                                                *)
(***************************************************************************)
EXTENDS Session, SequenceTheorems, TLAPS

----------------------------------------------------------------------------
(* The types of what the actions build *)

\* dispose() of the screens that left the navigator keeps the States typed.
LEMMA DisposedType ==
    ASSUME NEW ms \in [MainIds -> Main], NEW stk
    PROVE  Disposed(ms, stk) \in [MainIds -> Main]
BY DEF Disposed, Main, Free, Maybe

\* initState of a MainScreen starts in a typed phase of fetchData.
LEMMA FetchStartedType ==
    ASSUME NEW u \in Maybe(AppUser)
    PROVE  FetchStarted(u) \in Main
<1>1. CASE u = None
  BY <1>1 DEF FetchStarted, Main, Free, Maybe
<1>2. CASE u \in AppUser
  <2>1. u # None /\ u.uid \in Accounts /\ u.uid # None
    BY <1>2, NoneAssumption DEF AppUser
  <2> QED
    BY <2>1 DEF FetchStarted, Main, Maybe
<1> QED
  BY <1>1, <1>2 DEF Maybe

\* Pushing a MainScreen keeps the navigator and the States typed.
LEMMA ShowMainType ==
    ASSUME TypeOK, NEW below \in Seq(Screen), NEW u \in Maybe(AppUser),
           ShowMain(below, u)
    PROVE  stack' \in Seq(Screen) /\ mains' \in [MainIds -> Main]
<1>1. PICK id \in MainIds :
        /\ stack' = Append(below, [name |-> "main", id |-> id])
        /\ mains' = Disposed([mains EXCEPT ![id] = FetchStarted(u)], stack')
  BY DEF ShowMain
<1>2. [name |-> "main", id |-> id] \in Screen
  BY SessionAssumption DEF Screen, Names, MainIds
<1>3. [mains EXCEPT ![id] = FetchStarted(u)] \in [MainIds -> Main]
  BY FetchStartedType DEF TypeOK
<1>4. stack' \in Seq(Screen)
  BY <1>1, <1>2
<1>5. mains' \in [MainIds -> Main]
  <2> DEFINE started == [mains EXCEPT ![id] = FetchStarted(u)]
  <2> HIDE DEF started
  <2>1. Disposed(started, stack') \in [MainIds -> Main]
    BY <1>3, DisposedType DEF started
  <2> QED
    BY <1>1, <2>1 DEF started
<1> QED
  BY <1>4, <1>5

\* Replacing the navigator's routes keeps it and the States typed.
LEMMA ShowType ==
    ASSUME TypeOK, NEW stk \in Seq(Screen), Show(stk)
    PROVE  stack' \in Seq(Screen) /\ mains' \in [MainIds -> Main]
BY DisposedType DEF TypeOK, Show

\* The screen of a named route is a screen.
LEMMA RouteType ==
    ASSUME NEW n \in Names
    PROVE  Route(n) \in Screen
BY SessionAssumption DEF Route, Screen

\* The routes below the top one are routes.
LEMMA BelowType ==
    ASSUME TypeOK
    PROVE  Below \in Seq(Screen)
BY DEF TypeOK, Below

\* The routes below the top one, position by position.
LEMMA BelowIs ==
    ASSUME TypeOK, Launched
    PROVE  /\ Len(stack) \in Nat \ {0} /\ DOMAIN stack = 1..Len(stack)
           /\ Below \in Seq(Screen) /\ Len(Below) = Len(stack) - 1
           /\ \A i \in DOMAIN Below :
                 i \in DOMAIN stack /\ i < Len(stack) /\ Below[i] = stack[i]
<1> DEFINE n == Len(stack)
           k == n - 1
<1>1. stack \in Seq(Screen) /\ stack # <<>> /\ n \in Nat \ {0} /\ DOMAIN stack = 1..n
  BY DEF TypeOK, Launched
<1>2. /\ 1 \in Int /\ k \in Int /\ k >= 0 /\ k - 1 + 1 = k
      /\ (~(1 <= k) => k = 0) /\ k \in Nat
  BY <1>1
<1>3. \A i \in 1..k : stack[i] \in Screen
  BY <1>1
<1> HIDE DEF k
<1>4. Len(SubSeq(stack, 1, k)) = IF 1 <= k THEN k - 1 + 1 ELSE 0
  BY <1>2, <1>3, SubSeqProperties
<1>5. Below = SubSeq(stack, 1, k) /\ Len(Below) = k
  BY <1>2, <1>4 DEF Below, k
<1>6. Below \in Seq(Screen)
  BY BelowType
<1>7. DOMAIN Below = 1..k
  BY <1>5, <1>6
<1>8. ASSUME NEW i \in DOMAIN Below
      PROVE  i \in DOMAIN stack /\ i < n /\ Below[i] = stack[i]
  <2>1. i \in 1..k
    BY <1>7
  <2>2. i \in 1..n /\ i < n
    <3> HIDE DEF n
    <3> QED BY <1>1, <2>1 DEF k
  <2>3. Below[i] = stack[i]
    BY <1>1, <2>1, <2>2 DEF Below, k
  <2> QED BY <1>1, <2>2, <2>3
<1> QED BY <1>1, <1>5, <1>6, <1>8 DEF k

\* A read answers with a document or nothing.
LEMMA ViewType ==
    ASSUME TypeOK, NEW a \in Accounts
    PROVE  View(a) \in Maybe(Doc)
BY DEF TypeOK, View, QueuedAfterSet, Maybe, Doc

\* The server's side of a write leaves a document or nothing.
LEMMA StoredType ==
    ASSUME NEW d \in Maybe(Doc), NEW op \in {"set", "onboard", "prestador"}
    PROVE  Stored(d, op) \in Maybe(Doc)
BY DEF Stored, Maybe, Doc, NewDoc

\* Queueing a write keeps the queues typed.
LEMMA EnqueueType ==
    ASSUME TypeOK, NEW op \in {"set", "onboard", "prestador"}, NEW a \in Accounts,
           Enqueue(op, a)
    PROVE  writes' \in [Maybe(Accounts) -> Seq(Write)]
<1>1. [op |-> op, uid |-> a, live |-> TRUE] \in Write
  BY DEF Write
<1> QED
  BY <1>1 DEF TypeOK, Enqueue

\* The end of a run of signInWithGoogle keeps the runs typed.
LEMMA ReturnedType ==
    ASSUME TypeOK, NEW t \in Taps, NEW result \in Maybe(Accounts), Returned(t, result)
    PROVE  taps' \in [Taps -> Tap]
<1>1. Idle \in Tap
  BY DEF Idle, Tap, Maybe
<1>2. [Idle EXCEPT !.pc = "welcome", !.acct = result] \in Tap
  BY <1>1 DEF Tap, Idle, Maybe
<1>3. PICK e \in Tap : taps' = [taps EXCEPT ![t] = e]
  BY <1>1, <1>2 DEF Returned
<1> QED
  BY <1>3 DEF TypeOK

----------------------------------------------------------------------------
(* Type correctness *)

\* TypeOK holds initially.
LEMMA InitType == Init => TypeOK
<1> SUFFICES ASSUME Init PROVE TypeOK
  OBVIOUS
<1>1. {None, NewDoc, Onboarded, Prestador} \subseteq Maybe(Doc)
  <2>1. NewDoc \in Doc
    BY DEF Doc, NewDoc
  <2>2. Onboarded \in Doc
    BY DEF Doc, NewDoc, Onboarded
  <2>3. Prestador \in Doc
    BY <2>2 DEF Doc, Prestador
  <2> QED
    BY <2>1, <2>2, <2>3 DEF Maybe
<1>2. Idle \in Tap /\ Free \in Main
  BY DEF Idle, Tap, Free, Main, Maybe
<1>3. docs \in [Accounts -> Maybe(Doc)]
  BY <1>1 DEF Init
<1>4. authEvents \in Seq(Maybe(Accounts)) /\ fbUser \in Maybe(Accounts)
  BY DEF Init
<1>5. taps \in [Taps -> Tap] /\ mains \in [MainIds -> Main]
  BY <1>2 DEF Init
<1> QED
  <2>1. writes \in [Maybe(Accounts) -> Seq(Write)]
    BY DEF Init
  <2>2. googleUser \in Maybe(Accounts) /\ user \in Maybe(AppUser)
    BY DEF Init, Maybe
  <2>3. signingOut \in BOOLEAN
    BY Zenon DEF Init
  <2>5. page \in 0..5
    BY DEF Init
  <2>4. stack \in Seq(Screen)
    BY DEF Init
  <2> QED
    BY <2>4, <2>5, <1>3, <1>4, <1>5, <2>1, <2>2, <2>3 DEF TypeOK

\* Killing and starting the process.
LEMMA RestartType == TypeOK /\ Restart => TypeOK'
<1> SUFFICES ASSUME TypeOK, Restart PROVE TypeOK'
  OBVIOUS
<1>1. writes' \in [Maybe(Accounts) -> Seq(Write)]
  <2>1. SUFFICES ASSUME NEW a \in Maybe(Accounts)
                 PROVE  [i \in DOMAIN writes[a] |-> [writes[a][i] EXCEPT !.live = FALSE]]
                          \in Seq(Write)
    BY DEF Restart
  <2>2. writes[a] \in Seq(Write)
    BY DEF TypeOK
  <2>3. DOMAIN writes[a] = 1..Len(writes[a]) /\ Len(writes[a]) \in Nat
    BY <2>2
  <2>4. ASSUME NEW i \in DOMAIN writes[a]
        PROVE  [writes[a][i] EXCEPT !.live = FALSE] \in Write
    <3>1. writes[a][i] \in Write
      BY <2>2
    <3> QED
      BY <3>1 DEF Write
  <2> QED
    BY <2>3, <2>4
<1>2. Idle \in Tap /\ Free \in Main
  BY DEF Idle, Tap, Free, Main, Maybe
<1>3. taps' \in [Taps -> Tap] /\ mains' \in [MainIds -> Main]
  BY <1>2 DEF Restart
<1>4. authEvents' \in Seq(Maybe(Accounts))
  BY DEF Restart, TypeOK
<1> QED
  <2>1. docs' \in [Accounts -> Maybe(Doc)] /\ fbUser' \in Maybe(Accounts)
    BY DEF Restart, TypeOK
  <2>2. googleUser' \in Maybe(Accounts) /\ user' \in Maybe(AppUser)
    BY DEF Restart, Maybe
  <2>3. signingOut' \in BOOLEAN
    BY Zenon DEF Restart
  <2>5. page' \in 0..5
    BY DEF Restart
  <2>4. stack' \in Seq(Screen)
    BY DEF Restart
  <2> QED
    BY <2>4, <2>5, <1>1, <1>3, <1>4, <2>1, <2>2, <2>3 DEF TypeOK

\* Firebase changes the current user.
LEMMA SetFbUserType ==
    ASSUME TypeOK, NEW a \in Maybe(Accounts), SetFbUser(a)
    PROVE  fbUser' \in Maybe(Accounts) /\ authEvents' \in Seq(Maybe(Accounts))
BY DEF TypeOK, SetFbUser

\* Every step of signInWithGoogle.
LEMMA SignInType ==
    ASSUME TypeOK, NEW t \in Taps, SignIn(t)
    PROVE  TypeOK'
<1> USE DEF TypeOK
<1>1. CASE SignInTap(t)
  <2>1. [taps[t] EXCEPT !.pc = "chooser"] \in Tap
    BY DEF Tap
  <2> QED
    BY <1>1, <2>1 DEF SignInTap
<1>2. CASE ChooseAccount(t)
  <2>1. PICK a \in Accounts :
          /\ googleUser' = a
          /\ taps' = [taps EXCEPT ![t].pc = "credential", ![t].acct = a]
    BY <1>2 DEF ChooseAccount
  <2>2. [taps[t] EXCEPT !.pc = "credential", !.acct = a] \in Tap
    BY NoneAssumption DEF Tap, Maybe
  <2>3. taps' \in [Taps -> Tap]
    BY <2>1, <2>2
  <2> QED
    BY <1>2, <2>1, <2>3 DEF ChooseAccount, Maybe
<1>3. CASE CancelChooser(t)
  <2>1. taps' \in [Taps -> Tap]
    BY <1>3, ReturnedType DEF CancelChooser, Maybe
  <2> QED
    BY <1>3, <2>1 DEF CancelChooser
<1>4. CASE Authenticated(t)
  <2>1. taps[t].acct \in Maybe(Accounts)
    BY DEF Tap
  <2>2. [taps[t] EXCEPT !.pc = "get"] \in Tap
    BY <1>4 DEF Authenticated, Tap
  <2>3. taps' \in [Taps -> Tap]
    BY <1>4, <2>2 DEF Authenticated
  <2>4. fbUser' \in Maybe(Accounts) /\ authEvents' \in Seq(Maybe(Accounts))
    BY <1>4, <2>1, SetFbUserType DEF Authenticated
  <2> QED
    BY <1>4, <2>3, <2>4 DEF Authenticated
<1>5. CASE SignInFails(t)
  <2>1. taps' \in [Taps -> Tap]
    BY <1>5, ReturnedType DEF SignInFails, Maybe
  <2> QED
    BY <1>5, <2>1 DEF SignInFails
<1>6. CASE UserDocRead(t)
  <2>1. taps[t].acct \in Accounts
    BY <1>6 DEF UserDocRead, Tap, Maybe
  <2>2. View(taps[t].acct) \in Maybe(Doc)
    BY <2>1, ViewType
  <2>3. [taps[t] EXCEPT !.pc = "got", !.found = View(taps[t].acct)] \in Tap
    BY <1>6, <2>2 DEF UserDocRead, Tap
  <2>4. taps' \in [Taps -> Tap]
    BY <1>6, <2>3 DEF UserDocRead
  <2> QED
    BY <1>6, <2>4 DEF UserDocRead
<1>7. CASE SignedInRegistered(t)
  <2>1. taps[t].acct \in Accounts
    BY <1>7 DEF SignedInRegistered, Tap, Maybe
  <2>2. CASE fbUser # None
    <3>1. user' = fromJson(taps[t].acct) /\ ShowMain(<<>>, user')
          /\ Returned(t, taps[t].acct)
      BY <1>7, <2>2 DEF SignedInRegistered
    <3>2. user' \in Maybe(AppUser)
      BY <3>1, <2>1, <2>2 DEF fromJson, AppUser, Maybe
    <3>3. taps' \in [Taps -> Tap]
      BY <3>1, <2>1, ReturnedType DEF Maybe
    <3>4. stack' \in Seq(Screen) /\ mains' \in [MainIds -> Main]
      <4>1. <<>> \in Seq(Screen)
        OBVIOUS
      <4> QED
        BY <3>1, <3>2, <4>1, ShowMainType
    <3> QED
      BY <1>7, <3>2, <3>3, <3>4 DEF SignedInRegistered
  <2>3. CASE fbUser = None
    <3>1. taps' \in [Taps -> Tap]
      BY <1>7, <2>3, ReturnedType DEF SignedInRegistered, Maybe
    <3> QED
      BY <1>7, <2>3, <3>1 DEF SignedInRegistered
  <2> QED
    BY <2>2, <2>3
<1>8. CASE SignedInUnregistered(t)
  <2>1. taps[t].acct \in Maybe(Accounts)
    BY DEF Tap
  <2>2. taps' \in [Taps -> Tap]
    BY <1>8, <2>1, ReturnedType DEF SignedInUnregistered
  <2>3. <<Route("register")>> \in Seq(Screen)
    BY RouteType DEF Names
  <2>4. stack' \in Seq(Screen) /\ mains' \in [MainIds -> Main]
    BY <1>8, <2>3, ShowType DEF SignedInUnregistered, OffAllNamed
  <2> QED
    BY <1>8, <2>2, <2>4 DEF SignedInUnregistered
<1>9. CASE WelcomeGone(t)
  <2>1. Idle \in Tap
    BY DEF Idle, Tap, Maybe
  <2> QED
    BY <1>9, <2>1 DEF WelcomeGone
<1> QED
  BY <1>1, <1>2, <1>3, <1>4, <1>5, <1>6, <1>7, <1>8, <1>9 DEF SignIn

\* The server's answer to the oldest queued write.
LEMMA AcknowledgeType == TypeOK /\ Acknowledge => TypeOK'
<1> SUFFICES ASSUME TypeOK, Acknowledge PROVE TypeOK'
  OBVIOUS
<1> DEFINE w == Head(writes[fbUser])
<1>1. writes[fbUser] \in Seq(Write) /\ writes[fbUser] # <<>>
  BY DEF Acknowledge, TypeOK
<1>2. w \in Write /\ Tail(writes[fbUser]) \in Seq(Write)
  BY <1>1
<1>3. writes' = [writes EXCEPT ![fbUser] = Tail(@)]
      /\ docs' = [docs EXCEPT ![w.uid] = Stored(@, w.op)]
  BY DEF Acknowledge
<1>4. writes' \in [Maybe(Accounts) -> Seq(Write)]
  BY <1>2, <1>3 DEF TypeOK
<1>5. w.uid \in Accounts /\ w.op \in {"set", "onboard", "prestador"}
  BY <1>2 DEF Write
<1>6. Stored(docs[w.uid], w.op) \in Maybe(Doc)
  BY <1>5, StoredType DEF TypeOK
<1>7. docs' \in [Accounts -> Maybe(Doc)]
  BY <1>3, <1>5, <1>6 DEF TypeOK
<1>8. stack' \in Seq(Screen) /\ mains' \in [MainIds -> Main]
  <2>1. ShowMain(Below, user) \/ UNCHANGED screenVars
    BY DEF Acknowledge, OffNamedMain
  <2>2. CASE ShowMain(Below, user)
    BY <2>2, BelowType, ShowMainType DEF TypeOK
  <2>3. CASE UNCHANGED screenVars
    BY <2>3 DEF screenVars, TypeOK
  <2> QED
    BY <2>1, <2>2, <2>3
<1>9. UNCHANGED <<authVars, taps, signingOut, page>>
  BY DEF Acknowledge
<1> QED
  BY <1>4, <1>7, <1>8, <1>9 DEF TypeOK, authVars

\* Every step of MainScreen.fetchData.
LEMMA MainScreenType ==
    ASSUME TypeOK, NEW id \in MainIds, MainScreen(id)
    PROVE  TypeOK'
<1>1. /\ mains' \in [MainIds -> Main]
      /\ stack' \in Seq(Screen)
  <2>1. CASE Fetched(id)
    <3> DEFINE d == View(mains[id].uid)
               m == [mains[id] EXCEPT !.data = d]
               e == IF d = None THEN [m EXCEPT !.pc = "toRegister"]
                    ELSE IF ~d.onboarding THEN [m EXCEPT !.pc = "toOnboarding"]
                    ELSE IF Mounted(id, stack) THEN [m EXCEPT !.pc = "ready"]
                    ELSE Free
    <3>1. mains[id] \in Main /\ mains[id].pc = "sent"
      BY <2>1 DEF TypeOK, Fetched
    <3>2. mains[id].uid \in Accounts /\ mains[id].uid # None
      BY <3>1 DEF Main, Maybe
    <3>3. d \in Maybe(Doc)
      BY <3>2, ViewType
    <3>4. mains' = [mains EXCEPT ![id] = e] /\ stack' = stack
      BY <2>1 DEF Fetched
    <3>5. e \in Main
      <4> HIDE DEF d
      <4> QED
        BY <3>1, <3>2, <3>3 DEF Main, Free, Maybe
    <3> HIDE DEF e
    <3> QED
      BY <3>4, <3>5 DEF TypeOK
  <2>2. CASE FetchFails(id)
    <3>1. [mains[id] EXCEPT !.pc = "stuck"] \in Main
      BY DEF TypeOK, Main
    <3>2. [mains EXCEPT ![id].pc = "stuck"] \in [MainIds -> Main]
      BY <3>1 DEF TypeOK
    <3> QED
      BY <2>2, <3>2, DisposedType DEF TypeOK, FetchFails
  <2>3. CASE Redirect(id)
    <3> DEFINE target == IF mains[id].pc = "toRegister" THEN "register" ELSE "onboarding"
               stk == IF Top.name = target THEN stack ELSE Append(Below, Route(target))
    <3>1. Route(target) \in Screen
      BY RouteType DEF Names
    <3>2. stk \in Seq(Screen)
      BY <3>1, BelowType DEF TypeOK
    <3>3. [mains[id] EXCEPT !.pc = "stuck"] \in Main
      BY DEF TypeOK, Main
    <3>4. [mains EXCEPT ![id].pc = "stuck"] \in [MainIds -> Main]
      BY <3>3 DEF TypeOK
    <3>5. stack' = stk /\ mains' = Disposed([mains EXCEPT ![id].pc = "stuck"], stk)
      BY <2>3 DEF Redirect
    <3> HIDE DEF stk
    <3> QED
      BY <3>2, <3>4, <3>5, DisposedType
  <2> QED
    BY <2>1, <2>2, <2>3 DEF MainScreen
<1>2. UNCHANGED <<serverVars, authVars, taps, signingOut, page>>
  BY DEF MainScreen, Fetched, FetchFails, Redirect
<1> QED
  BY <1>1, <1>2 DEF TypeOK, serverVars, authVars

\* Every step keeps TypeOK.
LEMMA NextType == TypeOK /\ [Next]_vars => TypeOK'
<1> SUFFICES ASSUME TypeOK, [Next]_vars PROVE TypeOK'
  OBVIOUS
<1>1. CASE Launch
  <2>1. stack' \in Seq(Screen) /\ mains' \in [MainIds -> Main]
    <3>1. CASE ShowMain(<<>>, user)
      <4>1. <<>> \in Seq(Screen)
        OBVIOUS
      <4> QED
        BY <3>1, <4>1, ShowMainType DEF TypeOK
    <3>2. CASE Show(<<Route("login")>>)
      <4>1. <<Route("login")>> \in Seq(Screen)
        BY RouteType DEF Names
      <4> QED
        BY <3>2, <4>1, ShowType
    <3> QED
      BY <1>1, <3>1, <3>2 DEF Launch
  <2> QED
    BY <1>1, <2>1 DEF Launch, TypeOK
<1>2. CASE Restart
  BY <1>2, RestartType
<1>3. CASE DeliverAuthEvent
  <2>1. Head(authEvents) \in Maybe(Accounts) /\ Tail(authEvents) \in Seq(Maybe(Accounts))
    BY <1>3 DEF DeliverAuthEvent, TypeOK
  <2>2. fromFirebase(Head(authEvents)) \in Maybe(AppUser)
    BY <2>1 DEF fromFirebase, AppUser, Maybe
  <2> QED
    BY <1>3, <2>1, <2>2 DEF DeliverAuthEvent, TypeOK
<1>4. ASSUME NEW t \in Taps, SignIn(t) PROVE TypeOK'
  BY <1>4, SignInType
<1>5. CASE Register \/ onOnboardingComplete
  <2>1. user.uid \in Accounts
    BY <1>5 DEF Register, onOnboardingComplete, TypeOK, AppUser, Maybe
  <2>2. writes' \in [Maybe(Accounts) -> Seq(Write)]
    BY <1>5, <2>1, EnqueueType DEF Register, onOnboardingComplete
  <2> QED
    BY <1>5, <2>2 DEF Register, onOnboardingComplete, TypeOK, authVars
<1>6. CASE Acknowledge
  BY <1>6, AcknowledgeType
<1>7. ASSUME NEW id \in MainIds, MainScreen(id) PROVE TypeOK'
  BY <1>7, MainScreenType
<1>8. ASSUME NEW index \in 0..5, setPage(index) PROVE TypeOK'
  BY <1>8 DEF setPage, TypeOK, serverVars, authVars
<1>9. CASE OpenCategory
  <2>1. Route("selection") \in Screen
    BY RouteType DEF Names
  <2> QED
    BY <1>9, <2>1 DEF OpenCategory, TypeOK, serverVars, authVars
<1>10. CASE LeaveCategory
  <2>1. stack' \in Seq(Screen) /\ mains' \in [MainIds -> Main]
    BY <1>10, BelowType, ShowType DEF LeaveCategory
  <2> QED
    BY <1>10, <2>1 DEF LeaveCategory, TypeOK, serverVars, authVars
<1>11. CASE convertToPrestador
  <2>1. fbUser \in Accounts
    BY <1>11 DEF convertToPrestador, TypeOK, Maybe
  <2>2. writes' \in [Maybe(Accounts) -> Seq(Write)]
    BY <1>11, <2>1, EnqueueType DEF convertToPrestador
  <2> QED
    BY <1>11, <2>2 DEF convertToPrestador, TypeOK, authVars
<1>12. CASE SignOutTap \/ SignedOut
  <2>1. <<Route("login")>> \in Seq(Screen)
    BY RouteType DEF Names
  <2>2. stack' \in Seq(Screen) /\ mains' \in [MainIds -> Main]
    BY <1>12, <2>1, ShowType DEF SignOutTap, SignedOut, OffAllNamed
  <2>3. CASE SignOutTap
    <3>1. signingOut' \in BOOLEAN
      BY <2>3, Zenon DEF SignOutTap
    <3> QED
      BY <2>2, <2>3, <3>1 DEF SignOutTap, TypeOK, serverVars, authVars
  <2>4. CASE SignedOut
    <3>1. signingOut' \in BOOLEAN
      BY <2>4, Zenon DEF SignedOut
    <3>2. fbUser' \in Maybe(Accounts) /\ authEvents' \in Seq(Maybe(Accounts))
      BY <2>4, SetFbUserType DEF SignedOut, Maybe
    <3> QED
      BY <2>2, <2>4, <3>1, <3>2 DEF SignedOut, TypeOK
  <2> QED
    BY <1>12, <2>3, <2>4
<1>13. CASE SignOutFails
  <2>1. signingOut' \in BOOLEAN
    BY <1>13, Zenon DEF SignOutFails
  <2> QED
    BY <1>13, <2>1 DEF SignOutFails, TypeOK, serverVars, authVars
<1>14. CASE deleteAllUsersWithCampo
  <2>1. docs' \in [Accounts -> Maybe(Doc)]
    BY <1>14 DEF deleteAllUsersWithCampo, TypeOK, Maybe
  <2> QED
    BY <1>14, <2>1 DEF deleteAllUsersWithCampo, TypeOK, authVars
<1>15. CASE UNCHANGED vars
  BY <1>15 DEF vars, TypeOK
<1> QED
  BY <1>1, <1>2, <1>3, <1>4, <1>5, <1>6, <1>7, <1>8, <1>9, <1>10, <1>11,
     <1>12, <1>13, <1>14, <1>15 DEF Next

\* Every reachable state is well formed: a run of signInWithGoogle that is past
\* the account chooser has an account, and a MainScreen that shows its tabs has
\* the account and the document they are built from.
THEOREM TypeCorrect == Spec => []TypeOK
BY InitType, NextType, PTL DEF Spec

----------------------------------------------------------------------------
(* AuthController.user and FirebaseAuth.currentUser *)

\* What changes the session or AuthController's mirror of it.
LEMMA SessionSteps ==
    ASSUME [Next]_vars
    PROVE  \/ Restart
           \/ DeliverAuthEvent
           \/ \E t \in Taps : Authenticated(t) \/ SignedInRegistered(t)
           \/ SignedOut
           \/ UNCHANGED <<fbUser, authEvents, user>>
<1>1. CASE \E t \in Taps : SignIn(t)
  BY <1>1 DEF SignIn, SignInTap, ChooseAccount, CancelChooser, SignInFails,
     UserDocRead, SignedInUnregistered, WelcomeGone
<1>2. CASE \E id \in MainIds : MainScreen(id)
  BY <1>2 DEF MainScreen, Fetched, FetchFails, Redirect, authVars
<1>3. CASE Register \/ onOnboardingComplete \/ Acknowledge \/ convertToPrestador
  BY <1>3 DEF Register, onOnboardingComplete, Acknowledge, convertToPrestador,
     authVars
<1>4. CASE \/ Launch \/ OpenCategory \/ LeaveCategory \/ SignOutTap \/ SignOutFails
           \/ deleteAllUsersWithCampo \/ \E index \in 0..5 : setPage(index)
  BY <1>4 DEF Launch, OpenCategory, LeaveCategory, SignOutTap, SignOutFails,
     deleteAllUsersWithCampo, setPage, authVars
<1>5. CASE UNCHANGED vars
  BY <1>5 DEF vars
<1> QED
  BY <1>1, <1>2, <1>3, <1>4, <1>5 DEF Next

\* A change of the current user is announced by an event.
LEMMA SetFbUserSynced ==
    ASSUME TypeOK, AuthSynced, NEW a \in Maybe(Accounts), SetFbUser(a), user' = user
    PROVE  AuthSynced'
<1>1. CASE fbUser = a
  BY <1>1 DEF SetFbUser, AuthSynced, Uid
<1>2. CASE fbUser # a
  <2>1. authEvents \in Seq(Maybe(Accounts))
    BY DEF TypeOK
  <2>2. authEvents' = Append(authEvents, a) /\ fbUser' = a
    BY <1>2 DEF SetFbUser
  <2>3. authEvents' # <<>> /\ authEvents'[Len(authEvents')] = a
    BY <2>1, <2>2
  <2> QED
    BY <2>2, <2>3 DEF AuthSynced
<1> QED
  BY <1>1, <1>2

\* Every step keeps AuthSynced.
LEMMA NextAuthSynced == TypeOK /\ AuthSynced /\ [Next]_vars => AuthSynced'
<1> SUFFICES ASSUME TypeOK, AuthSynced, [Next]_vars PROVE AuthSynced'
  OBVIOUS
<1>1. CASE Restart
  BY <1>1 DEF Restart, AuthSynced
<1>2. CASE DeliverAuthEvent
  <2> DEFINE h == Head(authEvents)
  <2>1. authEvents \in Seq(Maybe(Accounts)) /\ authEvents # <<>>
    BY <1>2 DEF DeliverAuthEvent, TypeOK
  <2>2. authEvents' = Tail(authEvents) /\ fbUser' = fbUser /\ user' = fromFirebase(h)
    BY <1>2 DEF DeliverAuthEvent
  <2>3. authEvents[Len(authEvents)] = fbUser
    BY <2>1 DEF AuthSynced
  <2>4. CASE authEvents' = <<>>
    <3>1. h = fbUser
      <4>1. Len(authEvents) = 1
        <5>1. Len(Tail(authEvents)) = Len(authEvents) - 1 /\ Len(authEvents) \in Nat
          BY <2>1
        <5>2. Len(Tail(authEvents)) = 0
          <6>1. Tail(authEvents) = <<>>
            BY <2>2, <2>4, Zenon
          <6>2. Len(<<>>) = 0
            OBVIOUS
          <6> QED
            BY <6>1, <6>2, Zenon
        <5> QED
          BY <5>1, <5>2
      <4> QED
        BY <2>1, <2>3, <4>1
    <3>2. h \in Maybe(Accounts)
      BY <2>1
    <3>3. Uid(fromFirebase(h)) = h
      <4>1. CASE h = None
        BY <4>1 DEF fromFirebase, Uid
      <4>2. CASE h \in Accounts
        <5>1. h # None
          BY <4>2, NoneAssumption
        <5>2. [uid |-> h, owner |-> None] \in AppUser
          BY <4>2 DEF AppUser, Maybe
        <5> QED
          BY <5>1, <5>2, NoneAssumption DEF fromFirebase, Uid
      <4> QED
        BY <3>2, <4>1, <4>2 DEF Maybe
    <3>4. Uid(user') = fbUser'
      BY <2>2, <3>1, <3>3
    <3> QED
      BY <2>4, <3>4 DEF AuthSynced, Uid
  <2>5. CASE authEvents' # <<>>
    <3>1. authEvents'[Len(authEvents')] = authEvents[Len(authEvents)]
      BY <2>1, <2>2, <2>5
    <3> QED
      BY <2>2, <2>3, <2>5, <3>1 DEF AuthSynced
  <2> QED
    BY <2>4, <2>5
<1>3. ASSUME NEW t \in Taps, Authenticated(t) PROVE AuthSynced'
  <2>1. taps[t].acct \in Maybe(Accounts)
    BY DEF TypeOK, Tap
  <2> QED
    BY <1>3, <2>1, SetFbUserSynced DEF Authenticated
<1>4. ASSUME NEW t \in Taps, SignedInRegistered(t) PROVE AuthSynced'
  <2>1. CASE fbUser = None
    BY <1>4, <2>1 DEF SignedInRegistered, AuthSynced, Uid
  <2>2. CASE fbUser # None
    <3>1. user' = [uid |-> fbUser, owner |-> taps[t].acct]
      BY <1>4, <2>2 DEF SignedInRegistered, fromJson
    <3>2. user' \in AppUser
      BY <3>1, <2>2 DEF AppUser, TypeOK, Tap, Maybe
    <3>3. Uid(user') = fbUser
      BY <3>1, <3>2, NoneAssumption DEF Uid
    <3> QED
      BY <1>4, <3>3 DEF SignedInRegistered, AuthSynced, Uid
  <2> QED
    BY <2>1, <2>2
<1>5. CASE SignedOut
  BY <1>5, SetFbUserSynced DEF SignedOut, Maybe
<1>6. CASE UNCHANGED <<fbUser, authEvents, user>>
  BY <1>6 DEF AuthSynced, Uid
<1> QED
  BY <1>1, <1>2, <1>3, <1>4, <1>5, <1>6, SessionSteps

\* AuthController.user mirrors FirebaseAuth.currentUser: whatever sign-ins and
\* sign-outs overlap, it is the current account once the auth events are
\* delivered, and the last event under way is the current account.
THEOREM AuthIsSynced == Spec => []AuthSynced
<1>1. Init => AuthSynced
  BY DEF Init, AuthSynced
<1> QED
  BY <1>1, InitType, NextType, NextAuthSynced, PTL DEF Spec

----------------------------------------------------------------------------
(* Whose profile AuthController holds *)

\* Every step keeps SignInIdentity.
LEMMA NextSignInIdentity == TypeOK /\ SignInIdentity /\ [Next]_vars => SignInIdentity'
<1> SUFFICES ASSUME TypeOK, SignInIdentity, [Next]_vars PROVE SignInIdentity'
  OBVIOUS
<1>1. CASE Restart
  BY <1>1 DEF Restart, SignInIdentity, Idle
<1>2. CASE SignedOut
  BY <1>2 DEF SignedOut, SetFbUser, SignInIdentity
<1>3. ASSUME NEW t \in Taps, SignIn(t) PROVE SignInIdentity'
  <2>1. CASE ChooseAccount(t)
    <3>1. PICK a \in Accounts :
            /\ googleUser \in {None, a}
            /\ googleUser' = a
            /\ taps' = [taps EXCEPT ![t].pc = "credential", ![t].acct = a]
      BY <2>1 DEF ChooseAccount
    <3>2. a # None
      BY NoneAssumption
    <3>3. fbUser' = fbUser
      BY <2>1 DEF ChooseAccount
    <3> QED
      BY <3>1, <3>2, <3>3 DEF SignInIdentity, TypeOK
  <2>2. CASE Authenticated(t)
    <3>1. taps' = [taps EXCEPT ![t].pc = "get"] /\ fbUser' = taps[t].acct
          /\ googleUser' = googleUser /\ taps[t].pc = "credential"
      BY <2>2 DEF Authenticated, SetFbUser
    <3> QED
      BY <3>1 DEF SignInIdentity, TypeOK
  <2>3. CASE \/ SignInTap(t) \/ UserDocRead(t) \/ WelcomeGone(t)
    <3>1. UNCHANGED <<fbUser, googleUser>>
      BY <2>3 DEF SignInTap, UserDocRead, WelcomeGone
    <3>2. \A s \in Taps : s # t => taps'[s] = taps[s]
      BY <2>3 DEF SignInTap, UserDocRead, WelcomeGone, TypeOK
    <3>3. \/ taps'[t].pc \notin {"credential", "get", "got"}
          \/ taps[t].pc = "get" /\ taps'[t].acct = taps[t].acct
      <4>1. CASE SignInTap(t)
        BY <4>1 DEF SignInTap, TypeOK, Tap
      <4>2. CASE UserDocRead(t)
        BY <4>2 DEF UserDocRead, TypeOK, Tap
      <4>3. CASE WelcomeGone(t)
        BY <4>3 DEF WelcomeGone, TypeOK, Idle
      <4> QED
        BY <2>3, <4>1, <4>2, <4>3
    <3> QED
      BY <3>1, <3>2, <3>3 DEF SignInIdentity
  <2>4. CASE \/ CancelChooser(t) \/ SignInFails(t) \/ SignedInRegistered(t)
             \/ SignedInUnregistered(t)
    <3>1. UNCHANGED <<fbUser, googleUser>>
      BY <2>4 DEF CancelChooser, SignInFails, SignedInRegistered,
         SignedInUnregistered
    <3>2. PICK r : Returned(t, r)
      BY <2>4 DEF CancelChooser, SignInFails, SignedInRegistered,
         SignedInUnregistered
    <3>3. PICK shown \in BOOLEAN :
            taps' = [taps EXCEPT ![t] =
                       IF shown THEN [Idle EXCEPT !.pc = "welcome", !.acct = r]
                                ELSE Idle]
      BY <3>2 DEF Returned
    <3>4. \A s \in Taps : s # t => taps'[s] = taps[s]
      BY <3>3 DEF TypeOK
    <3>5. taps'[t].pc \notin {"credential", "get", "got"}
      BY <3>3 DEF TypeOK, Idle
    <3> QED
      BY <3>1, <3>4, <3>5 DEF SignInIdentity
  <2> QED
    BY <1>3, <2>1, <2>2, <2>3, <2>4 DEF SignIn
<1>4. CASE UNCHANGED <<fbUser, googleUser, taps>>
  BY <1>4 DEF SignInIdentity
<1>5. \/ Restart \/ SignedOut \/ \E t \in Taps : SignIn(t)
      \/ UNCHANGED <<fbUser, googleUser, taps>>
  BY DEF Next, vars, Launch, DeliverAuthEvent, Register, onOnboardingComplete,
     Acknowledge, MainScreen, Fetched, FetchFails, Redirect, setPage, OpenCategory,
     LeaveCategory, convertToPrestador, SignOutTap, SignOutFails,
     deleteAllUsersWithCampo, authVars
<1> QED
  BY <1>1, <1>2, <1>3, <1>4, <1>5

\* Every step keeps ProfileIdentity.
LEMMA NextProfileIdentity ==
    TypeOK /\ SignInIdentity /\ ProfileIdentity /\ [Next]_vars => ProfileIdentity'
<1> SUFFICES ASSUME TypeOK, SignInIdentity, ProfileIdentity, [Next]_vars
             PROVE  ProfileIdentity'
  OBVIOUS
<1>1. CASE Restart
  BY <1>1 DEF Restart, ProfileIdentity
<1>2. CASE DeliverAuthEvent
  BY <1>2 DEF DeliverAuthEvent, fromFirebase, ProfileIdentity
<1>3. ASSUME NEW t \in Taps, SignedInRegistered(t) PROVE ProfileIdentity'
  <2>1. CASE fbUser = None
    BY <1>3, <2>1 DEF SignedInRegistered, ProfileIdentity
  <2>2. CASE fbUser # None
    <3>1. fbUser = taps[t].acct
      BY <1>3, <2>2 DEF SignedInRegistered, SignInIdentity
    <3> QED
      BY <1>3, <2>2, <3>1 DEF SignedInRegistered, fromJson, ProfileIdentity
  <2> QED
    BY <2>1, <2>2
<1>4. CASE user' = user
  BY <1>4 DEF ProfileIdentity
<1>5. ASSUME NEW t \in Taps, Authenticated(t) PROVE user' = user
  BY <1>5 DEF Authenticated
<1>6. SignedOut => user' = user
  BY DEF SignedOut
<1> QED
  BY <1>1, <1>2, <1>3, <1>4, <1>5, <1>6, SessionSteps

\* The profile AuthController holds is the one of the uid it carries, although
\* fromJson takes the document from before the await and the uid from after it,
\* and any number of sign-ins may overlap.
THEOREM ProfileIsOwn == Spec => []ProfileIdentity
<1>1. Init => SignInIdentity
  BY DEF Init, SignInIdentity, Idle
<1>2. Init => ProfileIdentity
  BY DEF Init, ProfileIdentity
<1> QED
  BY <1>1, <1>2, InitType, NextType, NextSignInIdentity, NextProfileIdentity,
     PTL DEF Spec

----------------------------------------------------------------------------
(* Whose documents this device writes *)

\* A write to the signed-in account's own document.
LEMMA EnqueueOwn ==
    ASSUME TypeOK, OwnWrites, NEW op, Enqueue(op, fbUser)
    PROVE  OwnWrites'
<1> DEFINE w == [op |-> op, uid |-> fbUser, live |-> TRUE]
<1>1. writes' = [writes EXCEPT ![fbUser] = Append(@, w)]
  BY DEF Enqueue
<1>2. SUFFICES ASSUME NEW a \in Maybe(Accounts), NEW i \in DOMAIN writes'[a]
               PROVE  writes'[a][i].uid = a
  BY DEF OwnWrites
<1>3. CASE a # fbUser
  BY <1>1, <1>2, <1>3 DEF TypeOK, OwnWrites
<1>4. CASE a = fbUser
  <2>1. writes[a] \in Seq(Write) /\ writes'[a] = Append(writes[a], w)
    BY <1>1, <1>4 DEF TypeOK
  <2>2. CASE i \in DOMAIN writes[a]
    <3>1. writes'[a][i] = writes[a][i]
      BY <2>1, <2>2
    <3> QED
      BY <2>2, <3>1 DEF OwnWrites
  <2>3. CASE i \notin DOMAIN writes[a]
    <3>1. i = Len(writes[a]) + 1
      BY <1>2, <2>1, <2>3
    <3>2. writes'[a][i] = w
      BY <2>1, <3>1
    <3> QED
      BY <1>4, <3>2
  <2> QED
    BY <2>2, <2>3
<1> QED
  BY <1>3, <1>4

\* Every step keeps OwnWrites when events are handled before gestures.
LEMMA NextOwnWrites ==
    Prompt /\ TypeOK /\ AuthSynced /\ OwnWrites /\ [Next]_vars => OwnWrites'
<1> SUFFICES ASSUME Prompt, TypeOK, AuthSynced, OwnWrites, [Next]_vars
             PROVE  OwnWrites'
  OBVIOUS
<1>1. CASE Register \/ onOnboardingComplete
  <2>1. authEvents = <<>> /\ user # None
    BY <1>1 DEF Register, onOnboardingComplete, Gesture, Quiet
  <2>2. user.uid = fbUser
    BY <2>1 DEF AuthSynced, Uid
  <2>3. PICK op : Enqueue(op, fbUser)
    BY <1>1, <2>2 DEF Register, onOnboardingComplete
  <2> QED
    BY <2>3, EnqueueOwn
<1>2. CASE convertToPrestador
  BY <1>2, EnqueueOwn DEF convertToPrestador
<1>3. CASE Acknowledge
  <2>1. writes' = [writes EXCEPT ![fbUser] = Tail(@)] /\ writes[fbUser] # <<>>
    BY <1>3 DEF Acknowledge
  <2>2. SUFFICES ASSUME NEW a \in Maybe(Accounts), NEW i \in DOMAIN writes'[a]
                 PROVE  writes'[a][i].uid = a
    BY DEF OwnWrites
  <2>3. CASE a # fbUser
    BY <2>1, <2>2, <2>3 DEF TypeOK, OwnWrites
  <2>4. CASE a = fbUser
    <3>1. writes[a] \in Seq(Write) /\ writes[a] # <<>> /\ writes'[a] = Tail(writes[a])
      BY <2>1, <2>4 DEF TypeOK
    <3>2. i + 1 \in DOMAIN writes[a] /\ writes'[a][i] = writes[a][i + 1]
      BY <2>2, <3>1
    <3> QED
      BY <3>2 DEF OwnWrites
  <2> QED
    BY <2>3, <2>4
<1>4. CASE Restart
  <2>1. SUFFICES ASSUME NEW a \in Maybe(Accounts), NEW i \in DOMAIN writes'[a]
                 PROVE  writes'[a][i].uid = a
    BY DEF OwnWrites
  <2>2. writes'[a] = [j \in DOMAIN writes[a] |-> [writes[a][j] EXCEPT !.live = FALSE]]
    BY <1>4 DEF Restart
  <2>3. i \in DOMAIN writes[a] /\ writes'[a][i] = [writes[a][i] EXCEPT !.live = FALSE]
    BY <2>1, <2>2
  <2>4. writes[a][i] \in Write
    BY <2>3 DEF TypeOK
  <2> QED
    BY <2>3, <2>4 DEF OwnWrites, Write
<1>5. CASE writes' = writes
  BY <1>5 DEF OwnWrites
<1>6. \/ Register \/ onOnboardingComplete \/ convertToPrestador \/ Acknowledge
      \/ Restart \/ writes' = writes
  BY DEF Next, vars, Launch, DeliverAuthEvent, SignIn, SignInTap, ChooseAccount,
     CancelChooser, Authenticated, SignInFails, UserDocRead, SignedInRegistered,
     SignedInUnregistered, WelcomeGone, MainScreen, Fetched, FetchFails, Redirect,
     setPage, OpenCategory, LeaveCategory, SignOutTap, SignedOut, SignOutFails,
     deleteAllUsersWithCampo, serverVars
<1> QED
  BY <1>1, <1>2, <1>3, <1>4, <1>5, <1>6

\* With the event loop serving posted events in order, a device only writes the
\* document of the account whose credentials it sends: RegisterScreen and
\* OnBoardingScreen take the uid from AuthController's mirror of the session.
THEOREM WritesAreOwn ==
    ASSUME Prompt
    PROVE  Spec => []OwnWrites
<1>1. Init => OwnWrites
  BY DEF Init, OwnWrites
<1>2. TypeOK /\ AuthSynced /\ OwnWrites /\ [Next]_vars => OwnWrites'
  BY NextOwnWrites
<1> QED
  BY <1>1, <1>2, TypeCorrect, AuthIsSynced, PTL DEF Spec

----------------------------------------------------------------------------
(* Whose data a MainScreen shows *)

\* The process has not gone beyond the login screen and owes no callback.
Fresh ==
    /\ stack \in {<<>>, <<Route("login")>>}
    /\ \A id \in MainIds : mains[id].pc = "free"
    /\ \A a \in Maybe(Accounts) : \A i \in DOMAIN writes[a] : ~writes[a][i].live

\* A sign-in cannot put another account in place of one whose screens are up.
Settled == fbUser \in {None, googleUser} \/ Fresh

\* That is so while signInWithGoogle runs, ...
SigningInIsSettled ==
    \A t \in Taps :
        taps[t].pc \in {"chooser", "credential", "get", "got"} => Settled

\* ... because it is so where it can be started, unless a sign-out is on its way.
LoginIsSettled == On("login") /\ ~signingOut => Settled

\* Nothing is ever pushed over LoginScreen, so nothing uncovers it, and leaving
\* CategorySelectionScreen uncovers something.
RoutesFit ==
    \A i \in DOMAIN stack : /\ stack[i].name = "login" => Len(stack) = 1
                            /\ stack[i].name = "selection" => i # 1

\* Before the first build nobody can have signed in or out.
BeforeLaunch ==
    ~Launched =>
        /\ Fresh
        /\ ~signingOut
        /\ authEvents = <<>> \/ (user = None /\ Len(authEvents) = 1)
        /\ \A t \in Taps : taps[t].pc = "idle"

\* LoadedMainIsMine, from the moment fetchData asks for the document.
IsMine(ms, stk, a) ==
    \A id \in MainIds :
        Mounted(id, stk) /\ ms[id].pc \in {"sent", "ready"} => ms[id].uid = a

\* Every MainScreen that asked for a document asked for the user's.
MountedIsMine == IsMine(mains, stack, fbUser)

\* Together with what is proved above: the part about signing in, and the part
\* about the screens.
SettledInv == SigningInIsSettled /\ LoginIsSettled /\ RoutesFit /\ BeforeLaunch

\* Every MainScreen of s is one of r.
Within(s, r) == \A id \in MainIds : Mounted(id, s) => Mounted(id, r)

\* Which routes leave no new MainScreen mounted: the lower ones, another route
\* in place of the top one or over it, and a route alone.
LEMMA WithinRoutes ==
    ASSUME TypeOK, NEW n \in Names, n # "main"
    PROVE  /\ Within(stack, stack)
           /\ Within(Below, stack)
           /\ Within(<<>>, stack)
           /\ Within(<<Route(n)>>, stack)
           /\ Within(Append(Below, Route(n)), stack)
           /\ Within(Append(stack, Route(n)), stack)
<1> DEFINE r == Route(n)
<1>1. r.name # "main" /\ r \in Screen
  BY RouteType DEF Route
<1>2. stack \in Seq(Screen) /\ Below \in Seq(Screen)
  BY BelowType DEF TypeOK
<1>3. \A i \in DOMAIN Below : i \in DOMAIN stack /\ Below[i] = stack[i]
  BY <1>2 DEF Below
<1> HIDE DEF r
<1>4. ASSUME NEW s \in Seq(Screen)
      PROVE  \A id : Mounted(id, Append(s, r)) => Mounted(id, s)
  <2>1. \A i \in DOMAIN Append(s, r) :
            \/ i \in DOMAIN s /\ Append(s, r)[i] = s[i]
            \/ Append(s, r)[i] = r
    BY <1>1
  <2> QED BY <1>1, <2>1 DEF Mounted
<1>5. Within(Below, stack)
  BY <1>3 DEF Within, Mounted
<1>6. Within(<<>>, stack)
  BY DEF Within, Mounted
<1>7. Within(<<r>>, stack)
  <2>1. \A i \in DOMAIN <<r>> : <<r>>[i] = r
    OBVIOUS
  <2> QED BY <1>1, <2>1 DEF Within, Mounted
<1>8. Within(Append(Below, r), stack)
  BY <1>2, <1>4, <1>5 DEF Within
<1>9. Within(Append(stack, r), stack)
  BY <1>2, <1>4 DEF Within
<1> QED BY <1>5, <1>6, <1>7, <1>8, <1>9 DEF Within, r

\* dispose() and fewer routes leave the screens with the same owner.
LEMMA DisposedIsMine ==
    ASSUME NEW ms, NEW s, NEW r, NEW a, IsMine(ms, r, a), Within(s, r)
    PROVE  IsMine(Disposed(ms, s), s, a)
<1> SUFFICES ASSUME NEW id \in MainIds, Mounted(id, s),
                    Disposed(ms, s)[id].pc \in {"sent", "ready"}
             PROVE  Disposed(ms, s)[id].uid = a
  BY DEF IsMine
<1>1. Disposed(ms, s)[id] = Free \/ Disposed(ms, s)[id] = ms[id]
  BY DEF Disposed
<1>2. Free.pc = "free"
  BY DEF Free
<1>3. Disposed(ms, s)[id] = ms[id]
  BY <1>1, <1>2
<1>4. Mounted(id, r)
  BY DEF Within
<1> QED BY <1>3, <1>4 DEF IsMine

\* A MainScreen pushed with the signed-in user asks for that user's document.
LEMMA ShowMainIsMine ==
    ASSUME TypeOK, MountedIsMine, NEW below \in Seq(Screen), Within(below, stack),
           NEW u \in Maybe(AppUser), u # None => u.uid = fbUser,
           ShowMain(below, u)
    PROVE  IsMine(mains', stack', fbUser)
<1>1. PICK id \in MainIds :
        /\ stack' = Append(below, [name |-> "main", id |-> id])
        /\ mains' = Disposed([mains EXCEPT ![id] = FetchStarted(u)], stack')
  BY DEF ShowMain
<1> DEFINE top == [name |-> "main", id |-> id]
           ms == [mains EXCEPT ![id] = FetchStarted(u)]
<1>2. FetchStarted(u).pc \in {"sent", "ready"} => FetchStarted(u).uid = fbUser
  BY DEF FetchStarted, Free
<1>3. ms[id] = FetchStarted(u) /\ \A j \in MainIds : j # id => ms[j] = mains[j]
  BY DEF TypeOK
<1>4. top.id = id
  OBVIOUS
<1> HIDE DEF top, ms
<1>5. ASSUME NEW j \in MainIds, j # id, Mounted(j, stack') PROVE Mounted(j, stack)
  <2>1. PICK i \in DOMAIN stack' : stack'[i].name = "main" /\ stack'[i].id = j
    BY <1>5 DEF Mounted
  <2>2. i \in DOMAIN below /\ stack'[i] = below[i]
    <3>1. \A k \in DOMAIN Append(below, top) :
              \/ k \in DOMAIN below /\ Append(below, top)[k] = below[k]
              \/ Append(below, top)[k] = top
      OBVIOUS
    <3> QED BY <1>1, <1>4, <1>5, <2>1, <3>1 DEF top
  <2>3. Mounted(j, below)
    BY <2>1, <2>2 DEF Mounted
  <2> QED BY <2>3 DEF Within
<1>6. IsMine(ms, stack', fbUser)
  <2> SUFFICES ASSUME NEW j \in MainIds, Mounted(j, stack'),
                      ms[j].pc \in {"sent", "ready"}
               PROVE  ms[j].uid = fbUser
    BY DEF IsMine
  <2>1. CASE j = id
    BY <1>2, <1>3, <2>1
  <2>2. CASE j # id
    BY <1>3, <1>5, <2>2 DEF MountedIsMine, IsMine
  <2> QED BY <2>1, <2>2
<1>7. IsMine(Disposed(ms, stack'), stack', fbUser)
  BY <1>6, DisposedIsMine DEF Within
<1> QED BY <1>1, <1>7 DEF ms

\* AuthController's mirror is right whenever no event is on its way.
LEMMA SyncedUser ==
    ASSUME TypeOK, AuthSynced, authEvents = <<>>
    PROVE  user \in Maybe(AppUser) /\ (user # None => user.uid = fbUser)
BY DEF TypeOK, AuthSynced, Uid

\* Every step that shows a MainScreen, or changes the account of the device.
LEMMA NextMountedIsMine ==
    ASSUME Prompt, TypeOK, AuthSynced, SignInIdentity, SettledInv, MountedIsMine,
           [Next]_vars
    PROVE  MountedIsMine'
<1>1. CASE UNCHANGED <<stack, mains, fbUser>>
  BY <1>1 DEF MountedIsMine, IsMine, Mounted
<1>2. CASE Launch
  <2>1. CASE user # None
    <3>1. ShowMain(<<>>, user) /\ fbUser' = fbUser
      BY <1>2, <2>1 DEF Launch
    <3>2. authEvents = <<>>
      BY <1>2, <2>1 DEF Launch, SettledInv, BeforeLaunch
    <3>3. <<>> \in Seq(Screen) /\ Within(<<>>, stack)
      BY DEF Within, Mounted
    <3>4. IsMine(mains', stack', fbUser)
      BY <3>1, <3>2, <3>3, SyncedUser, ShowMainIsMine
    <3> QED BY <3>1, <3>4 DEF MountedIsMine
  <2>2. CASE user = None
    <3>1. Show(<<Route("login")>>) /\ fbUser' = fbUser
      BY <1>2, <2>2 DEF Launch
    <3>2. Within(<<Route("login")>>, stack)
      BY WithinRoutes DEF Names
    <3> QED BY <3>1, <3>2, DisposedIsMine DEF Show, MountedIsMine
  <2> QED BY <2>1, <2>2
<1>3. CASE Restart
  <2>1. stack' = <<>>
    BY <1>3 DEF Restart
  <2> QED BY <2>1 DEF MountedIsMine, IsMine, Mounted
<1>4. ASSUME NEW t \in Taps, Authenticated(t) PROVE MountedIsMine'
  <2>1. /\ taps[t].pc = "credential" /\ fbUser' = taps[t].acct
        /\ stack' = stack /\ mains' = mains
    BY <1>4 DEF Authenticated, SetFbUser
  <2>2. fbUser' = googleUser
    BY <2>1 DEF SignInIdentity
  <2>3. Settled
    BY <2>1 DEF SettledInv, SigningInIsSettled
  <2>4. CASE fbUser = googleUser
    BY <2>1, <2>2, <2>4 DEF MountedIsMine, IsMine, Mounted
  <2>5. CASE Fresh
    <3>1. \A id \in MainIds : mains[id].pc = "free"
      BY <2>5 DEF Fresh
    <3> QED BY <2>1, <3>1 DEF MountedIsMine, IsMine
  <2>6. CASE fbUser = None
    <3>1. ASSUME NEW id \in MainIds, Mounted(id, stack),
                 mains[id].pc \in {"sent", "ready"}
          PROVE  FALSE
      <4>1. mains[id].uid = None
        BY <2>6, <3>1 DEF MountedIsMine, IsMine
      <4>2. mains[id] \in Main
        BY DEF TypeOK
      <4> QED BY <3>1, <4>1, <4>2 DEF Main
    <3> QED BY <2>1, <3>1 DEF MountedIsMine, IsMine, Mounted
  <2> QED BY <2>3, <2>4, <2>5, <2>6 DEF Settled
<1>5. ASSUME NEW t \in Taps, SignedInRegistered(t) PROVE MountedIsMine'
  <2>1. CASE fbUser = None
    <3>1. UNCHANGED <<stack, mains, fbUser>>
      BY <1>5, <2>1 DEF SignedInRegistered
    <3> QED BY <1>1, <3>1
  <2>2. CASE fbUser # None
    <3> DEFINE u == fromJson(taps[t].acct)
    <3>1. ShowMain(<<>>, u) /\ fbUser' = fbUser
      BY <1>5, <2>2 DEF SignedInRegistered
    <3>2. u \in Maybe(AppUser) /\ u.uid = fbUser
      BY <2>2 DEF fromJson, AppUser, Maybe, TypeOK, Tap
    <3>3. <<>> \in Seq(Screen) /\ Within(<<>>, stack)
      BY DEF Within, Mounted
    <3> HIDE DEF u
    <3>4. IsMine(mains', stack', fbUser)
      BY <3>1, <3>2, <3>3, ShowMainIsMine
    <3> QED BY <3>1, <3>4 DEF MountedIsMine
  <2> QED BY <2>1, <2>2
<1>6. ASSUME NEW n \in Names, n # "main", OffAllNamed(n) PROVE MountedIsMine'
  <2>1. stack' = <<Route(n)>>
    BY <1>6 DEF OffAllNamed, Show
  <2>2. \A i \in DOMAIN <<Route(n)>> : <<Route(n)>>[i].name # "main"
    BY <1>6 DEF Route
  <2>3. \A id \in MainIds : ~Mounted(id, stack')
    BY <2>1, <2>2 DEF Mounted
  <2> QED BY <2>3 DEF MountedIsMine, IsMine, Mounted
<1>7. CASE (\E t \in Taps : SignedInUnregistered(t)) \/ SignOutTap \/ SignedOut
  <2>1. OffAllNamed("register") \/ OffAllNamed("login")
    BY <1>7 DEF SignedInUnregistered, SignOutTap, SignedOut
  <2> QED BY <1>6, <2>1 DEF Names
<1>8. CASE Acknowledge
  <2>1. fbUser' = fbUser /\ authEvents = <<>>
    BY <1>8 DEF Acknowledge, authVars, Quiet
  <2>2. ShowMain(Below, user) \/ UNCHANGED <<stack, mains>>
    BY <1>8 DEF Acknowledge, OffNamedMain, screenVars
  <2>3. CASE ShowMain(Below, user)
    <3>1. Below \in Seq(Screen) /\ Within(Below, stack)
      BY BelowType, WithinRoutes DEF Names
    <3>2. IsMine(mains', stack', fbUser)
      BY <2>1, <2>3, <3>1, SyncedUser, ShowMainIsMine
    <3> QED BY <2>1, <3>2 DEF MountedIsMine
  <2> QED BY <1>1, <2>1, <2>2, <2>3
<1>9. ASSUME NEW id \in MainIds, Fetched(id) PROVE MountedIsMine'
  <2> DEFINE d == View(mains[id].uid)
             m == [mains[id] EXCEPT !.data = d]
             e == IF d = None THEN [m EXCEPT !.pc = "toRegister"]
                  ELSE IF ~d.onboarding THEN [m EXCEPT !.pc = "toOnboarding"]
                  ELSE IF Mounted(id, stack) THEN [m EXCEPT !.pc = "ready"]
                  ELSE Free
  <2>1. /\ mains' = [mains EXCEPT ![id] = e] /\ stack' = stack /\ fbUser' = fbUser
        /\ mains[id].pc = "sent" /\ mains[id] \in Main
    BY <1>9 DEF Fetched, authVars, TypeOK
  <2>2. \A x : [m EXCEPT !.pc = x].uid = mains[id].uid
    <3> HIDE DEF d
    <3> QED BY <2>1 DEF Main
  <2>3. e = Free \/ \E x : e = [m EXCEPT !.pc = x]
    <3> HIDE DEF m, d
    <3> QED OBVIOUS
  <2>4. e.pc \in {"sent", "ready"} => e.uid = mains[id].uid
    <3> HIDE DEF e, m
    <3>1. Free.pc = "free"
      BY DEF Free
    <3> QED BY <2>2, <2>3, <3>1
  <2> HIDE DEF e
  <2>5. mains'[id] = e /\ \A j \in MainIds : j # id => mains'[j] = mains[j]
    BY <2>1 DEF TypeOK
  <2> SUFFICES ASSUME NEW j \in MainIds, Mounted(j, stack),
                      mains'[j].pc \in {"sent", "ready"}
               PROVE  mains'[j].uid = fbUser
    BY <2>1 DEF MountedIsMine, IsMine
  <2>6. CASE j = id
    BY <2>1, <2>4, <2>5, <2>6 DEF MountedIsMine, IsMine
  <2>7. CASE j # id
    BY <2>5, <2>7 DEF MountedIsMine, IsMine
  <2> QED BY <2>6, <2>7
<1>10. ASSUME NEW id \in MainIds
       PROVE  IsMine([mains EXCEPT ![id].pc = "stuck"], stack, fbUser)
  <2>1. /\ [mains EXCEPT ![id].pc = "stuck"][id].pc = "stuck"
        /\ \A j \in MainIds : j # id => [mains EXCEPT ![id].pc = "stuck"][j] = mains[j]
    BY DEF TypeOK, Main
  <2> QED BY <2>1 DEF MountedIsMine, IsMine
<1>11. ASSUME NEW id \in MainIds, FetchFails(id) PROVE MountedIsMine'
  <2> DEFINE ms == [mains EXCEPT ![id].pc = "stuck"]
  <2>1. mains' = Disposed(ms, stack) /\ stack' = stack /\ fbUser' = fbUser
    BY <1>11 DEF FetchFails, authVars
  <2>2. IsMine(ms, stack, fbUser)
    BY <1>10
  <2> HIDE DEF ms
  <2> QED BY <2>1, <2>2, DisposedIsMine DEF MountedIsMine, Within
<1>12. ASSUME NEW id \in MainIds, Redirect(id) PROVE MountedIsMine'
  <2> DEFINE ms == [mains EXCEPT ![id].pc = "stuck"]
             target == IF mains[id].pc = "toRegister" THEN "register" ELSE "onboarding"
  <2>1. /\ mains' = Disposed(ms, stack') /\ fbUser' = fbUser
        /\ stack' = stack \/ stack' = Append(Below, Route(target))
    BY <1>12 DEF Redirect, authVars
  <2>2. IsMine(ms, stack, fbUser)
    BY <1>10
  <2>3. target \in Names /\ target # "main"
    BY DEF Names
  <2> HIDE DEF ms, target
  <2>4. Within(stack', stack)
    <3>1. Within(stack, stack) /\ Within(Append(Below, Route(target)), stack)
      BY <2>3, WithinRoutes
    <3> QED BY <2>1, <3>1
  <2> QED BY <2>1, <2>2, <2>4, DisposedIsMine DEF MountedIsMine
<1>13. CASE OpenCategory
  <2>1. stack' = Append(stack, Route("selection")) /\ mains' = mains /\ fbUser' = fbUser
    BY <1>13 DEF OpenCategory, authVars
  <2>2. Within(stack', stack)
    BY <2>1, WithinRoutes DEF Names
  <2> QED BY <2>1, <2>2 DEF MountedIsMine, IsMine, Within
<1>14. CASE LeaveCategory
  <2>1. stack' = Below /\ mains' = Disposed(mains, Below) /\ fbUser' = fbUser
    BY <1>14 DEF LeaveCategory, Show, authVars
  <2>2. Within(Below, stack)
    BY WithinRoutes DEF Names
  <2> QED BY <2>1, <2>2, DisposedIsMine DEF MountedIsMine
<1>15. \/ Launch \/ Restart \/ SignOutTap \/ SignedOut \/ Acknowledge
       \/ OpenCategory \/ LeaveCategory
       \/ \E t \in Taps : \/ Authenticated(t) \/ SignedInRegistered(t)
                          \/ SignedInUnregistered(t)
       \/ \E id \in MainIds : Fetched(id) \/ FetchFails(id) \/ Redirect(id)
       \/ UNCHANGED <<stack, mains, fbUser>>
  BY DEF Next, vars, DeliverAuthEvent, SignIn, SignInTap, ChooseAccount,
     CancelChooser, SignInFails, UserDocRead, WelcomeGone, Register,
     onOnboardingComplete, MainScreen, setPage, convertToPrestador, SignOutFails,
     deleteAllUsersWithCampo, authVars
<1> QED
  BY <1>1, <1>2, <1>3, <1>4, <1>5, <1>7, <1>8, <1>9, <1>11, <1>12, <1>13, <1>14,
     <1>15

\* A new process is fresh: the callbacks of the queued writes are gone.
LEMMA RestartIsFresh ==
    ASSUME TypeOK, Restart
    PROVE  Fresh'
<1>1. stack' = <<>> /\ \A id \in MainIds : mains'[id] = Free
  BY DEF Restart
<1>2. ASSUME NEW a \in Maybe(Accounts), NEW i \in DOMAIN writes'[a]
      PROVE  ~writes'[a][i].live
  <2>1. writes'[a] = [j \in DOMAIN writes[a] |-> [writes[a][j] EXCEPT !.live = FALSE]]
    BY DEF Restart
  <2>2. i \in DOMAIN writes[a] /\ writes'[a][i] = [writes[a][i] EXCEPT !.live = FALSE]
    BY <1>2, <2>1
  <2>3. writes[a][i] \in Write
    BY <2>2 DEF TypeOK
  <2> QED BY <2>2, <2>3 DEF Write
<1> QED BY <1>1, <1>2 DEF Fresh, Free

\* No step of a fresh process but the end of a sign-in, or the launch with a
\* session, leaves the login screen or owes a callback.
LEMMA FreshKept ==
    ASSUME TypeOK, Fresh, [Next]_vars, ~Launch,
           \A t \in Taps : ~SignedInRegistered(t) /\ ~SignedInUnregistered(t)
    PROVE  Fresh'
<1>1. \A n : On(n) => n = "login"
  BY DEF Fresh, Launched, Top, On, Route
<1>2. ~On("register") /\ ~On("onboarding") /\ ~On("main") /\ ~On("selection")
  BY <1>1
<1>3. CASE UNCHANGED <<stack, mains, writes>>
  BY <1>3 DEF Fresh
<1>4. CASE Restart
  BY <1>4, RestartIsFresh
<1>5. CASE Acknowledge
  <2> DEFINE q == writes[fbUser]
  <2>1. q \in Seq(Write) /\ q # <<>> /\ 1 \in DOMAIN q /\ Head(q) = q[1]
        /\ fbUser \in Maybe(Accounts)
    BY <1>5 DEF Acknowledge, TypeOK
  <2>2. ~Head(q).live
    BY <2>1 DEF Fresh
  <2>3. UNCHANGED <<stack, mains>> /\ writes' = [writes EXCEPT ![fbUser] = Tail(q)]
    BY <1>5, <2>2 DEF Acknowledge, screenVars
  <2>4. ASSUME NEW a \in Maybe(Accounts), NEW i \in DOMAIN writes'[a]
        PROVE  ~writes'[a][i].live
    <3>1. CASE a = fbUser
      <4>1. writes'[a] = Tail(q)
        BY <2>1, <2>3, <3>1 DEF TypeOK
      <4>2. i + 1 \in DOMAIN q /\ Tail(q)[i] = q[i + 1]
        BY <2>1, <2>4, <4>1
      <4> QED BY <2>1, <4>1, <4>2 DEF Fresh
    <3>2. CASE a # fbUser
      <4>1. writes'[a] = writes[a]
        BY <2>3, <3>2 DEF TypeOK
      <4> QED BY <2>4, <4>1 DEF Fresh
    <3> QED BY <3>1, <3>2
  <2> QED BY <2>3, <2>4 DEF Fresh
<1>6. ASSUME NEW id \in MainIds, MainScreen(id) PROVE FALSE
  BY <1>6 DEF MainScreen, Fetched, FetchFails, Redirect, Fresh
<1>7. CASE SignedOut
  <2>1. stack' = <<Route("login")>> /\ mains' = Disposed(mains, stack')
        /\ writes' = writes
    BY <1>7 DEF SignedOut, OffAllNamed, Show
  <2>2. \A id \in MainIds : mains'[id].pc = "free"
    BY <2>1 DEF Disposed, Free, Fresh
  <2> QED BY <2>1, <2>2 DEF Fresh
<1>8. \/ Restart \/ Acknowledge \/ SignedOut
      \/ \E id \in MainIds : MainScreen(id)
      \/ UNCHANGED <<stack, mains, writes>>
  BY <1>2 DEF Next, vars, Launch, DeliverAuthEvent, SignIn, SignInTap,
     ChooseAccount,
     CancelChooser, Authenticated, SignInFails, UserDocRead, WelcomeGone, Register,
     onOnboardingComplete, setPage, OpenCategory, LeaveCategory, MainUsable, OnTab,
     convertToPrestador, SignOutTap, SignOutFails, deleteAllUsersWithCampo,
     serverVars, authVars
<1> QED BY <1>3, <1>4, <1>5, <1>6, <1>7, <1>8

\* A step keeps Settled if it only lets GoogleSignIn take an account when there
\* is no session, or the process is fresh.
LEMMA NextSettled ==
    ASSUME TypeOK, SignInIdentity, Settled, Launched, [Next]_vars
    PROVE  Settled'
<1>1. ASSUME Fresh, ~Fresh' PROVE fbUser' \in {None, googleUser'}
  <2>1. PICK t \in Taps : SignedInRegistered(t) \/ SignedInUnregistered(t)
    BY <1>1, FreshKept DEF Launch
  <2>2. /\ taps[t].pc = "got" /\ fbUser' = fbUser /\ googleUser' = googleUser
    BY <2>1 DEF SignedInRegistered, SignedInUnregistered
  <2> QED BY <2>2 DEF SignInIdentity
<1>2. ASSUME fbUser \in {None, googleUser}
      PROVE  fbUser' \in {None, googleUser'} \/ Fresh'
  <2>1. CASE Restart
    BY <2>1, RestartIsFresh
  <2>2. ASSUME NEW t \in Taps, ChooseAccount(t) PROVE fbUser' \in {None, googleUser'}
    BY <1>2, <2>2 DEF ChooseAccount
  <2>3. ASSUME NEW t \in Taps, Authenticated(t) PROVE fbUser' \in {None, googleUser'}
    BY <2>3 DEF Authenticated, SetFbUser, SignInIdentity
  <2>4. CASE SignedOut
    BY <2>4 DEF SignedOut, SetFbUser
  <2>5. CASE UNCHANGED <<fbUser, googleUser>>
    BY <1>2, <2>5
  <2>6. \/ Restart \/ SignedOut \/ UNCHANGED <<fbUser, googleUser>>
        \/ \E t \in Taps : ChooseAccount(t) \/ Authenticated(t)
    BY DEF Next, vars, Launch, DeliverAuthEvent, SignIn, SignInTap,
       CancelChooser,
       SignInFails, UserDocRead, SignedInRegistered, SignedInUnregistered,
       WelcomeGone, Register, onOnboardingComplete, Acknowledge, MainScreen,
       Fetched, FetchFails, Redirect, setPage, OpenCategory, LeaveCategory,
       convertToPrestador, SignOutTap, SignOutFails, deleteAllUsersWithCampo,
       authVars
  <2> QED BY <2>1, <2>2, <2>3, <2>4, <2>5, <2>6
<1> QED BY <1>1, <1>2 DEF Settled

\* How a step leaves the navigator.
LEMMA StackSteps ==
    ASSUME TypeOK, RoutesFit, BeforeLaunch, [Next]_vars
    PROVE  \/ stack' = stack
           \/ Restart /\ stack' = <<>>
           \/ stack' = <<Route("register")>>
           \/ /\ Launch \/ SignOutTap \/ SignedOut
              /\ stack' = <<Route("login")>>
           \/ /\ Launched \/ Launch
              /\ \E below \in {<<>>, Below}, id \in MainIds :
                    stack' = Append(below, [name |-> "main", id |-> id])
           \/ /\ Launched
              /\ \E n \in {"register", "onboarding"} : stack' = Append(Below, Route(n))
           \/ On("main") /\ stack' = Append(stack, Route("selection"))
           \/ On("selection") /\ stack' = Below
<1>1. CASE Launch
  BY <1>1 DEF Launch, ShowMain, Show
<1>2. CASE Restart
  BY <1>2 DEF Restart
<1>3. ASSUME NEW t \in Taps, SignIn(t)
      PROVE  \/ stack' = stack
             \/ stack' = <<Route("register")>>
             \/ /\ Launched
                /\ \E id \in MainIds : stack' = Append(<<>>, [name |-> "main", id |-> id])
  <2>1. CASE SignedInRegistered(t)
    <3>1. Launched
      BY <2>1 DEF SignedInRegistered, BeforeLaunch
    <3> QED BY <2>1, <3>1 DEF SignedInRegistered, ShowMain
  <2>2. CASE SignedInUnregistered(t)
    BY <2>2 DEF SignedInUnregistered, OffAllNamed, Show
  <2>3. CASE ~SignedInRegistered(t) /\ ~SignedInUnregistered(t)
    BY <1>3, <2>3 DEF SignIn, SignInTap, ChooseAccount, CancelChooser,
       Authenticated,
       SignInFails, UserDocRead, WelcomeGone
  <2> QED BY <2>1, <2>2, <2>3
<1>4. CASE Acknowledge
  <2>1. CASE stack' # stack
    <3>1. OffNamedMain
      BY <1>4, <2>1 DEF Acknowledge, screenVars
    <3>2. Head(writes[fbUser]).live /\ writes[fbUser] # <<>>
      BY <1>4, <2>1 DEF Acknowledge, screenVars
    <3>3. Launched
      <4>1. writes[fbUser] \in Seq(Write) /\ fbUser \in Maybe(Accounts)
        BY DEF TypeOK
      <4>2. 1 \in DOMAIN writes[fbUser] /\ Head(writes[fbUser]) = writes[fbUser][1]
        BY <3>2, <4>1
      <4> QED BY <3>2, <4>1, <4>2 DEF BeforeLaunch, Fresh
    <3> QED BY <2>1, <3>1, <3>3 DEF OffNamedMain, ShowMain, screenVars
  <2> QED BY <2>1
<1>5. ASSUME NEW id \in MainIds, MainScreen(id)
      PROVE  \/ stack' = stack
             \/ /\ Launched
                /\ \E n \in {"register", "onboarding"} : stack' = Append(Below, Route(n))
  <2>1. Launched
    BY <1>5 DEF MainScreen, Fetched, FetchFails, Redirect, BeforeLaunch, Fresh
  <2> QED BY <1>5, <2>1 DEF MainScreen, Fetched, FetchFails, Redirect
<1>6. CASE OpenCategory \/ LeaveCategory
  BY <1>6 DEF OpenCategory, LeaveCategory, OnTab, MainUsable, Show
<1>7. CASE SignOutTap \/ SignedOut
  BY <1>7 DEF SignOutTap, SignedOut, OffAllNamed, Show
<1>8. CASE \/ DeliverAuthEvent \/ Register \/ onOnboardingComplete
           \/ (\E index \in 0..5 : setPage(index)) \/ convertToPrestador
           \/ SignOutFails \/ deleteAllUsersWithCampo \/ UNCHANGED vars
  BY <1>8 DEF DeliverAuthEvent, Register, onOnboardingComplete, setPage,
     convertToPrestador, SignOutFails, deleteAllUsersWithCampo, vars
<1>9. ASSUME NEW t \in Taps, SignIn(t)
      PROVE  \/ stack' = stack
             \/ stack' = <<Route("register")>>
             \/ /\ Launched \/ Launch
                /\ \E below \in {<<>>, Below}, id \in MainIds :
                      stack' = Append(below, [name |-> "main", id |-> id])
  BY <1>3, <1>9
<1> QED BY <1>1, <1>2, <1>9, <1>4, <1>5, <1>6, <1>7, <1>8 DEF Next

\* LoginScreen stays alone, and CategorySelectionScreen over another route.
LEMMA NextRoutesFit ==
    ASSUME TypeOK, RoutesFit, BeforeLaunch, [Next]_vars
    PROVE  /\ RoutesFit'
           /\ ~Launched' => Restart \/ ~Launched
           /\ On("login")' => stack' = stack \/ Launch \/ SignOutTap \/ SignedOut
<1> DEFINE s == stack
           n == Len(stack)
<1>1. s \in Seq(Screen) /\ n \in Nat /\ Below \in Seq(Screen)
  BY BelowType DEF TypeOK
<1>2. \A i \in DOMAIN Below : i \in DOMAIN s /\ Below[i] = s[i]
  BY <1>1 DEF Below
<1>3. n > 0 => Len(Below) = n - 1 /\ DOMAIN Below = 1..(n - 1)
  <2> SUFFICES ASSUME n > 0 PROVE Len(Below) = n - 1 /\ DOMAIN Below = 1..(n - 1)
    OBVIOUS
  <2>1. Launched
    BY DEF Launched
  <2>2. Len(Below) = n - 1
    BY <2>1, BelowIs
  <2> QED BY <1>1, <2>2
<1>4. ASSUME NEW i \in DOMAIN Below
      PROVE  i \in DOMAIN s /\ Below[i] = s[i] /\ n # 1
  <2>1. i \in DOMAIN s /\ Below[i] = s[i]
    BY <1>2
  <2>2. n > 0
    BY <1>1, <2>1
  <2>3. i \in 1..(n - 1)
    <3> HIDE DEF n
    <3> QED BY <1>3, <2>2
  <2>4. n # 1
    <3>1. n \in Nat
      BY <1>1
    <3> HIDE DEF n
    <3> QED BY <2>3, <3>1
  <2> QED BY <2>1, <2>4
<1>5. \A i \in DOMAIN Below : /\ Below[i].name # "login"
                              /\ Below[i].name = "selection" => i # 1
  BY <1>4 DEF RoutesFit
<1>6. ASSUME NEW r \in Seq(Screen), NEW x, x.name \notin {"login", "selection"},
             \A i \in DOMAIN r : /\ r[i].name # "login"
                                 /\ r[i].name = "selection" => i # 1,
             stack' = Append(r, x)
      PROVE  RoutesFit' /\ Launched' /\ ~On("login")'
  <2> DEFINE a == Append(r, x)
  <2>1. /\ DOMAIN a = 1..(Len(r) + 1) /\ Len(a) = Len(r) + 1 /\ Len(r) \in Nat
        /\ a[Len(r) + 1] = x /\ \A i \in DOMAIN a : a[i] = x \/ (i \in DOMAIN r /\ a[i] = r[i])
    BY <1>6
  <2>2. a # <<>> /\ a[Len(a)] = x
    BY <2>1
  <2> HIDE DEF a
  <2>3. \A i \in DOMAIN a : a[i].name # "login" /\ (a[i].name = "selection" => i # 1)
    BY <1>6, <2>1
  <2> QED BY <1>6, <2>2, <2>3 DEF RoutesFit, Launched, On, Top, a
<1>7. \A m : Route(m).name = m
  BY DEF Route
<1>8. CASE stack' = stack
  BY <1>8 DEF RoutesFit, Launched
<1>9. CASE Restart /\ stack' = <<>>
  BY <1>9 DEF RoutesFit, On, Launched
<1>10. ASSUME NEW m \in {"login", "register"}, stack' = <<Route(m)>>
      PROVE  /\ RoutesFit' /\ Launched'
             /\ On("login")' => m = "login"
  <2>1. Len(<<Route(m)>>) = 1 /\ DOMAIN <<Route(m)>> = {1} /\ <<Route(m)>>[1] = Route(m)
        /\ <<Route(m)>> # <<>>
    OBVIOUS
  <2> QED BY <1>7, <1>10, <2>1 DEF RoutesFit, Launched, On, Top
<1>11. ASSUME NEW below \in {<<>>, Below}, NEW id \in MainIds,
             stack' = Append(below, [name |-> "main", id |-> id])
      PROVE  RoutesFit' /\ Launched' /\ ~On("login")'
  <2> DEFINE x == [name |-> "main", id |-> id]
  <2>1. x.name \notin {"login", "selection"}
    OBVIOUS
  <2>2. below \in Seq(Screen) /\ \A i \in DOMAIN below :
            below[i].name # "login" /\ (below[i].name = "selection" => i # 1)
    <3>1. CASE below = <<>>
      <4>1. <<>> \in Seq(Screen) /\ \A i \in DOMAIN <<>> : FALSE
        OBVIOUS
      <4> QED BY <3>1, <4>1
    <3>2. CASE below = Below
      BY <1>1, <1>5, <3>2
    <3> QED BY <3>1, <3>2
  <2> HIDE DEF x
  <2> QED BY <1>6, <1>11, <2>1, <2>2 DEF x
<1>12. ASSUME NEW m \in {"register", "onboarding"}, stack' = Append(Below, Route(m))
       PROVE  RoutesFit' /\ Launched' /\ ~On("login")'
  BY <1>1, <1>5, <1>6, <1>7, <1>12
<1>13. CASE On("main") /\ stack' = Append(stack, Route("selection"))
  <2> DEFINE x == Route("selection")
             a == Append(s, x)
  <2>1. n # 0 /\ n \in DOMAIN s /\ s[n].name = "main"
    <3>1. s # <<>> /\ s[n].name = "main"
      BY <1>13 DEF On, Launched, Top
    <3> QED BY <1>1, <3>1
  <2>2. \A i \in DOMAIN s : s[i].name # "login"
    <3> SUFFICES ASSUME NEW i \in DOMAIN s, s[i].name = "login" PROVE FALSE
      OBVIOUS
    <3>1. n = 1
      BY DEF RoutesFit
    <3>2. i = n
      BY <1>1, <3>1
    <3> QED BY <2>1, <3>2
  <2>3. /\ DOMAIN a = 1..(n + 1) /\ Len(a) = n + 1 /\ a[n + 1] = x /\ a # <<>>
        /\ \A i \in DOMAIN a : i = n + 1 \/ (i \in DOMAIN s /\ a[i] = s[i])
    BY <1>1
  <2>4. n + 1 # 1
    BY <1>1, <2>1
  <2> HIDE DEF a, x
  <2>5. \A i \in DOMAIN a : a[i].name # "login" /\ (a[i].name = "selection" => i # 1)
    BY <1>7, <2>2, <2>3, <2>4 DEF RoutesFit, x
  <2>6. a[Len(a)].name # "login"
    BY <1>7, <2>3 DEF x
  <2> QED BY <1>13, <2>3, <2>5, <2>6 DEF RoutesFit, Launched, On, Top, a, x
<1>14. CASE On("selection") /\ stack' = Below
  <2>1. s # <<>> /\ s[n].name = "selection" /\ n \in DOMAIN s
    <3>1. s # <<>> /\ s[n].name = "selection"
      BY <1>14 DEF On, Launched, Top
    <3> QED BY <1>1, <3>1
  <2>2. n # 1
    BY <2>1 DEF RoutesFit
  <2>3. Below # <<>> /\ Len(Below) \in DOMAIN Below
    <3>1. n \in Nat /\ n \in 1..n
      BY <1>1, <2>1
    <3>2. n > 0 /\ n - 1 \in 1..(n - 1)
      <4> HIDE DEF n
      <4> QED BY <2>2, <3>1
    <3>3. Len(Below) = n - 1 /\ DOMAIN Below = 1..(n - 1)
      BY <1>3, <3>2
    <3> HIDE DEF n
    <3>4. Len(Below) \in DOMAIN Below
      BY <3>2, <3>3
    <3> QED BY <1>1, <3>2, <3>3, <3>4
  <2> QED BY <1>5, <1>14, <2>3 DEF RoutesFit, Launched, On, Top
<1> QED
  BY <1>8, <1>9, <1>10, <1>11, <1>12, <1>13, <1>14, StackSteps

\* Every step keeps what makes signing in safe, when signOut() does not fail.
LEMMA NextSettledInv ==
    ASSUME Prompt, "signOut" \notin Faults, TypeOK, AuthSynced, SignInIdentity,
           SettledInv, [Next]_vars
    PROVE  SettledInv'
<1>0. SigningInIsSettled /\ LoginIsSettled /\ RoutesFit /\ BeforeLaunch
  BY DEF SettledInv
<1>1. /\ RoutesFit'
      /\ ~Launched' => Restart \/ ~Launched
      /\ On("login")' => stack' = stack \/ Launch \/ SignOutTap \/ SignedOut
  BY <1>0, NextRoutesFit
<1>2. SigningInIsSettled'
  <2> DEFINE Busy == {"chooser", "credential", "get", "got"}
  <2> SUFFICES ASSUME NEW t \in Taps, taps'[t].pc \in Busy PROVE Settled'
    BY DEF SigningInIsSettled
  <2>1. taps[t].pc \in Busy \/ SignInTap(t)
    <3>1. CASE Restart
      BY <3>1 DEF Restart, Idle
    <3>2. ASSUME NEW u \in Taps, SignIn(u) PROVE taps[t].pc \in Busy \/ SignInTap(t)
      <4>1. CASE u = t
        <5>1. CASE \E r : Returned(t, r)
          BY <5>1 DEF Returned, Idle, TypeOK
        <5>2. CASE WelcomeGone(t)
          BY <5>2 DEF WelcomeGone, Idle, TypeOK
        <5> QED
          BY <3>2, <4>1, <5>1, <5>2 DEF SignIn, ChooseAccount, CancelChooser,
             Authenticated, SignInFails, UserDocRead, SignedInRegistered,
             SignedInUnregistered
      <4>2. CASE u # t
        <5>1. taps'[t] = taps[t]
          BY <3>2, <4>2 DEF TypeOK, SignIn, SignInTap, ChooseAccount,
             CancelChooser,
             Authenticated, SignInFails, UserDocRead, SignedInRegistered,
             SignedInUnregistered, WelcomeGone, Returned
        <5> QED BY <5>1
      <4> QED BY <4>1, <4>2
    <3>3. Restart \/ (\E u \in Taps : SignIn(u)) \/ taps' = taps
      BY DEF Next, vars, Launch, DeliverAuthEvent, Register,
         onOnboardingComplete,
         Acknowledge, MainScreen, Fetched, FetchFails, Redirect, setPage,
         OpenCategory, LeaveCategory, convertToPrestador, SignOutTap, SignedOut,
         SignOutFails, deleteAllUsersWithCampo
    <3> QED BY <3>1, <3>2, <3>3
  <2>2. Settled /\ Launched
    <3>1. CASE taps[t].pc \in Busy
      BY <1>0, <3>1 DEF SigningInIsSettled, BeforeLaunch
    <3>2. CASE SignInTap(t)
      BY <1>0, <3>2 DEF SignInTap, Gesture, LoginIsSettled
    <3> QED BY <2>1, <3>1, <3>2
  <2> QED BY <2>2, NextSettled
<1>3. LoginIsSettled'
  <2> SUFFICES ASSUME On("login")', ~signingOut' PROVE Settled'
    BY DEF LoginIsSettled
  <2>1. CASE SignedOut
    <3>1. fbUser' = None
      BY <2>1 DEF SignedOut, SetFbUser
    <3> QED BY <3>1 DEF Settled
  <2>2. CASE Launch
    <3>1. Fresh
      BY <1>0, <2>2 DEF Launch, BeforeLaunch
    <3>2. CASE user = None
      <4>1. /\ stack' = <<Route("login")>> /\ mains' = Disposed(mains, stack')
            /\ writes' = writes
        BY <2>2, <3>2 DEF Launch, Show
      <4>2. \A id \in MainIds : mains'[id].pc = "free"
        BY <3>1, <4>1 DEF Disposed, Free, Fresh
      <4> QED BY <3>1, <4>1, <4>2 DEF Fresh, Settled
    <3>3. CASE user # None
      <4>1. PICK id \in MainIds : stack' = Append(<<>>, [name |-> "main", id |-> id])
        BY <2>2, <3>3 DEF Launch, ShowMain
      <4>2. stack' = <<[name |-> "main", id |-> id]>>
        BY <4>1
      <4>3. stack'[Len(stack')].name = "main"
        BY <4>2
      <4> QED BY <4>3 DEF On, Top
    <3> QED BY <3>2, <3>3
  <2>3. CASE Restart
    BY <2>3 DEF Restart, On, Launched
  <2>4. CASE SignOutTap
    BY <2>4 DEF SignOutTap
  <2>5. CASE SignOutFails
    BY <2>5 DEF SignOutFails
  <2>6. CASE /\ ~SignedOut /\ ~Launch /\ ~Restart /\ ~SignOutTap /\ ~SignOutFails
    <3>1. signingOut' = signingOut
      BY <2>6 DEF Next, vars, DeliverAuthEvent, SignIn, SignInTap,
         ChooseAccount,
         CancelChooser, Authenticated, SignInFails, UserDocRead, SignedInRegistered,
         SignedInUnregistered, WelcomeGone, Register, onOnboardingComplete,
         Acknowledge, MainScreen, Fetched, FetchFails, Redirect, setPage,
         OpenCategory, LeaveCategory, convertToPrestador, deleteAllUsersWithCampo
    <3>2. stack' = stack
      BY <1>1, <2>6
    <3>3. On("login") /\ Launched
      BY <3>2 DEF On, Launched, Top
    <3>4. Settled
      BY <1>0, <3>1, <3>3 DEF LoginIsSettled
    <3> QED BY <3>3, <3>4, NextSettled
  <2> QED BY <2>1, <2>2, <2>3, <2>4, <2>5, <2>6
<1>4. BeforeLaunch'
  <2> SUFFICES ASSUME ~Launched'
               PROVE  /\ Fresh'
                      /\ ~signingOut'
                      /\ authEvents' = <<>> \/ (user' = None /\ Len(authEvents') = 1)
                      /\ \A t \in Taps : taps'[t].pc = "idle"
    BY DEF BeforeLaunch
  <2>1. CASE Restart
    <3>1. Len(<<fbUser>>) = 1
      OBVIOUS
    <3>2. authEvents' = <<fbUser>> /\ user' = None /\ signingOut' = FALSE
          /\ \A t \in Taps : taps'[t] = Idle
      BY <2>1 DEF Restart
    <3> QED BY <2>1, <3>1, <3>2, RestartIsFresh DEF Idle
  <2>2. CASE ~Restart
    <3>1. ~Launched
      BY <1>1, <2>2
    <3>2. /\ Fresh /\ ~signingOut /\ \A t \in Taps : taps[t].pc = "idle"
          /\ authEvents = <<>> \/ (user = None /\ Len(authEvents) = 1)
      BY <1>0, <3>1 DEF BeforeLaunch
    <3>3. ~Launch
      <4> SUFFICES ASSUME Launch PROVE FALSE
        OBVIOUS
      <4>1. stack' = <<Route("login")>>
            \/ \E id \in MainIds : stack' = Append(<<>>, [name |-> "main", id |-> id])
        BY DEF Launch, Show, ShowMain
      <4>2. <<Route("login")>> # <<>>
        OBVIOUS
      <4>3. \A x : Append(<<>>, x) = <<x>> /\ <<x>> # <<>>
        OBVIOUS
      <4> QED BY <4>1, <4>2, <4>3 DEF Launched
    <3>4. \A t \in Taps : ~SignIn(t)
      <4>1. ASSUME NEW t \in Taps, SignIn(t) PROVE FALSE
        BY <3>1, <3>2, <4>1 DEF SignIn, SignInTap, Gesture, ChooseAccount,
           CancelChooser, Authenticated, SignInFails, UserDocRead,
           SignedInRegistered, SignedInUnregistered, WelcomeGone
      <4> QED BY <4>1
    <3>5. Fresh'
      BY <3>2, <3>3, <3>4, FreshKept DEF SignIn
    <3>6. CASE DeliverAuthEvent
      <4>1. /\ authEvents # <<>> /\ authEvents' = Tail(authEvents)
            /\ signingOut' = signingOut /\ taps' = taps
        BY <3>6 DEF DeliverAuthEvent
      <4>2. authEvents \in Seq(Maybe(Accounts)) /\ Len(authEvents) = 1
        BY <3>2, <4>1 DEF TypeOK
      <4>3. authEvents' = <<>>
        BY <4>1, <4>2
      <4> QED BY <3>2, <3>5, <4>1, <4>3
    <3>7. CASE UNCHANGED <<authEvents, user, signingOut, taps>>
      BY <3>2, <3>5, <3>7
    <3>8. \A id \in MainIds : ~MainScreen(id)
      BY <3>2 DEF Fresh, MainScreen, Fetched, FetchFails, Redirect
    <3>9. DeliverAuthEvent \/ UNCHANGED <<authEvents, user, signingOut, taps>>
      BY <2>2, <3>1, <3>2, <3>3, <3>4, <3>8 DEF Next, vars, Register, Gesture,
         onOnboardingComplete, Acknowledge, setPage, OpenCategory, LeaveCategory,
         convertToPrestador, SignOutTap, SignedOut, SignOutFails,
         deleteAllUsersWithCampo, authVars
    <3> QED BY <3>6, <3>7, <3>9
  <2> QED BY <2>1, <2>2
<1> QED BY <1>1, <1>2, <1>3, <1>4 DEF SettledInv

\* Together they hold of every reachable state.
LEMMA ScreensAreSettled ==
    ASSUME Prompt, "signOut" \notin Faults
    PROVE  Spec => [](SignInIdentity /\ SettledInv /\ MountedIsMine)
<1>1. Init => SignInIdentity
  BY DEF Init, SignInIdentity, Idle
<1>2. Init => SettledInv
  <2> SUFFICES ASSUME Init PROVE SettledInv
    OBVIOUS
  <2>1. stack = <<>> /\ ~Launched /\ ~On("login")
    BY DEF Init, Launched, On
  <2>2. Fresh
    BY DEF Init, Fresh, Free
  <2>3. Len(<<fbUser>>) = 1
    OBVIOUS
  <2>4. BeforeLaunch
    BY <2>2, <2>3 DEF Init, BeforeLaunch, Idle
  <2>5. SigningInIsSettled /\ LoginIsSettled
    BY <2>1, <2>2 DEF SigningInIsSettled, LoginIsSettled, Settled
  <2>6. RoutesFit
    BY <2>1 DEF RoutesFit
  <2> QED BY <2>4, <2>5, <2>6 DEF SettledInv
<1>3. Init => MountedIsMine
  BY DEF Init, MountedIsMine, IsMine, Mounted
<1>4. TypeOK /\ AuthSynced /\ SignInIdentity /\ SettledInv /\ [Next]_vars => SettledInv'
  BY NextSettledInv
<1>5. TypeOK /\ AuthSynced /\ SignInIdentity /\ SettledInv /\ MountedIsMine /\ [Next]_vars
      => MountedIsMine'
  BY NextMountedIsMine
<1> QED
  BY <1>1, <1>2, <1>3, <1>4, <1>5, TypeCorrect, AuthIsSynced,
     NextSignInIdentity, PTL DEF Spec

\* With the event loop serving posted events in order, and as long as no
\* signOut() fails, a MainScreen in the navigator that shows its tabs shows the
\* data of the signed-in account: neither the second acknowledgement of a
\* doubled save, nor a redirect timer of an earlier fetchData, nor a sign-in
\* that overlaps a sign-out leaves another account's tabs behind.
THEOREM LoadedMainIsAlwaysMine ==
    ASSUME Prompt, "signOut" \notin Faults
    PROVE  Spec => []LoadedMainIsMine
<1>1. MountedIsMine => LoadedMainIsMine
  BY DEF MountedIsMine, IsMine, LoadedMainIsMine
<1> QED
  BY <1>1, ScreensAreSettled, PTL

----------------------------------------------------------------------------
(* What a queue of writes makes of a document *)

\* The documents that the application stores.
Documents == {None, NewDoc, Onboarded, Prestador}

\* The i-th write of q finds no document: the update will be rejected.
Rejected(d, q, i) ==
    /\ d = None /\ q[i].op = "onboard"
    /\ \A k \in DOMAIN q : q[k].op = "set" => i < k

\* The introduction is done before the n-th write of q.
Past(d, q, n) ==
    \/ d \in {Onboarded, Prestador}
    \/ \E j \in DOMAIN q : j < n /\ q[j].op = "onboard" /\ ~Rejected(d, q, j)

\* No write of q takes the document d back or over a stage.
QueueFits(d, q) ==
    /\ d \in Documents
    /\ \A j \in DOMAIN q : q[j].op = "set" =>
         /\ d \in {None, NewDoc}
         /\ \A i \in DOMAIN q : i < j => q[i].op = "set" \/ Rejected(d, q, i)
    /\ \A i \in DOMAIN q : q[i].op = "prestador" => Past(d, q, i)

\* The writes of q leave at most a registered account.
Unfinished(d, q) ==
    /\ d \in {None, NewDoc}
    /\ \A i \in DOMAIN q : q[i].op = "set" \/ Rejected(d, q, i)

\* They leave an account that has done the introduction.
Finished(d, q) == Past(d, q, Len(q) + 1)

\* They leave a document.
HasSet(q) == \E i \in DOMAIN q : q[i].op = "set"

\* The four documents are different.
LEMMA DocumentsDiffer ==
    /\ NewDoc # None /\ Onboarded # None /\ Prestador # None
    /\ NewDoc # Onboarded /\ NewDoc # Prestador /\ Onboarded # Prestador
    /\ NewDoc \in Doc /\ Onboarded \in Doc /\ Prestador \in Doc
    /\ ~NewDoc.onboarding /\ Onboarded.onboarding /\ Prestador.onboarding
<1>1. NewDoc \in Doc /\ ~NewDoc.onboarding /\ ~NewDoc.prestador
  BY DEF NewDoc, Doc
<1>2. Onboarded \in Doc /\ Onboarded.onboarding /\ ~Onboarded.prestador
  <2>1. Onboarded = [NewDoc EXCEPT !.onboarding = TRUE]
    BY DEF Onboarded
  <2> QED BY <1>1, <2>1 DEF Doc
<1>3. Prestador \in Doc /\ Prestador.onboarding /\ Prestador.prestador
  <2>1. Prestador = [Onboarded EXCEPT !.prestador = TRUE]
    BY DEF Prestador
  <2> QED BY <1>2, <2>1 DEF Doc
<1>4. NewDoc # Onboarded /\ NewDoc # Prestador /\ Onboarded # Prestador
  BY <1>1, <1>2, <1>3
<1> QED BY <1>1, <1>2, <1>3, <1>4, NoneAssumption

\* What the server makes of each document.
LEMMA StoredIs ==
    /\ \A d : Stored(d, "set") = NewDoc
    /\ Stored(None, "onboard") = None
    /\ Stored(NewDoc, "onboard") = Onboarded
    /\ Stored(Onboarded, "onboard") = Onboarded
    /\ Stored(Prestador, "onboard") = Prestador
    /\ Stored(None, "prestador") = None
    /\ Stored(Onboarded, "prestador") = Prestador
    /\ Stored(Prestador, "prestador") = Prestador
<1>1. \A d : Stored(d, "set") = NewDoc
  BY DEF Stored
<1>2. Stored(None, "onboard") = None /\ Stored(None, "prestador") = None
  BY DEF Stored
<1>3. \A d : d # None =>
         /\ Stored(d, "onboard") = [d EXCEPT !.onboarding = TRUE]
         /\ Stored(d, "prestador") = [d EXCEPT !.prestador = TRUE]
  BY DEF Stored
<1>4. /\ [NewDoc EXCEPT !.onboarding = TRUE] = Onboarded
      /\ [Onboarded EXCEPT !.onboarding = TRUE] = Onboarded
      /\ [Prestador EXCEPT !.onboarding = TRUE] = Prestador
      /\ [Onboarded EXCEPT !.prestador = TRUE] = Prestador
      /\ [Prestador EXCEPT !.prestador = TRUE] = Prestador
  BY DEF NewDoc, Onboarded, Prestador
<1> QED BY <1>1, <1>2, <1>3, <1>4, DocumentsDiffer

\* The tail of a queue, position by position.
LEMMA TailOfWrites ==
    ASSUME NEW q \in Seq(Write), q # <<>>
    PROVE  /\ Tail(q) \in Seq(Write) /\ Len(Tail(q)) = Len(q) - 1
           /\ Len(q) \in Nat /\ DOMAIN q = 1..Len(q)
           /\ 1 \in DOMAIN q /\ Head(q) = q[1]
           /\ q[1].op \in {"set", "onboard", "prestador"}
           /\ \A i \in DOMAIN Tail(q) :
                 i \in Nat /\ i + 1 \in DOMAIN q /\ Tail(q)[i] = q[i + 1]
           /\ \A i \in DOMAIN q : i \in Nat /\ i >= 1
           /\ \A i \in DOMAIN q : i # 1 =>
                 i - 1 \in DOMAIN Tail(q) /\ Tail(q)[i - 1] = q[i]
<1>1. q[1] \in Write
  OBVIOUS
<1>2. q[1].op \in {"set", "onboard", "prestador"}
  BY <1>1 DEF Write
<1> QED BY <1>2

\* What the first write makes of the document.
LEMMA FirstWrite ==
    ASSUME NEW d, NEW q \in Seq(Write), q # <<>>, QueueFits(d, q)
    PROVE  LET e == Stored(d, Head(q).op)
           IN  \/ Head(q).op = "set" /\ d \in {None, NewDoc} /\ e = NewDoc
               \/ Head(q).op = "onboard" /\ d = None /\ e = None
               \/ Head(q).op = "onboard" /\ d = NewDoc /\ e = Onboarded
               \/ Head(q).op = "onboard" /\ d = Onboarded /\ e = Onboarded
               \/ Head(q).op = "onboard" /\ d = Prestador /\ e = Prestador
               \/ /\ Head(q).op = "prestador"
                  /\ d \in {Onboarded, Prestador} /\ e = Prestador
<1>1. /\ 1 \in DOMAIN q /\ Head(q) = q[1]
      /\ q[1].op \in {"set", "onboard", "prestador"}
      /\ \A j \in DOMAIN q : ~(j < 1)
  BY TailOfWrites
<1>2. d \in Documents
  BY DEF QueueFits
<1>3. q[1].op = "set" => d \in {None, NewDoc}
  BY <1>1 DEF QueueFits
<1>4. q[1].op = "prestador" => d \in {Onboarded, Prestador}
  BY <1>1 DEF QueueFits, Past
<1> QED BY <1>1, <1>2, <1>3, <1>4, StoredIs DEF Documents

\* The later writes meet the same document as before.
LEMMA RejectedTail ==
    ASSUME NEW d, NEW q \in Seq(Write), q # <<>>, QueueFits(d, q),
           NEW i \in DOMAIN Tail(q)
    PROVE  Rejected(Stored(d, Head(q).op), Tail(q), i) <=> Rejected(d, q, i + 1)
<1> DEFINE e == Stored(d, Head(q).op)
<1>1. /\ i \in Nat /\ i + 1 \in DOMAIN q /\ Tail(q)[i] = q[i + 1]
      /\ 1 \in DOMAIN q /\ Head(q) = q[1]
  BY TailOfWrites
<1>2. CASE Head(q).op = "set"
  <2>1. e # None
    BY <1>2, StoredIs, DocumentsDiffer
  <2>2. ~(i + 1 < 1)
    BY <1>1
  <2> QED BY <1>1, <1>2, <2>1, <2>2 DEF Rejected
<1>3. CASE Head(q).op # "set"
  <2>1. e = None <=> d = None
    BY <1>3, FirstWrite, DocumentsDiffer
  <2>2. (\A k \in DOMAIN Tail(q) : Tail(q)[k].op = "set" => i < k)
          <=> (\A k \in DOMAIN q : q[k].op = "set" => i + 1 < k)
    <3>1. ASSUME \A k \in DOMAIN Tail(q) : Tail(q)[k].op = "set" => i < k,
                 NEW k \in DOMAIN q, q[k].op = "set"
          PROVE  i + 1 < k
      <4>1. k # 1
        BY <1>1, <1>3, <3>1
      <4>2. k - 1 \in DOMAIN Tail(q) /\ Tail(q)[k - 1] = q[k] /\ k \in Nat
        BY <4>1, TailOfWrites
      <4>3. i < k - 1
        BY <3>1, <4>2
      <4> QED BY <1>1, <4>2, <4>3
    <3>2. ASSUME \A k \in DOMAIN q : q[k].op = "set" => i + 1 < k,
                 NEW k \in DOMAIN Tail(q), Tail(q)[k].op = "set"
          PROVE  i < k
      <4>1. k + 1 \in DOMAIN q /\ Tail(q)[k] = q[k + 1] /\ k \in Nat
        BY TailOfWrites
      <4>2. i + 1 < k + 1
        BY <3>2, <4>1
      <4> QED BY <1>1, <4>1, <4>2
    <3> QED BY <3>1, <3>2
  <2> QED BY <1>1, <2>1, <2>2 DEF Rejected
<1> QED BY <1>2, <1>3

\* What was past the introduction still is.
LEMMA PastTail ==
    ASSUME NEW d, NEW q \in Seq(Write), q # <<>>, QueueFits(d, q),
           NEW n \in Int, Past(d, q, n)
    PROVE  Past(Stored(d, Head(q).op), Tail(q), n - 1)
<1> DEFINE e == Stored(d, Head(q).op)
<1>1. CASE d \in {Onboarded, Prestador}
  <2>1. e \in {Onboarded, Prestador}
    BY <1>1, FirstWrite, DocumentsDiffer
  <2> QED BY <2>1 DEF Past
<1>2. ASSUME NEW j \in DOMAIN q, j < n, q[j].op = "onboard",
             ~Rejected(d, q, j), d \notin {Onboarded, Prestador}
      PROVE  Past(e, Tail(q), n - 1)
  <2>1. CASE j = 1
    <3>1. Head(q).op = "onboard" /\ Head(q) = q[1]
      BY <1>2, <2>1, TailOfWrites
    <3>2. \A k \in DOMAIN q : q[k].op = "set" => k # 1 /\ k \in Nat /\ k >= 1
      BY <3>1, TailOfWrites
    <3>3. \A k \in DOMAIN q : q[k].op = "set" => 1 < k
      BY <3>2
    <3>4. d # None
      BY <1>2, <2>1, <3>3 DEF Rejected
    <3>5. e \in {Onboarded, Prestador}
      BY <3>1, <3>4, FirstWrite
    <3> QED BY <3>5 DEF Past
  <2>2. CASE j # 1
    <3>1. j - 1 \in DOMAIN Tail(q) /\ Tail(q)[j - 1] = q[j] /\ j \in Nat
      BY <2>2, TailOfWrites
    <3>2. (j - 1) + 1 = j /\ j - 1 < n - 1
      BY <1>2, <3>1
    <3>3. ~Rejected(e, Tail(q), j - 1)
      BY <1>2, <3>1, <3>2, RejectedTail
    <3> QED BY <1>2, <3>1, <3>2, <3>3 DEF Past
  <2> QED BY <2>1, <2>2
<1> QED BY <1>1, <1>2 DEF Past

\* Carrying out the first write keeps what is known of the queue.
LEMMA FirstWriteFits ==
    ASSUME NEW d, NEW q \in Seq(Write), q # <<>>, QueueFits(d, q)
    PROVE  LET e == Stored(d, Head(q).op)
           IN  /\ QueueFits(e, Tail(q))
               /\ Unfinished(d, q) => Unfinished(e, Tail(q))
               /\ Finished(d, q) => Finished(e, Tail(q))
               /\ HasSet(q) => HasSet(Tail(q)) \/ e # None
               /\ d # None => e # None
<1> DEFINE e == Stored(d, Head(q).op)
<1>1. e \in Documents /\ (d # None => e # None)
  BY FirstWrite, DocumentsDiffer DEF Documents
<1>2. /\ Head(q) = q[1] /\ 1 \in DOMAIN q
      /\ \A i \in DOMAIN Tail(q) :
            i \in Nat /\ i + 1 \in DOMAIN q /\ Tail(q)[i] = q[i + 1]
      /\ \A i \in DOMAIN Tail(q) : Rejected(e, Tail(q), i) <=> Rejected(d, q, i + 1)
  BY TailOfWrites, RejectedTail
<1>3. ASSUME NEW j \in DOMAIN Tail(q), Tail(q)[j].op = "set"
      PROVE  /\ e \in {None, NewDoc}
             /\ \A i \in DOMAIN Tail(q) : i < j =>
                   Tail(q)[i].op = "set" \/ Rejected(e, Tail(q), i)
  <2>1. j + 1 \in DOMAIN q /\ q[j + 1].op = "set" /\ j \in Nat /\ 1 < j + 1
    BY <1>2, <1>3
  <2>2. d \in {None, NewDoc} /\ (q[1].op = "set" \/ Rejected(d, q, 1))
    BY <1>2, <2>1 DEF QueueFits
  <2>3. e \in {None, NewDoc}
    BY <1>2, <2>2, FirstWrite, DocumentsDiffer DEF Rejected
  <2>4. ASSUME NEW i \in DOMAIN Tail(q), i < j
        PROVE  Tail(q)[i].op = "set" \/ Rejected(e, Tail(q), i)
    <3>1. i \in Nat /\ i + 1 < j + 1 /\ i + 1 \in DOMAIN q
      BY <1>2, <2>1, <2>4
    <3>2. q[i + 1].op = "set" \/ Rejected(d, q, i + 1)
      BY <2>1, <3>1 DEF QueueFits
    <3> QED BY <1>2, <3>2
  <2> QED BY <2>3, <2>4
<1>4. ASSUME NEW i \in DOMAIN Tail(q), Tail(q)[i].op = "prestador"
      PROVE  Past(e, Tail(q), i)
  <2>1. i \in Nat /\ i + 1 \in DOMAIN q /\ q[i + 1].op = "prestador"
    BY <1>2, <1>4
  <2>2. Past(d, q, i + 1)
    BY <2>1 DEF QueueFits
  <2>3. Past(e, Tail(q), (i + 1) - 1)
    BY <2>1, <2>2, PastTail
  <2>4. (i + 1) - 1 = i
    BY <2>1
  <2> QED BY <2>3, <2>4
<1>5. QueueFits(e, Tail(q))
  BY <1>1, <1>3, <1>4 DEF QueueFits
<1>6. ASSUME Unfinished(d, q) PROVE Unfinished(e, Tail(q))
  <2>1. e \in {None, NewDoc}
    BY <1>2, <1>6, FirstWrite, DocumentsDiffer DEF Unfinished, Rejected
  <2>2. \A i \in DOMAIN Tail(q) :
           Tail(q)[i].op = "set" \/ Rejected(e, Tail(q), i)
    BY <1>2, <1>6 DEF Unfinished
  <2> QED BY <2>1, <2>2 DEF Unfinished
<1>7. ASSUME Finished(d, q) PROVE Finished(e, Tail(q))
  <2>1. /\ Len(q) \in Nat /\ Len(Tail(q)) = Len(q) - 1
    BY TailOfWrites
  <2>2. Past(e, Tail(q), (Len(q) + 1) - 1)
    BY <1>7, <2>1, PastTail DEF Finished
  <2>3. (Len(q) + 1) - 1 = Len(Tail(q)) + 1
    BY <2>1
  <2> QED BY <2>2, <2>3 DEF Finished
<1>8. ASSUME HasSet(q) PROVE HasSet(Tail(q)) \/ e # None
  <2>1. PICK k \in DOMAIN q : q[k].op = "set"
    BY <1>8 DEF HasSet
  <2>2. CASE k = 1
    <3>1. Head(q).op = "set"
      BY <1>2, <2>1, <2>2
    <3>2. e = NewDoc
      BY <3>1, StoredIs
    <3> QED BY <3>2, DocumentsDiffer
  <2>3. CASE k # 1
    <3>1. k - 1 \in DOMAIN Tail(q) /\ Tail(q)[k - 1] = q[k]
      BY <2>3, TailOfWrites
    <3> QED BY <2>1, <3>1 DEF HasSet
  <2> QED BY <2>2, <2>3
<1> QED BY <1>1, <1>5, <1>6, <1>7, <1>8

\* One more write at the end of a queue, position by position.
LEMMA AppendedWrite ==
    ASSUME NEW q \in Seq(Write), NEW w \in Write
    PROVE  LET r == Append(q, w)
               n == Len(q) + 1
           IN  /\ r \in Seq(Write) /\ Len(r) = n /\ n \in Nat
               /\ \A i \in DOMAIN r : i \in DOMAIN q \/ i = n
               /\ n \in DOMAIN r /\ r[n] = w
               /\ \A i \in DOMAIN q :
                     i \in Nat /\ i < n /\ ~(n < i) /\ i \in DOMAIN r /\ r[i] = q[i]
OBVIOUS

\* It changes nothing for the writes before it.
LEMMA AppendedKeeps ==
    ASSUME NEW d, NEW q \in Seq(Write), NEW w \in Write
    PROVE  LET r == Append(q, w)
           IN  /\ \A i \in DOMAIN q : Rejected(d, r, i) <=> Rejected(d, q, i)
               /\ \A m : Past(d, q, m) => Past(d, r, m)
<1> DEFINE r == Append(q, w)
           n == Len(q) + 1
<1>1. /\ \A i \in DOMAIN r : i \in DOMAIN q \/ i = n
      /\ \A i \in DOMAIN q : i < n /\ i \in DOMAIN r /\ r[i] = q[i]
  BY AppendedWrite
<1> HIDE DEF r, n
<1>2. ASSUME NEW i \in DOMAIN q PROVE Rejected(d, r, i) <=> Rejected(d, q, i)
  <2>1. (\A k \in DOMAIN r : r[k].op = "set" => i < k)
          <=> (\A k \in DOMAIN q : q[k].op = "set" => i < k)
    BY <1>1
  <2> QED BY <1>1, <2>1 DEF Rejected
<1>3. ASSUME NEW m, Past(d, q, m) PROVE Past(d, r, m)
  BY <1>1, <1>2, <1>3 DEF Past
<1> QED BY <1>2, <1>3 DEF r

\* When the application may queue each of its writes.
LEMMA AppendFits ==
    ASSUME NEW d, NEW q \in Seq(Write), NEW w \in Write, QueueFits(d, q),
           \/ w.op = "set" /\ Unfinished(d, q)
           \/ w.op = "onboard"
           \/ w.op = "prestador" /\ Finished(d, q)
    PROVE  LET r == Append(q, w)
           IN  /\ QueueFits(d, r)
               /\ w.op = "set" => Unfinished(d, r) /\ HasSet(r)
               /\ Finished(d, q) => Finished(d, r)
               /\ HasSet(q) => HasSet(r)
<1> DEFINE r == Append(q, w)
           n == Len(q) + 1
<1>1. /\ \A i \in DOMAIN r : i \in DOMAIN q \/ i = n
      /\ n \in DOMAIN r /\ r[n] = w
      /\ \A i \in DOMAIN q : i < n /\ ~(n < i) /\ i \in DOMAIN r /\ r[i] = q[i]
  BY AppendedWrite
<1>2. /\ \A i \in DOMAIN q : Rejected(d, r, i) <=> Rejected(d, q, i)
      /\ \A m : Past(d, q, m) => Past(d, r, m)
  BY AppendedKeeps
<1>3. Len(r) + 1 = n + 1 /\ n \in Nat /\ \A i \in DOMAIN q : i \in Nat
  BY AppendedWrite
<1> HIDE DEF r
<1>4. ~(n < n)
  BY <1>3
<1>5. Finished(d, q) => Past(d, r, n)
  BY <1>2 DEF Finished
<1> HIDE DEF n
<1>6. ASSUME NEW j \in DOMAIN r, r[j].op = "set"
      PROVE  /\ d \in {None, NewDoc}
             /\ \A i \in DOMAIN r : i < j => r[i].op = "set" \/ Rejected(d, r, i)
  <2>1. CASE j \in DOMAIN q
    BY <1>1, <1>2, <1>6, <2>1 DEF QueueFits
  <2>2. CASE j = n
    <3>1. Unfinished(d, q)
      BY <1>1, <1>6, <2>2
    <3> QED BY <1>1, <1>2, <1>4, <2>2, <3>1 DEF Unfinished
  <2> QED BY <1>1, <2>1, <2>2
<1>7. ASSUME NEW i \in DOMAIN r, r[i].op = "prestador" PROVE Past(d, r, i)
  <2>1. CASE i \in DOMAIN q
    BY <1>1, <1>2, <1>7, <2>1 DEF QueueFits
  <2>2. CASE i = n
    BY <1>1, <1>5, <1>7, <2>2
  <2> QED BY <1>1, <2>1, <2>2
<1>8. QueueFits(d, r)
  BY <1>6, <1>7 DEF QueueFits
<1>9. w.op = "set" => Unfinished(d, r) /\ HasSet(r)
  BY <1>1, <1>2 DEF Unfinished, HasSet
<1>10. ASSUME Finished(d, q) PROVE Finished(d, r)
  <2>1. \A j \in DOMAIN r : j < n => j < n + 1
    BY <1>1, <1>3
  <2>2. Past(d, r, n + 1)
    BY <1>5, <1>10, <2>1 DEF Past
  <2> QED BY <1>3, <2>2 DEF Finished
<1>11. HasSet(q) => HasSet(r)
  BY <1>1 DEF HasSet
<1> QED BY <1>8, <1>9, <1>10, <1>11 DEF r

\* A restart only takes the callbacks away.
LEMMA SameOpsFit ==
    ASSUME NEW d, NEW q, NEW r, DOMAIN r = DOMAIN q,
           \A i \in DOMAIN q : r[i].op = q[i].op, QueueFits(d, q)
    PROVE  QueueFits(d, r)
<1>1. \A i \in DOMAIN q : Rejected(d, r, i) <=> Rejected(d, q, i)
  BY DEF Rejected
<1>2. \A i \in DOMAIN q : Past(d, q, i) => Past(d, r, i)
  BY <1>1 DEF Past
<1> QED BY <1>1, <1>2 DEF QueueFits

----------------------------------------------------------------------------
(* The stages of an account *)

\* No account's queue takes it back.
QueuesFit == \A a \in Accounts : QueueFits(docs[a], writes[a])

\* What a read tells about the queue.
LEMMA ViewFits ==
    ASSUME TypeOK, OwnWrites, QueuesFit, NEW a \in Accounts
    PROVE  /\ View(a) = None => docs[a] = None
           /\ View(a) # None => docs[a] # None \/ HasSet(writes[a])
           /\ a = fbUser /\ View(a) = None => Unfinished(docs[a], writes[a])
           /\ a = fbUser /\ View(a) # None /\ View(a).onboarding =>
                 Finished(docs[a], writes[a])
<1> DEFINE q == writes[a]
           d == docs[a]
<1>1. /\ q \in Seq(Write) /\ QueueFits(d, q) /\ d \in Maybe(Doc)
      /\ fbUser \in Maybe(Accounts)
  BY DEF TypeOK, QueuesFit, Maybe
<1>2. \A i \in DOMAIN q : i \in Nat /\ i < Len(q) + 1
                          /\ q[i].op \in {"set", "onboard", "prestador"}
  <2>1. \A i \in DOMAIN q : i \in Nat /\ i < Len(q) + 1 /\ q[i] \in Write
    BY <1>1
  <2> QED BY <2>1 DEF Write
<1>3. \A op : Queued(a, op) # {} => a = fbUser
  BY <1>1 DEF Queued, OwnWrites
<1>4. a = fbUser => \A op : Queued(a, op) = {i \in DOMAIN q : q[i].op = op}
  BY <1>1 DEF Queued, OwnWrites
<1> HIDE DEF q, d
<1>5. Queued(a, "set") # {} => a = fbUser /\ HasSet(q)
  BY <1>3, <1>4 DEF HasSet
<1>6. Queued(a, "set") # {} => View(a) # None
  <2>1. [onboarding |-> QueuedAfterSet(a, "onboard"),
         prestador  |-> QueuedAfterSet(a, "prestador")] \in Doc
    BY DEF Doc, QueuedAfterSet
  <2> QED BY <2>1, NoneAssumption DEF View
<1>7. View(a) = None => d = None /\ Queued(a, "set") = {}
  <2>1. [onboarding |-> docs[a].onboarding \/ QueuedAfterSet(a, "onboard"),
         prestador  |-> docs[a].prestador \/ QueuedAfterSet(a, "prestador")] \in Doc
    BY DEF Doc, QueuedAfterSet
  <2> QED BY <1>6, <2>1, NoneAssumption DEF View, d
<1>8. ASSUME View(a) # None PROVE d # None \/ HasSet(q)
  BY <1>5, <1>8 DEF View, d
<1>9. ASSUME a = fbUser, View(a) = None PROVE Unfinished(d, q)
  <2>1. d = None /\ \A i \in DOMAIN q : q[i].op # "set"
    BY <1>4, <1>7, <1>9
  <2>2. \A i \in DOMAIN q : q[i].op = "onboard" => Rejected(d, q, i)
    BY <2>1 DEF Rejected
  <2>3. \A i \in DOMAIN q : ~Past(d, q, i)
    BY <2>1, <2>2, DocumentsDiffer DEF Past
  <2>4. \A i \in DOMAIN q : q[i].op # "prestador"
    BY <1>1, <2>3 DEF QueueFits
  <2> QED BY <1>2, <2>1, <2>2, <2>4 DEF Unfinished
<1>10. ASSUME a = fbUser, View(a) # None, View(a).onboarding PROVE Finished(d, q)
  <2>1. CASE QueuedAfterSet(a, "onboard") /\ (HasSet(q) \/ d # None)
    <3>1. PICK i \in DOMAIN q :
             q[i].op = "onboard" /\ \A j \in DOMAIN q : q[j].op = "set" => j < i
      BY <1>4, <1>10, <2>1 DEF QueuedAfterSet
    <3>2. \A j \in DOMAIN q : j < i => ~(i < j)
      BY <1>2
    <3>3. ~Rejected(d, q, i)
      BY <2>1, <3>1, <3>2 DEF Rejected, HasSet
    <3> QED BY <1>2, <3>1, <3>3 DEF Finished, Past
  <2>2. CASE d # None /\ d.onboarding
    <3>1. d \in {Onboarded, Prestador}
      BY <1>1, <2>2, DocumentsDiffer DEF QueueFits, Documents
    <3> QED BY <3>1 DEF Finished, Past
  <2>3. QueuedAfterSet(a, "onboard") \/ (d # None /\ d.onboarding)
    <3>1. CASE Queued(a, "set") # {}
      BY <1>10, <3>1 DEF View
    <3>2. CASE Queued(a, "set") = {} /\ d # None
      BY <1>10, <3>2 DEF View, d
    <3> QED BY <1>10, <3>1, <3>2 DEF View, d
  <2> QED BY <1>8, <1>10, <2>1, <2>2, <2>3
<1> QED BY <1>7, <1>8, <1>9, <1>10 DEF q, d

\* No MainScreen is in the navigator.
NoMain == \A id \in MainIds : ~Mounted(id, stack)

\* The MainScreen id is the only route.
Alone(id) == stack = <<[name |-> "main", id |-> id]>>

\* signInWithGoogle is running.
Busy(t) == taps[t].pc \in {"chooser", "credential", "get", "got"}

\* Account a has an acknowledged document.
IsStored(a) == a # None /\ docs[a] # None

\* Every running fetchData asks for such a document.
AllStored == \A id \in MainIds : mains[id].pc = "sent" => docs[mains[id].uid] # None

\* The signed-in account may still fill in RegisterScreen.
MayRegister == fbUser # None /\ Unfinished(docs[fbUser], writes[fbUser])

\* RegisterScreen is up, or about to be, only for such an account.
RegisterFits ==
    /\ On("register") => MayRegister
    /\ \A id \in MainIds : mains[id].pc = "toRegister" => MayRegister
    /\ \A t \in Taps : taps[t].pc = "got" /\ taps[t].found = None => MayRegister

\* The tabs are shown of an account that has done the introduction.
ReadyFits ==
    \A id \in MainIds : mains[id].pc = "ready" =>
        Finished(docs[mains[id].uid], writes[mains[id].uid])

\* A document that signInWithGoogle has found is stored or will be.
FoundFits ==
    \A t \in Taps : taps[t].pc = "got" /\ taps[t].found # None =>
        docs[taps[t].acct] # None \/ HasSet(writes[taps[t].acct])

\* A fetchData whose document is not stored yet asks for the signed-in account:
\* its screen is alone, or an answer has put another in its place.
SentFits ==
    \A id \in MainIds : mains[id].pc = "sent" /\ docs[mains[id].uid] = None =>
        /\ mains[id].uid = fbUser
        /\ Alone(id) \/ (Launched /\ NoMain /\ ~On("login"))
        /\ \/ HasSet(writes[mains[id].uid])
           \/ Alone(id) /\ \A o \in MainIds \ {id} : mains[o].pc = "free"

\* While signInWithGoogle runs no such fetchData does; and its account is stored
\* unless the sign-in is alone with the session.
TapFits ==
    \A t \in Taps : Busy(t) =>
        /\ AllStored
        /\ \/ /\ NoMain /\ ~signingOut
              /\ taps[t].pc \in {"get", "got"} => fbUser = googleUser
           \/ IsStored(googleUser)

\* Nor while a sign-out is on its way.
SignOutFits == signingOut => AllStored

\* A MainScreen in the navigator has a State, and only MainScreens are covered
\* by other routes.
MainsBelow ==
    \A i \in DOMAIN stack : /\ stack[i].name = "main" => stack[i].id \in MainIds
                            /\ i < Len(stack) => stack[i].name = "main"

\* The inductive invariant: what the theorems above show, ...
SessionInv ==
    /\ TypeOK /\ AuthSynced /\ SignInIdentity /\ OwnWrites
    /\ SettledInv /\ MountedIsMine

\* ... and the stages.
StageInv ==
    /\ QueuesFit /\ RegisterFits /\ ReadyFits /\ FoundFits
    /\ SentFits /\ TapFits /\ SignOutFits /\ MainsBelow

\* Events are served in order, nobody is deleted, signing out does not fail, and
\* one sign-in runs at a time.
OneAtATime ==
    /\ Prompt /\ ~Deletions /\ "signOut" \notin Faults
    /\ \A s, t \in Taps : s = t

----------------------------------------------------------------------------
(* What the steps do to screens and queues *)

\* dispose() frees States and changes nothing else.
LEMMA DisposedIs ==
    ASSUME NEW ms, NEW stk, NEW id \in MainIds
    PROVE  Disposed(ms, stk)[id] \in {Free, ms[id]}
BY DEF Disposed

\* A new MainScreen takes a free State.
LEMMA Pushed ==
    ASSUME TypeOK, NEW below, NEW u, ShowMain(below, u)
    PROVE  \E id \in MainIds :
              /\ mains[id].pc = "free"
              /\ stack' = Append(below, [name |-> "main", id |-> id])
              /\ mains'[id] \in {Free, FetchStarted(u)}
              /\ \A o \in MainIds : o # id => mains'[o] \in {Free, mains[o]}
<1>1. PICK id \in MainIds :
         /\ mains[id].pc = "free"
         /\ stack' = Append(below, [name |-> "main", id |-> id])
         /\ mains' = Disposed([mains EXCEPT ![id] = FetchStarted(u)], stack')
  BY DEF ShowMain
<1> DEFINE ms == [mains EXCEPT ![id] = FetchStarted(u)]
<1>2. ms[id] = FetchStarted(u) /\ \A o \in MainIds : o # id => ms[o] = mains[o]
  BY DEF TypeOK
<1> HIDE DEF ms
<1>3. \A o \in MainIds : mains'[o] \in {Free, ms[o]}
  BY <1>1, DisposedIs DEF ms
<1> QED BY <1>1, <1>2, <1>3

\* fetchData of a new MainScreen asks for the user's document.
LEMMA FetchStartedIs ==
    /\ Free.pc = "free"
    /\ FetchStarted(None).pc = "stuck"
    /\ \A u : u # None => /\ FetchStarted(u).pc = "sent"
                          /\ FetchStarted(u).uid = u.uid
BY DEF FetchStarted, Free

\* The acknowledgement of a write is about the signed-in account.
LEMMA AcknowledgeIs ==
    ASSUME TypeOK, OwnWrites, QueuesFit, Acknowledge
    PROVE  LET q == writes[fbUser]
               e == Stored(docs[fbUser], Head(q).op)
           IN  /\ fbUser \in Accounts /\ fbUser # None
               /\ q \in Seq(Write) /\ q # <<>> /\ QueueFits(docs[fbUser], q)
               /\ docs' = [docs EXCEPT ![fbUser] = e]
               /\ writes' = [writes EXCEPT ![fbUser] = Tail(q)]
               /\ \/ UNCHANGED screenVars
                  \/ /\ ShowMain(Below, user)
                     /\ 1 \in DOMAIN q /\ q[1].live /\ e # None
<1> DEFINE q == writes[fbUser]
           w == Head(q)
<1>1. q \in Seq(Write) /\ q # <<>> /\ 1 \in DOMAIN q /\ w = q[1] /\ w \in Write
  BY DEF TypeOK, Acknowledge
<1>2. w.uid = fbUser /\ fbUser \in Accounts /\ fbUser # None
  <2>1. w.uid = fbUser
    BY <1>1 DEF OwnWrites, TypeOK
  <2>2. w.uid \in Accounts
    BY <1>1 DEF Write
  <2> QED BY <2>1, <2>2, NoneAssumption
<1>3. QueueFits(docs[fbUser], q)
  BY <1>2 DEF QueuesFit
<1>4. /\ docs' = [docs EXCEPT ![w.uid] = Stored(@, w.op)]
      /\ writes' = [writes EXCEPT ![fbUser] = Tail(@)]
      /\ \/ UNCHANGED screenVars
         \/ ShowMain(Below, user) /\ w.live /\ (w.op = "set" \/ docs[w.uid] # None)
  BY DEF Acknowledge, OffNamedMain
<1>5. docs' = [docs EXCEPT ![fbUser] = Stored(docs[fbUser], w.op)]
  BY <1>2, <1>4
<1>6. writes' = [writes EXCEPT ![fbUser] = Tail(q)]
  BY <1>4
<1>7. w.op = "set" \/ docs[fbUser] # None => Stored(docs[fbUser], w.op) # None
  BY <1>1, <1>3, FirstWriteFits, StoredIs, DocumentsDiffer
<1> QED BY <1>1, <1>2, <1>3, <1>4, <1>5, <1>6, <1>7

\* The MainScreen on top is in the navigator.
LEMMA TopIsMounted ==
    ASSUME TypeOK, MainsBelow, On("main")
    PROVE  Top.id \in MainIds /\ Mounted(Top.id, stack)
<1>1. stack \in Seq(Screen) /\ stack # <<>> /\ stack[Len(stack)].name = "main"
  BY DEF TypeOK, On, Launched, Top
<1>2. Len(stack) \in DOMAIN stack
  BY <1>1
<1> QED BY <1>1, <1>2 DEF MainsBelow, Mounted, Top

\* What the application queues, it may queue.
LEMMA EnqueueIs ==
    ASSUME Prompt, SessionInv, StageInv,
           Register \/ onOnboardingComplete \/ convertToPrestador
    PROVE  /\ fbUser \in Accounts
           /\ \E w \in Write :
                 /\ writes' = [writes EXCEPT ![fbUser] = Append(writes[fbUser], w)]
                 /\ \/ /\ Register /\ w.op = "set"
                       /\ Unfinished(docs[fbUser], writes[fbUser])
                    \/ onOnboardingComplete /\ w.op = "onboard"
                    \/ /\ convertToPrestador /\ w.op = "prestador"
                       /\ Finished(docs[fbUser], writes[fbUser])
<1> USE DEF SessionInv
<1>1. fbUser \in Maybe(Accounts) /\ authEvents = <<>>
  BY DEF TypeOK, Register, onOnboardingComplete, convertToPrestador, Gesture, Quiet
<1>2. user # None => user.uid = fbUser /\ user.uid \in Accounts
  <2>1. user # None => user.uid = fbUser /\ user \in AppUser
    BY <1>1, SyncedUser DEF Maybe
  <2> QED BY <2>1 DEF AppUser
<1>3. fbUser \in Accounts
  <2>1. fbUser # None \/ user # None
    BY DEF Register, onOnboardingComplete, convertToPrestador
  <2> QED BY <1>1, <1>2, <2>1 DEF Maybe
<1>4. \A op \in {"set", "onboard", "prestador"} :
         [op |-> op, uid |-> fbUser, live |-> TRUE] \in Write
  BY <1>3 DEF Write
<1>5. \A op : Enqueue(op, fbUser) =>
         writes' = [writes EXCEPT ![fbUser] = Append(writes[fbUser],
                       [op |-> op, uid |-> fbUser, live |-> TRUE])]
  BY DEF Enqueue
<1>6. CASE Register
  <2>1. Enqueue("set", fbUser) /\ On("register")
    BY <1>2, <1>6 DEF Register
  <2>2. Unfinished(docs[fbUser], writes[fbUser])
    BY <2>1 DEF StageInv, RegisterFits, MayRegister
  <2> DEFINE w == [op |-> "set", uid |-> fbUser, live |-> TRUE]
  <2>3. w \in Write /\ w.op = "set"
    BY <1>4
  <2>4. writes' = [writes EXCEPT ![fbUser] = Append(writes[fbUser], w)]
    BY <1>5, <2>1
  <2> HIDE DEF w
  <2> QED BY <1>3, <1>6, <2>2, <2>3, <2>4
<1>7. CASE onOnboardingComplete
  <2>1. Enqueue("onboard", fbUser)
    BY <1>2, <1>7 DEF onOnboardingComplete
  <2> DEFINE w == [op |-> "onboard", uid |-> fbUser, live |-> TRUE]
  <2>2. w \in Write /\ w.op = "onboard"
    BY <1>4
  <2>3. writes' = [writes EXCEPT ![fbUser] = Append(writes[fbUser], w)]
    BY <1>5, <2>1
  <2> HIDE DEF w
  <2> QED BY <1>3, <1>7, <2>2, <2>3
<1>8. CASE convertToPrestador
  <2>1. Enqueue("prestador", fbUser) /\ On("main") /\ mains[Top.id].pc = "ready"
    BY <1>8 DEF convertToPrestador, OnTab, MainUsable
  <2>2. Top.id \in MainIds /\ Mounted(Top.id, stack)
    BY <2>1, TopIsMounted DEF StageInv
  <2>3. mains[Top.id].uid = fbUser
    BY <2>1, <2>2 DEF MountedIsMine, IsMine
  <2>4. Finished(docs[fbUser], writes[fbUser])
    BY <2>1, <2>2, <2>3 DEF StageInv, ReadyFits
  <2> DEFINE w == [op |-> "prestador", uid |-> fbUser, live |-> TRUE]
  <2>5. w \in Write /\ w.op = "prestador"
    BY <1>4
  <2>6. writes' = [writes EXCEPT ![fbUser] = Append(writes[fbUser], w)]
    BY <1>5, <2>1
  <2> HIDE DEF w
  <2> QED BY <1>3, <1>8, <2>4, <2>5, <2>6
<1> QED BY <1>6, <1>7, <1>8

\* What changes documents and queues.
LEMMA ServerSteps ==
    ASSUME ~Deletions, [Next]_vars
    PROVE  /\ \/ UNCHANGED <<docs, writes>>
              \/ Restart \/ Acknowledge
              \/ Register \/ onOnboardingComplete \/ convertToPrestador
           /\ Acknowledge \/ docs' = docs
<1>1. CASE \E t \in Taps : SignIn(t)
  BY <1>1 DEF SignIn, SignInTap, ChooseAccount, CancelChooser, Authenticated,
     SignInFails, UserDocRead, SignedInRegistered, SignedInUnregistered, WelcomeGone
<1>2. CASE \E id \in MainIds : MainScreen(id)
  BY <1>2 DEF MainScreen, Fetched, FetchFails, Redirect, serverVars
<1>3. CASE Register \/ onOnboardingComplete \/ convertToPrestador \/ Restart
  BY <1>3 DEF Register, onOnboardingComplete, convertToPrestador, Restart
<1> QED
  BY <1>1, <1>2, <1>3 DEF Next, vars, Launch, DeliverAuthEvent, setPage,
     OpenCategory, LeaveCategory, SignOutTap, SignedOut, SignOutFails,
     deleteAllUsersWithCampo, serverVars

\* No step takes an account back, as its queue will leave it.
LEMMA ServerKept ==
    ASSUME OneAtATime, SessionInv, StageInv, [Next]_vars, NEW a \in Accounts
    PROVE  /\ QueueFits(docs'[a], writes'[a])
           /\ docs[a] # None => docs'[a] # None
           /\ ~Restart =>
              /\ Finished(docs[a], writes[a]) => Finished(docs'[a], writes'[a])
              /\ HasSet(writes[a]) => HasSet(writes'[a]) \/ docs'[a] # None
              /\ ~onOnboardingComplete /\ ~convertToPrestador
                    /\ Unfinished(docs[a], writes[a]) => Unfinished(docs'[a], writes'[a])
           /\ Register /\ a = fbUser => HasSet(writes'[a])
<1>1. /\ docs \in [Accounts -> Maybe(Doc)] /\ writes \in [Maybe(Accounts) -> Seq(Write)]
      /\ a \in Maybe(Accounts) /\ writes[a] \in Seq(Write)
      /\ QueueFits(docs[a], writes[a]) /\ Prompt /\ ~Deletions
  BY DEF SessionInv, TypeOK, StageInv, QueuesFit, Maybe, OneAtATime
<1>2. CASE UNCHANGED <<docs, writes>> /\ ~Register
  BY <1>1, <1>2
<1>3. CASE Restart
  <2>1. docs' = docs /\ ~Register
    BY <1>3 DEF Restart, Register, Launched
  <2>2. writes'[a] = [i \in DOMAIN writes[a] |-> [writes[a][i] EXCEPT !.live = FALSE]]
    BY <1>1, <1>3 DEF Restart
  <2>3. \A i \in DOMAIN writes[a] : writes[a][i] \in Write
    BY <1>1
  <2>4. \A w \in Write : [w EXCEPT !.live = FALSE].op = w.op
    BY DEF Write
  <2>5. DOMAIN writes'[a] = DOMAIN writes[a]
        /\ \A i \in DOMAIN writes[a] : writes'[a][i].op = writes[a][i].op
    BY <2>2, <2>3, <2>4
  <2> QED BY <1>1, <1>3, <2>1, <2>5, SameOpsFit
<1>4. CASE Acknowledge
  <2> DEFINE q == writes[fbUser]
             e == Stored(docs[fbUser], Head(q).op)
  <2>1. /\ fbUser \in Accounts /\ q \in Seq(Write) /\ q # <<>>
        /\ QueueFits(docs[fbUser], q)
        /\ docs' = [docs EXCEPT ![fbUser] = e]
        /\ writes' = [writes EXCEPT ![fbUser] = Tail(q)]
    BY <1>4, AcknowledgeIs DEF SessionInv, StageInv
  <2>2. /\ QueueFits(e, Tail(q))
        /\ Unfinished(docs[fbUser], q) => Unfinished(e, Tail(q))
        /\ Finished(docs[fbUser], q) => Finished(e, Tail(q))
        /\ HasSet(q) => HasSet(Tail(q)) \/ e # None
        /\ docs[fbUser] # None => e # None
    BY <2>1, FirstWriteFits
  <2>3. ~Register
    <3>1. Register => writes'[fbUser] = Append(q, [op |-> "set", uid |-> user.uid, live |-> TRUE])
      BY <1>1, <2>1 DEF Register, Enqueue, Maybe
    <3>2. writes'[fbUser] = Tail(q)
      BY <1>1, <2>1 DEF Maybe
    <3>3. \A x : Len(Append(q, x)) # Len(Tail(q))
      BY <2>1
    <3> QED BY <3>1, <3>2, <3>3
  <2> HIDE DEF q, e
  <2>4. CASE a = fbUser
    <3>1. docs'[a] = e /\ writes'[a] = Tail(q) /\ writes[a] = q
      BY <1>1, <2>1, <2>4 DEF q
    <3> QED BY <2>2, <2>3, <2>4, <3>1
  <2>5. CASE a # fbUser
    <3>1. docs'[a] = docs[a] /\ writes'[a] = writes[a]
      BY <1>1, <2>1, <2>5
    <3> QED BY <1>1, <2>3, <3>1
  <2> QED BY <2>4, <2>5
<1>5. CASE Register \/ onOnboardingComplete \/ convertToPrestador
  <2>1. PICK w \in Write :
           /\ writes' = [writes EXCEPT ![fbUser] = Append(writes[fbUser], w)]
           /\ \/ /\ Register /\ w.op = "set"
                 /\ Unfinished(docs[fbUser], writes[fbUser])
              \/ onOnboardingComplete /\ w.op = "onboard"
              \/ /\ convertToPrestador /\ w.op = "prestador"
                 /\ Finished(docs[fbUser], writes[fbUser])
    BY <1>1, <1>5, EnqueueIs
  <2>2. docs' = docs
    BY <1>5 DEF Register, onOnboardingComplete, convertToPrestador
  <2>3. Register => ~onOnboardingComplete /\ ~convertToPrestador
    BY DEF Register, onOnboardingComplete, convertToPrestador, OnTab, MainUsable, On
  <2>4. CASE a = fbUser
    <3> DEFINE r == Append(writes[a], w)
    <3>1. writes'[a] = r
      BY <1>1, <2>1, <2>4
    <3>2. /\ QueueFits(docs[a], r)
          /\ w.op = "set" => Unfinished(docs[a], r) /\ HasSet(r)
          /\ Finished(docs[a], writes[a]) => Finished(docs[a], r)
          /\ HasSet(writes[a]) => HasSet(r)
      BY <1>1, <2>1, <2>4, AppendFits
    <3> HIDE DEF r
    <3> QED BY <2>1, <2>2, <2>3, <3>1, <3>2
  <2>5. CASE a # fbUser
    <3>1. writes'[a] = writes[a]
      BY <1>1, <2>1, <2>5
    <3> QED BY <1>1, <2>2, <2>5, <3>1
  <2> QED BY <2>4, <2>5
<1> QED BY <1>1, <1>2, <1>3, <1>4, <1>5, ServerSteps

\* How a fetchData comes to ask, to redirect to RegisterScreen, to show tabs.
LEMMA MainSteps ==
    ASSUME OneAtATime, SessionInv, StageInv, [Next]_vars, NEW id \in MainIds,
           mains'[id].pc \in {"sent", "toRegister", "ready"}
    PROVE  \/ mains'[id] = mains[id]
           \/ /\ mains'[id].pc = "toRegister" /\ Fetched(id)
              /\ View(mains[id].uid) = None
           \/ /\ mains'[id].pc = "ready" /\ Fetched(id) /\ Mounted(id, stack)
              /\ mains'[id].uid = mains[id].uid
              /\ View(mains[id].uid) # None /\ View(mains[id].uid).onboarding
           \/ /\ mains'[id].pc = "sent" /\ mains'[id].uid = fbUser
              /\ fbUser # None /\ fbUser' = fbUser
              /\ \/ Launch /\ ShowMain(<<>>, user)
                 \/ \E t \in Taps : SignedInRegistered(t) /\ ShowMain(<<>>, user')
                 \/ Acknowledge /\ ShowMain(Below, user)
<1> DEFINE P == {"sent", "toRegister", "ready"}
<1>1. Prompt /\ TypeOK /\ AuthSynced /\ BeforeLaunch
  BY DEF OneAtATime, SessionInv, SettledInv
<1>2. Free.pc \notin P /\ mains'[id] # Free
  BY FetchStartedIs
<1>3. ASSUME NEW stk, mains' = Disposed(mains, stk) PROVE mains'[id] = mains[id]
  BY <1>2, <1>3, DisposedIs
<1>4. ASSUME NEW below, NEW u, ShowMain(below, u)
      PROVE  mains'[id] = mains[id] \/ (mains'[id] = FetchStarted(u) /\ u # None)
  BY <1>1, <1>2, <1>4, Pushed, FetchStartedIs
<1>5. ASSUME NEW u \in Maybe(AppUser), u # None, u.uid = fbUser, mains'[id] = FetchStarted(u)
      PROVE  mains'[id].pc = "sent" /\ mains'[id].uid = fbUser /\ fbUser # None
  <2>1. u.uid \in Accounts
    BY <1>5 DEF AppUser, Maybe
  <2> QED BY <1>5, <2>1, FetchStartedIs, NoneAssumption
<1>6. authEvents = <<>> => user \in Maybe(AppUser) /\ (user # None => user.uid = fbUser)
  BY <1>1, SyncedUser
<1>7. CASE Launch
  <2>1. CASE user = None
    <3>1. mains' = Disposed(mains, <<Route("login")>>)
      BY <1>7, <2>1 DEF Launch, Show
    <3> QED BY <1>3, <3>1
  <2>2. CASE user # None
    <3>1. ShowMain(<<>>, user) /\ fbUser' = fbUser /\ authEvents = <<>>
      BY <1>1, <1>7, <2>2 DEF Launch, BeforeLaunch
    <3> QED BY <1>4, <1>5, <1>6, <1>7, <3>1
  <2> QED BY <2>1, <2>2
<1>8. CASE Restart
  BY <1>2, <1>8 DEF Restart
<1>9. ASSUME NEW t \in Taps, SignIn(t)
      PROVE  \/ mains'[id] = mains[id]
             \/ /\ mains'[id].pc = "sent" /\ mains'[id].uid = fbUser
                /\ fbUser # None /\ fbUser' = fbUser
                /\ SignedInRegistered(t) /\ ShowMain(<<>>, user')
  <2>1. CASE SignedInRegistered(t)
    <3>1. CASE fbUser = None
      BY <2>1, <3>1 DEF SignedInRegistered
    <3>2. CASE fbUser # None
      <4>1. /\ user' = fromJson(taps[t].acct) /\ ShowMain(<<>>, user')
            /\ fbUser' = fbUser
        BY <2>1, <3>2 DEF SignedInRegistered
      <4>2. user' # None => user' \in Maybe(AppUser) /\ user'.uid = fbUser
        <5>1. user'.uid = fbUser
          BY <4>1 DEF fromJson
        <5>2. TypeOK'
          BY <1>1, NextType
        <5> QED BY <5>1, <5>2 DEF TypeOK
      <4> QED BY <1>4, <1>5, <2>1, <4>1, <4>2
    <3> QED BY <3>1, <3>2
  <2>2. CASE SignedInUnregistered(t)
    <3>1. mains' = Disposed(mains, <<Route("register")>>)
      BY <2>2 DEF SignedInUnregistered, OffAllNamed, Show
    <3> QED BY <1>3, <3>1
  <2>3. CASE mains' = mains
    BY <2>3
  <2> QED
    BY <1>9, <2>1, <2>2, <2>3 DEF SignIn, SignInTap, ChooseAccount, CancelChooser,
       Authenticated, SignInFails, UserDocRead, WelcomeGone
<1>10. CASE Acknowledge
  <2>1. authEvents = <<>> /\ fbUser' = fbUser
        /\ (UNCHANGED screenVars \/ ShowMain(Below, user))
    BY <1>1, <1>10 DEF Acknowledge, OffNamedMain, Quiet, authVars
  <2>2. CASE ShowMain(Below, user)
    BY <1>4, <1>5, <1>6, <1>10, <2>1, <2>2
  <2>3. CASE UNCHANGED screenVars
    BY <2>3 DEF screenVars
  <2> QED BY <2>1, <2>2, <2>3
<1>11. ASSUME NEW o \in MainIds, MainScreen(o)
       PROVE  \/ mains'[id] = mains[id]
              \/ /\ mains'[id].pc = "toRegister" /\ Fetched(id)
                 /\ View(mains[id].uid) = None
              \/ /\ mains'[id].pc = "ready" /\ Fetched(id) /\ Mounted(id, stack)
                 /\ mains'[id].uid = mains[id].uid
                 /\ View(mains[id].uid) # None /\ View(mains[id].uid).onboarding
  <2>1. CASE Fetched(o)
    <3>1. CASE o # id
      BY <1>1, <2>1, <3>1 DEF Fetched, TypeOK
    <3>2. CASE o = id
      <4> DEFINE d == View(mains[id].uid)
                 m == [mains[id] EXCEPT !.data = d]
                 x == IF d = None THEN [m EXCEPT !.pc = "toRegister"]
                      ELSE IF ~d.onboarding THEN [m EXCEPT !.pc = "toOnboarding"]
                      ELSE IF Mounted(id, stack) THEN [m EXCEPT !.pc = "ready"]
                      ELSE Free
      <4>1. mains' = [mains EXCEPT ![id] = x] /\ mains \in [MainIds -> Main]
        BY <1>1, <2>1, <3>2 DEF Fetched, TypeOK
      <4>2. mains[id] \in Main /\ mains'[id] = x
        BY <4>1
      <4> HIDE DEF d
      <4>3. /\ [m EXCEPT !.pc = "toRegister"].pc = "toRegister"
            /\ [m EXCEPT !.pc = "toOnboarding"].pc = "toOnboarding"
            /\ [m EXCEPT !.pc = "ready"].pc = "ready"
            /\ [m EXCEPT !.pc = "ready"].uid = mains[id].uid
        BY <4>2 DEF Main
      <4> HIDE DEF m
      <4> QED BY <1>2, <2>1, <3>2, <4>2, <4>3 DEF d
    <3> QED BY <3>1, <3>2
  <2>2. CASE FetchFails(o) \/ Redirect(o)
    <3> DEFINE ms == [mains EXCEPT ![o].pc = "stuck"]
    <3>1. \E stk : mains' = Disposed(ms, stk)
      BY <2>2 DEF FetchFails, Redirect
    <3>2. ms[o].pc = "stuck" /\ (id # o => ms[id] = mains[id])
      BY <1>1 DEF TypeOK, Main
    <3> HIDE DEF ms
    <3>3. mains'[id] = ms[id]
      BY <1>2, <3>1, DisposedIs
    <3> QED BY <3>2, <3>3
  <2> QED BY <1>11, <2>1, <2>2 DEF MainScreen
<1>12. CASE LeaveCategory \/ SignOutTap \/ SignedOut
  <2>1. \E stk : mains' = Disposed(mains, stk)
    BY <1>12 DEF LeaveCategory, SignOutTap, SignedOut, OffAllNamed, Show
  <2> QED BY <1>3, <2>1
<1>13. CASE mains' = mains
  BY <1>13
<1> QED
  BY <1>7, <1>8, <1>9, <1>10, <1>11, <1>12, <1>13 DEF Next, vars, DeliverAuthEvent,
     Register, onOnboardingComplete, setPage, OpenCategory, convertToPrestador,
     SignOutFails, deleteAllUsersWithCampo

\* The name on top of a new stack.
LEMMA NewTop ==
    ASSUME NEW s \in Seq(Screen), NEW x, stack' = Append(s, x) \/ stack' = <<x>>,
           NEW n, On(n)'
    PROVE  x.name = n
<1>1. Append(s, x)[Len(Append(s, x))] = x
  OBVIOUS
<1>2. <<x>>[Len(<<x>>)] = x
  OBVIOUS
<1> QED BY <1>1, <1>2 DEF On, Top

\* Every step keeps the routes so.
LEMMA NextMainsBelow ==
    ASSUME SessionInv, MainsBelow, [Next]_vars
    PROVE  MainsBelow'
<1>1. TypeOK /\ RoutesFit /\ BeforeLaunch
  BY DEF SessionInv, SettledInv
<1>2. ASSUME NEW s \in Seq(Screen), NEW x, x.name = "main" => x.id \in MainIds,
             stack' = Append(s, x), \A i \in DOMAIN s : s[i].name = "main" /\ s[i].id \in MainIds
      PROVE  MainsBelow'
  <2>1. /\ Len(Append(s, x)) = Len(s) + 1
        /\ \A i \in DOMAIN Append(s, x) :
              \/ i \in DOMAIN s /\ Append(s, x)[i] = s[i]
              \/ i = Len(s) + 1 /\ Append(s, x)[i] = x /\ ~(i < Len(s) + 1)
    OBVIOUS
  <2> QED BY <1>2, <2>1 DEF MainsBelow
<1>3. <<>> \in Seq(Screen) /\ DOMAIN <<>> = {} /\ \A x : <<x>> = Append(<<>>, x)
  OBVIOUS
<1>4. Launched => /\ Below \in Seq(Screen)
                  /\ \A i \in DOMAIN Below : Below[i].name = "main" /\ Below[i].id \in MainIds
  BY <1>1, BelowIs DEF MainsBelow
<1>5. ~Launched => Below \in Seq(Screen) /\ DOMAIN Below = {}
  <2> SUFFICES ASSUME stack = <<>> PROVE Below \in Seq(Screen) /\ DOMAIN Below = {}
    BY DEF Launched
  <2>1. Below = <<>>
    BY DEF Below
  <2> QED BY <1>3, <2>1
<1>6. \A n : Route(n).name = n
  BY DEF Route
<1>7. CASE stack' = stack
  BY <1>7 DEF MainsBelow
<1>8. CASE stack' = <<>>
  BY <1>3, <1>8 DEF MainsBelow
<1>9. ASSUME NEW n \in {"login", "register"}, stack' = <<Route(n)>> PROVE MainsBelow'
  BY <1>2, <1>3, <1>6, <1>9
<1>10. ASSUME NEW below \in {<<>>, Below}, NEW id \in MainIds,
              stack' = Append(below, [name |-> "main", id |-> id])
       PROVE  MainsBelow'
  <2> DEFINE x == [name |-> "main", id |-> id]
  <2>1. x.id \in MainIds
    OBVIOUS
  <2> HIDE DEF x
  <2>2. below \in Seq(Screen)
        /\ \A i \in DOMAIN below : below[i].name = "main" /\ below[i].id \in MainIds
    BY <1>3, <1>4, <1>5
  <2> QED BY <1>2, <1>10, <2>1, <2>2 DEF x
<1>11. ASSUME NEW n \in {"register", "onboarding"}, stack' = Append(Below, Route(n))
       PROVE  MainsBelow'
  BY <1>2, <1>4, <1>5, <1>6, <1>11
<1>12. CASE On("main") /\ stack' = Append(stack, Route("selection"))
  <2>1. stack \in Seq(Screen) /\ stack # <<>> /\ stack[Len(stack)].name = "main"
    BY <1>1, <1>12 DEF TypeOK, On, Launched, Top
  <2>2. \A i \in DOMAIN stack : i < Len(stack) \/ i = Len(stack)
    BY <2>1
  <2>3. \A i \in DOMAIN stack : stack[i].name = "main" /\ stack[i].id \in MainIds
    BY <2>1, <2>2 DEF MainsBelow
  <2> QED BY <1>2, <1>6, <1>12, <2>1, <2>3
<1>13. CASE On("selection") /\ stack' = Below
  BY <1>4, <1>13 DEF On, MainsBelow
<1> QED
  BY <1>1, <1>7, <1>8, <1>9, <1>10, <1>11, <1>12, <1>13, StackSteps

\* Where the back arrow of CategorySelectionScreen leads.
LEMMA BelowSelection ==
    ASSUME SessionInv, MainsBelow, On("selection")
    PROVE  /\ Below # <<>> /\ Below[Len(Below)].name = "main"
           /\ ~NoMain
<1>1. TypeOK /\ RoutesFit /\ Launched /\ stack[Len(stack)].name = "selection"
  BY DEF SessionInv, SettledInv, On, Top
<1> DEFINE n == Len(stack)
           k == Len(Below)
<1>2. /\ n \in Nat \ {0} /\ DOMAIN stack = 1..n /\ Below \in Seq(Screen) /\ k = n - 1
      /\ \A i \in DOMAIN Below : i \in DOMAIN stack /\ i < n /\ Below[i] = stack[i]
  BY <1>1, BelowIs
<1>3. n \in DOMAIN stack
  <2> HIDE DEF n
  <2> QED BY <1>2
<1>4. n # 1
  BY <1>1, <1>3 DEF RoutesFit
<1>5. k \in DOMAIN Below /\ Below # <<>>
  <2>1. k \in Nat /\ k # 0
    <3> HIDE DEF n, k
    <3> QED BY <1>2, <1>4
  <2> QED BY <1>2, <2>1
<1>6. k \in DOMAIN stack /\ stack[k].name = "main" /\ stack[k].id \in MainIds
      /\ Below[k] = stack[k]
  BY <1>2, <1>5 DEF MainsBelow
<1> QED BY <1>5, <1>6 DEF NoMain, Mounted

\* How RegisterScreen comes up.
LEMMA RegisterSteps ==
    ASSUME SessionInv, MainsBelow, [Next]_vars, On("register")'
    PROVE  \/ On("register") /\ stack' = stack
           \/ \E id \in MainIds : Redirect(id) /\ mains[id].pc = "toRegister"
           \/ \E t \in Taps : SignedInUnregistered(t)
<1>1. TypeOK /\ <<>> \in Seq(Screen) /\ Below \in Seq(Screen) /\ stack \in Seq(Screen)
  BY BelowType DEF SessionInv, TypeOK
<1>2. ASSUME NEW below, NEW u, below \in Seq(Screen), ShowMain(below, u) PROVE FALSE
  <2>1. PICK id \in MainIds : stack' = Append(below, [name |-> "main", id |-> id])
    BY <1>2 DEF ShowMain
  <2>2. [name |-> "main", id |-> id].name = "main"
    OBVIOUS
  <2>3. [name |-> "main", id |-> id].name = "register"
    BY <1>2, <2>1, NewTop
  <2> QED BY <2>2, <2>3
<1>3. ASSUME NEW n, n # "register", NEW s \in Seq(Screen),
             stack' = <<Route(n)>> \/ stack' = Append(s, Route(n))
      PROVE  FALSE
  <2>1. Route(n).name = n
    BY DEF Route
  <2>2. Route(n).name = "register"
    BY <1>3, NewTop
  <2> QED BY <1>3, <2>1, <2>2
<1>4. CASE stack' = stack
  BY <1>4 DEF On, Launched, Top
<1>5. CASE Launch
  BY <1>1, <1>2, <1>3, <1>5 DEF Launch, Show
<1>6. CASE Restart
  BY <1>6 DEF Restart, On, Launched
<1>7. ASSUME NEW t \in Taps, SignIn(t)
      PROVE  stack' = stack \/ SignedInUnregistered(t)
  BY <1>1, <1>2, <1>7 DEF SignIn, SignInTap, ChooseAccount, CancelChooser, Authenticated,
     SignInFails, UserDocRead, SignedInRegistered, WelcomeGone
<1>8. CASE Acknowledge
  <2>1. UNCHANGED screenVars \/ ShowMain(Below, user)
    BY <1>8 DEF Acknowledge, OffNamedMain
  <2> QED BY <1>1, <1>2, <1>4, <2>1 DEF screenVars
<1>9. ASSUME NEW id \in MainIds, MainScreen(id)
      PROVE  stack' = stack \/ (Redirect(id) /\ mains[id].pc = "toRegister")
  <2>1. CASE Redirect(id) /\ mains[id].pc # "toRegister"
    BY <1>1, <1>3, <2>1 DEF Redirect
  <2> QED BY <1>9, <2>1 DEF MainScreen, Fetched, FetchFails
<1>10. CASE OpenCategory \/ SignOutTap \/ SignedOut
  BY <1>1, <1>3, <1>10 DEF OpenCategory, SignOutTap, SignedOut, OffAllNamed, Show
<1>11. CASE LeaveCategory
  <2>1. stack' = Below /\ On("selection")
    BY <1>11 DEF LeaveCategory, Show
  <2>2. Below[Len(Below)].name = "main"
    BY <2>1, BelowSelection
  <2> QED BY <2>1, <2>2 DEF On, Top
<1> QED
  BY <1>4, <1>5, <1>6, <1>7, <1>8, <1>9, <1>10, <1>11 DEF Next, vars,
     DeliverAuthEvent, Register, onOnboardingComplete, setPage, convertToPrestador,
     SignOutFails, deleteAllUsersWithCampo

\* How a MainScreen comes into a navigator without one.
LEMMA NoMainSteps ==
    ASSUME SessionInv, NoMain, [Next]_vars
    PROVE  \/ NoMain' \/ Launch
           \/ \E t \in Taps : SignedInRegistered(t)
           \/ Acknowledge /\ ShowMain(Below, user)
<1>1. TypeOK
  BY DEF SessionInv
<1>2. \A n \in Names : n # "main" =>
         /\ Within(stack, stack) /\ Within(Below, stack) /\ Within(<<>>, stack)
         /\ Within(<<Route(n)>>, stack) /\ Within(Append(Below, Route(n)), stack)
         /\ Within(Append(stack, Route(n)), stack)
  BY <1>1, WithinRoutes
<1>3. ASSUME Within(stack', stack) PROVE NoMain'
  BY <1>3 DEF NoMain, Within
<1>4. {"login", "register", "onboarding", "selection"} \subseteq Names
  BY DEF Names
<1>5. Within(stack, stack) /\ Within(Below, stack) /\ Within(<<>>, stack)
  BY <1>2, <1>4
<1>6. ASSUME stack' = stack PROVE NoMain'
  BY <1>3, <1>5, <1>6
<1>7. CASE Restart
  BY <1>3, <1>5, <1>7 DEF Restart
<1>8. ASSUME NEW t \in Taps, SignIn(t)
      PROVE  stack' = stack \/ SignedInRegistered(t) \/ NoMain'
  <2>1. CASE SignedInUnregistered(t)
    BY <1>2, <1>3, <1>4, <2>1 DEF SignedInUnregistered, OffAllNamed, Show
  <2> QED
    BY <1>8, <2>1 DEF SignIn, SignInTap, ChooseAccount, CancelChooser, Authenticated,
       SignInFails, UserDocRead, WelcomeGone
<1>9. CASE Acknowledge
  BY <1>6, <1>9 DEF Acknowledge, OffNamedMain, screenVars
<1>10. ASSUME NEW id \in MainIds, MainScreen(id) PROVE NoMain'
  <2>1. CASE Redirect(id)
    BY <1>2, <1>3, <1>4, <1>6, <2>1 DEF Redirect
  <2> QED BY <1>6, <1>10, <2>1 DEF MainScreen, Fetched, FetchFails
<1>11. CASE OpenCategory \/ LeaveCategory \/ SignOutTap \/ SignedOut
  BY <1>2, <1>3, <1>4, <1>11 DEF OpenCategory, LeaveCategory, SignOutTap, SignedOut,
     OffAllNamed, Show
<1> QED
  BY <1>6, <1>7, <1>8, <1>9, <1>10, <1>11 DEF Next, vars, DeliverAuthEvent, Register,
     onOnboardingComplete, setPage, convertToPrestador, SignOutFails,
     deleteAllUsersWithCampo

\* How signInWithGoogle goes on, when it runs once at a time.
LEMMA TapSteps ==
    ASSUME OneAtATime, TypeOK, [Next]_vars, NEW t \in Taps, Busy(t)'
    PROVE  \/ taps' = taps /\ \A o \in Taps : ~SignIn(o)
           \/ SignInTap(t) /\ taps'[t].pc = "chooser"
           \/ ChooseAccount(t) /\ taps'[t].pc = "credential"
           \/ Authenticated(t) /\ taps'[t].pc = "get"
           \/ /\ UserDocRead(t) /\ taps'[t].pc = "got"
              /\ taps'[t].acct = taps[t].acct /\ taps'[t].found = View(taps[t].acct)
<1>1. taps \in [Taps -> Tap]
  BY DEF TypeOK
<1>2. CASE Restart
  BY <1>2 DEF Restart, Idle, Busy
<1>3. ASSUME NEW o \in Taps, SignIn(o)
      PROVE  \/ SignInTap(t) /\ taps'[t].pc = "chooser"
             \/ ChooseAccount(t) /\ taps'[t].pc = "credential"
             \/ Authenticated(t) /\ taps'[t].pc = "get"
             \/ /\ UserDocRead(t) /\ taps'[t].pc = "got"
                /\ taps'[t].acct = taps[t].acct /\ taps'[t].found = View(taps[t].acct)
  <2>1. o = t
    BY DEF OneAtATime
  <2>2. CASE SignInTap(t)
    BY <1>1, <2>2 DEF SignInTap, Tap
  <2>3. CASE ChooseAccount(t)
    BY <1>1, <2>3 DEF ChooseAccount, Tap
  <2>4. CASE Authenticated(t)
    BY <1>1, <2>4 DEF Authenticated, Tap
  <2>5. CASE UserDocRead(t)
    BY <1>1, <2>5 DEF UserDocRead, Tap
  <2>6. CASE \E r : Returned(t, r)
    <3>1. PICK r : Returned(t, r)
      BY <2>6
    <3>2. taps'[t] = Idle \/ taps'[t] = [Idle EXCEPT !.pc = "welcome", !.acct = r]
      BY <1>1, <3>1 DEF Returned
    <3>3. Idle.pc = "idle" /\ [Idle EXCEPT !.pc = "welcome", !.acct = r].pc = "welcome"
      BY DEF Idle
    <3> QED BY <3>2, <3>3 DEF Busy
  <2>7. CASE WelcomeGone(t)
    BY <1>1, <2>7 DEF WelcomeGone, Idle, Busy
  <2> QED
    BY <1>3, <2>1, <2>2, <2>3, <2>4, <2>5, <2>6, <2>7 DEF SignIn, CancelChooser,
       SignInFails, SignedInRegistered, SignedInUnregistered
<1> QED
  BY <1>2, <1>3 DEF Next, vars, Launch, DeliverAuthEvent, Register,
     onOnboardingComplete, Acknowledge, MainScreen, Fetched, FetchFails, Redirect,
     setPage, OpenCategory, LeaveCategory, convertToPrestador, SignOutTap, SignedOut,
     SignOutFails, deleteAllUsersWithCampo

\* What else a step may change while something waits to be served.
LEMMA NotQuiet ==
    ASSUME OneAtATime, [Next]_vars, ~Restart, ~Quiet
    PROVE  UNCHANGED <<docs, writes, fbUser, signingOut>>
<1> USE DEF OneAtATime
<1>1. CASE \E t \in Taps : SignIn(t)
  BY <1>1 DEF SignIn, SignInTap, Gesture, ChooseAccount, CancelChooser, Authenticated,
     SignInFails, UserDocRead, SignedInRegistered, SignedInUnregistered, WelcomeGone
<1>2. CASE \E id \in MainIds : MainScreen(id)
  BY <1>2 DEF MainScreen, Fetched, FetchFails, Redirect, serverVars, authVars
<1> QED
  BY <1>1, <1>2 DEF Next, vars, Launch, DeliverAuthEvent, Register, Gesture,
     onOnboardingComplete, Acknowledge, setPage, OpenCategory, LeaveCategory,
     convertToPrestador, SignOutTap, SignedOut, SignOutFails,
     deleteAllUsersWithCampo

\* Whose the session is.
LEMMA UserSteps ==
    ASSUME [Next]_vars
    PROVE  fbUser' = fbUser \/ (\E t \in Taps : Authenticated(t)) \/ SignedOut
BY SessionSteps DEF Restart, DeliverAuthEvent, SignedInRegistered

----------------------------------------------------------------------------
(* Every step keeps the stages *)

\* RegisterScreen stays up for whoever may fill it in, and comes up for nobody
\* else.
LEMMA NextRegisterFits ==
    ASSUME OneAtATime, SessionInv, StageInv, [Next]_vars
    PROVE  RegisterFits'
<1>1. /\ TypeOK /\ OwnWrites /\ QueuesFit /\ RegisterFits /\ SentFits /\ TapFits
      /\ MainsBelow /\ SigningInIsSettled /\ SignInIdentity /\ Prompt
  BY DEF SessionInv, StageInv, SettledInv, OneAtATime
<1>2. fbUser # None => fbUser \in Accounts
  BY <1>1 DEF TypeOK, Maybe
<1>3. ASSUME MayRegister, ~Quiet, ~Restart PROVE MayRegister'
  <2>1. UNCHANGED <<docs, writes, fbUser>>
    BY <1>3, NotQuiet
  <2> QED BY <1>3, <2>1 DEF MayRegister
<1>4. ASSUME On("register")' PROVE MayRegister'
  <2>1. CASE On("register") /\ stack' = stack
    <3>1. MayRegister
      BY <1>1, <2>1 DEF RegisterFits
    <3>2. stack # <<>> /\ stack[Len(stack)].name = "register"
      BY <2>1 DEF On, Launched, Top
    <3>3. ~Restart /\ ~onOnboardingComplete /\ ~convertToPrestador
      BY <2>1, <3>2 DEF Restart, onOnboardingComplete, convertToPrestador, OnTab,
         MainUsable, On, Top
    <3>4. <<Route("login")>>[Len(<<Route("login")>>)].name = "login"
      BY DEF Route
    <3>5. ~SignedOut
      BY <2>1, <3>2, <3>4 DEF SignedOut, OffAllNamed, Show
    <3>6. ASSUME NEW t \in Taps, Authenticated(t) PROVE fbUser' = fbUser
      <4>1. taps[t].pc = "credential" /\ fbUser' = taps[t].acct
        BY <3>6 DEF Authenticated, SetFbUser
      <4>2. taps[t].acct = googleUser /\ Settled
        BY <1>1, <4>1 DEF SignInIdentity, SigningInIsSettled
      <4>3. ~Fresh
        BY <3>2, <3>4 DEF Fresh
      <4> QED BY <3>1, <4>1, <4>2, <4>3 DEF Settled, MayRegister
    <3>7. fbUser' = fbUser
      BY <3>5, <3>6, UserSteps
    <3>8. Unfinished(docs'[fbUser], writes'[fbUser])
      BY <1>2, <3>1, <3>3, ServerKept DEF MayRegister
    <3> QED BY <3>1, <3>7, <3>8 DEF MayRegister
  <2>2. ASSUME NEW id \in MainIds, Redirect(id), mains[id].pc = "toRegister"
        PROVE  MayRegister'
    <3>1. MayRegister /\ ~Quiet
      BY <1>1, <2>2 DEF RegisterFits, Quiet
    <3>2. docs' = docs /\ writes' = writes /\ fbUser' = fbUser
      BY <2>2 DEF Redirect, serverVars, authVars
    <3> QED BY <3>1, <3>2 DEF MayRegister
  <2>3. ASSUME NEW t \in Taps, SignedInUnregistered(t) PROVE MayRegister'
    <3>1. MayRegister
      BY <1>1, <2>3 DEF SignedInUnregistered, RegisterFits
    <3>2. docs' = docs /\ writes' = writes /\ fbUser' = fbUser
      BY <2>3 DEF SignedInUnregistered
    <3> QED BY <3>1, <3>2 DEF MayRegister
  <2> QED BY <1>1, <1>4, <2>1, <2>2, <2>3, RegisterSteps
<1>5. ASSUME NEW id \in MainIds, mains'[id].pc = "toRegister" PROVE MayRegister'
  <2>1. CASE mains'[id] = mains[id]
    <3>1. MayRegister /\ ~Quiet
      BY <1>1, <1>5, <2>1 DEF RegisterFits, Quiet
    <3>2. ~Restart
      BY <1>5, FetchStartedIs DEF Restart
    <3> QED BY <1>3, <3>1, <3>2
  <2>2. CASE Fetched(id) /\ View(mains[id].uid) = None
    <3>1. mains[id].pc = "sent" /\ docs' = docs /\ writes' = writes /\ fbUser' = fbUser
      BY <2>2 DEF Fetched, serverVars, authVars
    <3>2. mains[id].uid \in Accounts
      BY <1>1, <3>1 DEF TypeOK, Main, Maybe
    <3>3. docs[mains[id].uid] = None
      BY <1>1, <2>2, <3>2, ViewFits
    <3>4. mains[id].uid = fbUser
      BY <1>1, <3>1, <3>3 DEF SentFits
    <3>5. MayRegister
      BY <1>1, <2>2, <3>2, <3>4, ViewFits, NoneAssumption DEF MayRegister
    <3> QED BY <3>1, <3>5 DEF MayRegister
  <2> QED BY <1>5, <2>1, <2>2, MainSteps
<1>6. ASSUME NEW t \in Taps, taps'[t].pc = "got", taps'[t].found = None
      PROVE  MayRegister'
  <2>1. CASE taps' = taps
    <3>1. MayRegister /\ ~Quiet
      BY <1>1, <1>6, <2>1 DEF RegisterFits, Quiet
    <3>2. ~Restart
      BY <1>6 DEF Restart, Idle
    <3> QED BY <1>3, <3>1, <3>2
  <2>2. CASE UserDocRead(t) /\ taps'[t].found = View(taps[t].acct)
    <3>1. taps[t].pc = "get" /\ docs' = docs /\ writes' = writes /\ fbUser' = fbUser
      BY <2>2 DEF UserDocRead
    <3>2. taps[t].acct \in Accounts
      BY <1>1, <3>1 DEF TypeOK, Tap, Maybe
    <3>3. View(taps[t].acct) = None /\ docs[taps[t].acct] = None
      BY <1>1, <1>6, <2>2, <3>2, ViewFits
    <3>4. taps[t].acct = googleUser
      BY <1>1, <3>1 DEF SignInIdentity
    <3>5. fbUser = googleUser
      BY <1>1, <3>1, <3>3, <3>4 DEF TapFits, Busy, IsStored
    <3>6. MayRegister
      BY <1>1, <3>2, <3>3, <3>4, <3>5, ViewFits, NoneAssumption DEF MayRegister
    <3> QED BY <3>1, <3>6 DEF MayRegister
  <2>3. Busy(t)'
    BY <1>6 DEF Busy
  <2> QED BY <1>1, <1>6, <2>1, <2>2, <2>3, TapSteps
<1> QED BY <1>4, <1>5, <1>6 DEF RegisterFits

\* The tabs are shown when the introduction is done, and it stays done.
LEMMA NextReadyFits ==
    ASSUME OneAtATime, SessionInv, StageInv, [Next]_vars
    PROVE  ReadyFits'
<1>1. TypeOK /\ OwnWrites /\ QueuesFit /\ ReadyFits /\ MountedIsMine /\ TypeOK'
  BY NextType DEF SessionInv, StageInv
<1> SUFFICES ASSUME NEW id \in MainIds, mains'[id].pc = "ready"
             PROVE  Finished(docs'[mains'[id].uid], writes'[mains'[id].uid])
  BY DEF ReadyFits
<1>2. mains'[id].uid \in Accounts
  BY <1>1 DEF TypeOK, Main, Maybe
<1>3. ~Restart
  BY FetchStartedIs DEF Restart
<1>4. CASE mains'[id] = mains[id]
  BY <1>1, <1>2, <1>3, <1>4, ServerKept DEF ReadyFits
<1>5. CASE /\ Fetched(id) /\ Mounted(id, stack)
           /\ mains'[id].uid = mains[id].uid
           /\ View(mains[id].uid) # None /\ View(mains[id].uid).onboarding
  <2>1. mains[id].pc = "sent" /\ docs' = docs /\ writes' = writes
    BY <1>5 DEF Fetched, serverVars
  <2>2. mains[id].uid = fbUser
    BY <1>1, <1>5, <2>1 DEF MountedIsMine, IsMine
  <2>3. Finished(docs[mains[id].uid], writes[mains[id].uid])
    BY <1>1, <1>2, <1>5, <2>2, ViewFits
  <2> QED BY <1>5, <2>1, <2>3
<1> QED BY <1>4, <1>5, MainSteps

\* What signInWithGoogle found does not go away before it goes on.
LEMMA NextFoundFits ==
    ASSUME OneAtATime, SessionInv, StageInv, [Next]_vars
    PROVE  FoundFits'
<1>1. TypeOK /\ OwnWrites /\ QueuesFit /\ FoundFits /\ Prompt
  BY DEF SessionInv, StageInv, OneAtATime
<1> SUFFICES ASSUME NEW t \in Taps, taps'[t].pc = "got", taps'[t].found # None
             PROVE  docs'[taps'[t].acct] # None \/ HasSet(writes'[taps'[t].acct])
  BY DEF FoundFits
<1>2. CASE taps' = taps
  <2>1. ~Quiet
    BY <1>1, <1>2 DEF Quiet
  <2>2. ~Restart
    BY DEF Restart, Idle
  <2>3. docs' = docs /\ writes' = writes
    BY <2>1, <2>2, NotQuiet
  <2> QED BY <1>1, <1>2, <2>3 DEF FoundFits
<1>3. CASE /\ UserDocRead(t) /\ taps'[t].acct = taps[t].acct
           /\ taps'[t].found = View(taps[t].acct)
  <2>1. taps[t].pc = "get" /\ docs' = docs /\ writes' = writes
    BY <1>3 DEF UserDocRead
  <2>2. taps[t].acct \in Accounts
    BY <1>1, <2>1 DEF TypeOK, Tap, Maybe
  <2> QED BY <1>1, <1>3, <2>1, <2>2, ViewFits
<1>4. Busy(t)'
  BY DEF Busy
<1> QED BY <1>1, <1>2, <1>3, <1>4, TapSteps

\* The tabs are not shown while a fetchData asks for what is not stored.
LEMMA TabsAreStored ==
    ASSUME SessionInv, StageInv, NEW kind, OnTab(kind)
    PROVE  AllStored /\ ~NoMain
<1>1. TypeOK /\ MainsBelow /\ SentFits /\ On("main") /\ mains[Top.id].pc = "ready"
  BY DEF SessionInv, StageInv, OnTab, MainUsable
<1>2. Top.id \in MainIds /\ Mounted(Top.id, stack)
  BY <1>1, TopIsMounted
<1>3. ~NoMain
  BY <1>2 DEF NoMain
<1>4. ASSUME NEW id \in MainIds, mains[id].pc = "sent", docs[mains[id].uid] = None
      PROVE  FALSE
  <2>1. Alone(id)
    BY <1>1, <1>3, <1>4 DEF SentFits
  <2>2. \A x : <<x>>[Len(<<x>>)] = x
    OBVIOUS
  <2>3. Top = [name |-> "main", id |-> id]
    BY <2>1, <2>2 DEF Alone, Top
  <2>4. Top.id = id
    BY <2>3
  <2> QED BY <1>1, <1>4, <2>4
<1> QED BY <1>3, <1>4 DEF AllStored

\* A step starts a fetchData for what is not stored only at the launch or at
\* the end of a sign-in.
LEMMA AllStoredKept ==
    ASSUME OneAtATime, SessionInv, StageInv, [Next]_vars, AllStored
    PROVE  \/ AllStored' \/ Launch
           \/ \E t \in Taps : SignedInRegistered(t) /\ fbUser # None /\ docs[fbUser] = None
<1>1. TypeOK /\ OwnWrites /\ QueuesFit /\ TypeOK'
  BY NextType DEF SessionInv, StageInv
<1> SUFFICES ASSUME ~Launch, NEW id \in MainIds, mains'[id].pc = "sent",
                    docs'[mains'[id].uid] = None
             PROVE  \E t \in Taps : /\ SignedInRegistered(t)
                                    /\ fbUser # None /\ docs[fbUser] = None
  BY DEF AllStored
<1>2. mains'[id].uid \in Accounts
  BY <1>1 DEF TypeOK, Main, Maybe
<1>3. docs[mains'[id].uid] = None
  BY <1>2, ServerKept
<1>4. mains'[id] # mains[id]
  BY <1>3 DEF AllStored
<1>5. ~Acknowledge
  <2> SUFFICES ASSUME Acknowledge PROVE FALSE
    OBVIOUS
  <2>1. mains'[id].uid = fbUser
    BY <1>4, MainSteps
  <2>2. \/ UNCHANGED screenVars
        \/ docs'[fbUser] # None
    BY <1>1, AcknowledgeIs DEF TypeOK
  <2> QED BY <1>4, <2>1, <2>2 DEF screenVars
<1> QED BY <1>3, <1>4, <1>5, MainSteps

\* How a sign-out starts.
LEMMA SigningOutSteps ==
    ASSUME [Next]_vars
    PROVE  SignOutTap \/ SignedOut \/ SignOutFails \/ Restart \/ signingOut' = signingOut
<1>1. CASE \E t \in Taps : SignIn(t)
  BY <1>1 DEF SignIn, SignInTap, ChooseAccount, CancelChooser, Authenticated,
     SignInFails, UserDocRead, SignedInRegistered, SignedInUnregistered, WelcomeGone
<1>2. CASE \E id \in MainIds : MainScreen(id)
  BY <1>2 DEF MainScreen, Fetched, FetchFails, Redirect
<1> QED
  BY <1>1, <1>2 DEF Next, vars, Launch, DeliverAuthEvent, Register,
     onOnboardingComplete, Acknowledge, setPage, OpenCategory, LeaveCategory,
     convertToPrestador, deleteAllUsersWithCampo

\* A sign-out is started with the tabs.
LEMMA NextSignOutFits ==
    ASSUME OneAtATime, SessionInv, StageInv, [Next]_vars
    PROVE  SignOutFits'
<1>1. /\ TypeOK /\ BeforeLaunch /\ TapFits /\ SignInIdentity /\ SignOutFits
      /\ "signOut" \notin Faults
  BY DEF SessionInv, StageInv, SettledInv, OneAtATime
<1> SUFFICES ASSUME signingOut' PROVE AllStored'
  BY DEF SignOutFits
<1>2. CASE SignOutTap
  <2>1. AllStored /\ docs' = docs
    BY <1>2, TabsAreStored DEF SignOutTap, serverVars
  <2>2. mains' = Disposed(mains, <<Route("login")>>)
    BY <1>2 DEF SignOutTap, OffAllNamed, Show
  <2>3. \A id \in MainIds : mains'[id].pc = "sent" => mains'[id] = mains[id]
    BY <2>2, DisposedIs, FetchStartedIs
  <2> QED BY <2>1, <2>3 DEF AllStored
<1>3. CASE signingOut
  <2>1. AllStored /\ ~Launch
    BY <1>1, <1>3 DEF SignOutFits, BeforeLaunch, Launch
  <2>2. ASSUME NEW t \in Taps, SignedInRegistered(t), fbUser # None, docs[fbUser] = None
        PROVE  FALSE
    <3>1. taps[t].pc = "got"
      BY <2>2 DEF SignedInRegistered
    <3>2. IsStored(googleUser) /\ fbUser = googleUser
      BY <1>1, <1>3, <2>2, <3>1 DEF TapFits, Busy, SignInIdentity
    <3> QED BY <2>2, <3>2 DEF IsStored
  <2> QED BY <2>1, <2>2, AllStoredKept
<1>4. signingOut \/ SignOutTap
  BY <1>1, SigningOutSteps DEF SignedOut, SignOutFails, Restart
<1> QED BY <1>2, <1>3, <1>4

\* A sign-in starts without MainScreens and stays alone, or its account has
\* been stored.
LEMMA NextTapFits ==
    ASSUME OneAtATime, SessionInv, StageInv, [Next]_vars
    PROVE  TapFits'
<1>1. /\ TypeOK /\ OwnWrites /\ QueuesFit /\ BeforeLaunch /\ RoutesFit
      /\ SigningInIsSettled /\ SignInIdentity /\ TapFits /\ SentFits
      /\ Prompt /\ "signOut" \notin Faults
  BY DEF SessionInv, StageInv, SettledInv, OneAtATime
<1> SUFFICES ASSUME NEW t \in Taps, Busy(t)'
             PROVE  /\ AllStored'
                    /\ \/ /\ NoMain' /\ ~signingOut'
                          /\ taps'[t].pc \in {"get", "got"} => fbUser' = googleUser'
                       \/ IsStored(googleUser)'
  BY DEF TapFits
<1>2. CASE taps' = taps /\ \A o \in Taps : ~SignIn(o)
  <2>1. Busy(t)
    BY <1>2 DEF Busy
  <2>2. ~Launch /\ ~Restart /\ \A o \in Taps : ~SignedInRegistered(o) /\ ~Authenticated(o)
    <3>1. ~Launch
      BY <1>1, <2>1 DEF Launch, BeforeLaunch, Busy
    <3>2. ~Restart
      BY DEF Restart, Busy, Idle
    <3> QED BY <1>2, <3>1, <3>2 DEF SignIn
  <2>3. AllStored'
    BY <1>1, <2>1, <2>2, AllStoredKept DEF TapFits
  <2>4. googleUser' = googleUser
    BY <1>2, <2>2 DEF Next, vars, DeliverAuthEvent, Register, onOnboardingComplete,
       Acknowledge, MainScreen, Fetched, FetchFails, Redirect, setPage, OpenCategory,
       LeaveCategory, convertToPrestador, SignOutTap, SignedOut, SignOutFails,
       deleteAllUsersWithCampo, authVars
  <2>5. CASE IsStored(googleUser)
    <3>1. googleUser \in Accounts /\ googleUser # None /\ docs[googleUser] # None
      BY <1>1, <2>5 DEF IsStored, TypeOK, Maybe
    <3>2. docs'[googleUser] # None
      BY <3>1, ServerKept
    <3> QED BY <2>3, <2>4, <3>1, <3>2 DEF IsStored
  <2>6. CASE /\ NoMain /\ ~signingOut
             /\ taps[t].pc \in {"get", "got"} => fbUser = googleUser
    <3>1. ~SignOutTap /\ ~SignedOut
      BY <2>6, TabsAreStored DEF SignOutTap, SignedOut
    <3>2. ~signingOut' /\ fbUser' = fbUser
      <4>1. signingOut' = signingOut
        BY <1>1, <2>2, <3>1, SigningOutSteps DEF SignOutFails
      <4>2. fbUser' = fbUser
        BY <2>2, <3>1, UserSteps
      <4> QED BY <2>6, <4>1, <4>2
    <3>3. CASE NoMain'
      BY <1>2, <2>3, <2>4, <2>6, <3>2, <3>3
    <3>4. CASE ~NoMain'
      <4>1. Acknowledge
        BY <2>2, <2>6, <3>4, NoMainSteps
      <4> DEFINE q == writes[fbUser]
      <4>2. fbUser \in Accounts /\ fbUser # None
        BY <1>1, <4>1, AcknowledgeIs
      <4>3. ~UNCHANGED screenVars
        BY <2>6, <3>4 DEF NoMain, screenVars
      <4>4. 1 \in DOMAIN q /\ q[1].live /\ docs'[fbUser] # None
        BY <1>1, <4>1, <4>3, AcknowledgeIs DEF TypeOK
      <4>5. ~Fresh
        BY <4>2, <4>4 DEF Fresh, Maybe
      <4>6. fbUser = googleUser
        BY <1>1, <2>1, <4>2, <4>5 DEF SigningInIsSettled, Settled, Busy
      <4> QED BY <2>3, <2>4, <4>2, <4>4, <4>6 DEF IsStored
    <3> QED BY <3>3, <3>4
  <2> QED BY <1>1, <2>1, <2>5, <2>6 DEF TapFits
<1>3. CASE SignInTap(t) /\ taps'[t].pc = "chooser"
  <2>1. On("login") /\ ~signingOut /\ UNCHANGED <<docs, mains, stack, signingOut>>
    BY <1>1, <1>3 DEF SignInTap, Gesture
  <2>2. stack \in Seq(Screen) /\ stack # <<>> /\ stack[Len(stack)].name = "login"
    BY <1>1, <2>1 DEF TypeOK, On, Launched, Top
  <2>3. Len(stack) \in DOMAIN stack
    BY <2>2
  <2>4. Len(stack) = 1
    BY <1>1, <2>2, <2>3 DEF RoutesFit
  <2>5. \A i \in DOMAIN stack : stack[i].name = "login"
    BY <2>2, <2>4
  <2>6. NoMain
    BY <2>5 DEF NoMain, Mounted
  <2>7. AllStored
    <3> SUFFICES ASSUME NEW id \in MainIds, mains[id].pc = "sent",
                        docs[mains[id].uid] = None
                 PROVE  FALSE
      BY DEF AllStored
    <3>1. Alone(id)
      BY <1>1, <2>1 DEF SentFits
    <3>2. \A x : 1 \in DOMAIN <<x>> /\ <<x>>[1] = x
      OBVIOUS
    <3>3. [name |-> "main", id |-> id].name = "main"
      OBVIOUS
    <3> QED BY <2>5, <3>1, <3>2, <3>3 DEF Alone
  <2> QED BY <1>3, <2>1, <2>6, <2>7 DEF AllStored, NoMain
<1>4. CASE ChooseAccount(t) /\ taps'[t].pc = "credential"
  <2>1. /\ Busy(t) /\ UNCHANGED <<docs, mains, stack, signingOut>>
        /\ IsStored(googleUser) => googleUser' = googleUser
    BY <1>4 DEF ChooseAccount, Busy, IsStored
  <2>2. AllStored /\ ((NoMain /\ ~signingOut) \/ IsStored(googleUser))
    BY <1>1, <2>1 DEF TapFits
  <2> QED BY <1>4, <2>1, <2>2 DEF AllStored, NoMain, IsStored
<1>5. CASE Authenticated(t) /\ taps'[t].pc = "get"
  <2>1. /\ Busy(t) /\ UNCHANGED <<docs, mains, stack, signingOut, googleUser>>
        /\ fbUser' = taps[t].acct
    BY <1>5 DEF Authenticated, SetFbUser, Busy
  <2>2. taps[t].acct = googleUser
    BY <1>1, <1>5 DEF SignInIdentity, Authenticated
  <2>3. AllStored /\ ((NoMain /\ ~signingOut) \/ IsStored(googleUser))
    BY <1>1, <2>1 DEF TapFits
  <2> QED BY <2>1, <2>2, <2>3 DEF AllStored, NoMain, IsStored
<1>6. CASE UserDocRead(t) /\ taps'[t].pc = "got"
  <2>1. /\ Busy(t) /\ taps[t].pc = "get"
        /\ UNCHANGED <<docs, mains, stack, signingOut, googleUser, fbUser>>
    BY <1>6 DEF UserDocRead, Busy
  <2>2. AllStored /\ ((NoMain /\ ~signingOut /\ fbUser = googleUser) \/ IsStored(googleUser))
    BY <1>1, <2>1 DEF TapFits
  <2> QED BY <2>1, <2>2 DEF AllStored, NoMain, IsStored
<1> QED BY <1>1, <1>2, <1>3, <1>4, <1>5, <1>6, TapSteps

\* What a step of another fetchData leaves of the others.
LEMMA OtherMains ==
    ASSUME TypeOK, NEW o \in MainIds, MainScreen(o), NEW id \in MainIds, id # o
    PROVE  mains'[id] \in {Free, mains[id]}
<1>1. CASE Fetched(o)
  BY <1>1 DEF Fetched, TypeOK
<1>2. CASE FetchFails(o) \/ Redirect(o)
  <2> DEFINE ms == [mains EXCEPT ![o].pc = "stuck"]
  <2>1. \E stk : mains' = Disposed(ms, stk)
    BY <1>2 DEF FetchFails, Redirect
  <2>2. ms[id] = mains[id]
    BY DEF TypeOK
  <2> HIDE DEF ms
  <2> QED BY <2>1, <2>2, DisposedIs
<1> QED BY <1>1, <1>2 DEF MainScreen

\* A fetchData that asks for what is not stored keeps to the signed-in account.
LEMMA OldSentFits ==
    ASSUME OneAtATime, SessionInv, StageInv, [Next]_vars, NEW id \in MainIds,
           mains'[id] = mains[id], mains[id].pc = "sent", docs'[mains[id].uid] = None
    PROVE  /\ mains[id].uid = fbUser'
           /\ Alone(id)' \/ (Launched' /\ NoMain' /\ ~On("login")')
           /\ \/ HasSet(writes'[mains[id].uid])
              \/ Alone(id)' /\ \A o \in MainIds \ {id} : mains'[o].pc = "free"
<1> DEFINE a == mains[id].uid
<1>1. /\ TypeOK /\ OwnWrites /\ QueuesFit /\ BeforeLaunch /\ TapFits /\ SignOutFits
      /\ SentFits /\ MainsBelow /\ "signOut" \notin Faults /\ ~Deletions
  BY DEF SessionInv, StageInv, SettledInv, OneAtATime
<1>2. a \in Accounts
  BY <1>1 DEF TypeOK, Main, Maybe
<1>3. docs[a] = None
  BY <1>2, ServerKept
<1>4. /\ a = fbUser
      /\ Alone(id) \/ (Launched /\ NoMain /\ ~On("login"))
      /\ \/ HasSet(writes[a])
         \/ Alone(id) /\ \A o \in MainIds \ {id} : mains[o].pc = "free"
  BY <1>1, <1>3 DEF SentFits
<1>5. ~AllStored
  BY <1>3 DEF AllStored
<1>6. /\ ~signingOut /\ \A t \in Taps : ~Busy(t)
      /\ \A kind : ~OnTab(kind)
  BY <1>1, <1>5, TabsAreStored DEF TapFits, SignOutFits
<1>7. ~Launch /\ ~Restart
  <2>1. ~Launch
    BY <1>1 DEF Launch, BeforeLaunch, Fresh
  <2>2. ~Restart
    BY FetchStartedIs DEF Restart
  <2> QED BY <2>1, <2>2
<1>8. \A t \in Taps : /\ ~Authenticated(t)
                      /\ ~SignedInRegistered(t) /\ ~SignedInUnregistered(t)
  BY <1>6 DEF Busy, Authenticated, SignedInRegistered, SignedInUnregistered
<1>9. ~SignedOut /\ ~SignOutTap /\ ~OpenCategory /\ ~convertToPrestador
  BY <1>6 DEF SignedOut, SignOutTap, OpenCategory, convertToPrestador
<1>10. ~LeaveCategory
  <2> SUFFICES ASSUME On("selection") PROVE FALSE
    BY DEF LeaveCategory
  <2>1. Alone(id)
    BY <1>1, <1>4, BelowSelection
  <2>2. \A x : <<x>>[Len(<<x>>)] = x
    OBVIOUS
  <2>3. [name |-> "main", id |-> id].name = "main"
    OBVIOUS
  <2> QED BY <2>1, <2>2, <2>3 DEF Alone, On, Top
<1>11. fbUser' = fbUser
  BY <1>8, <1>9, UserSteps
<1>12. HasSet(writes[a]) => HasSet(writes'[a])
  BY <1>2, <1>7, ServerKept
<1>13. Acknowledge => UNCHANGED screenVars
  <2> SUFFICES ASSUME Acknowledge, ~UNCHANGED screenVars PROVE FALSE
    OBVIOUS
  <2>1. docs'[fbUser] # None
    BY <1>1, AcknowledgeIs DEF TypeOK
  <2> QED BY <1>4, <2>1
<1>14. UNCHANGED <<stack, mains>> \/ \E o \in MainIds : MainScreen(o)
  <2>1. CASE \E t \in Taps : SignIn(t)
    BY <1>8, <2>1 DEF SignIn, SignInTap, ChooseAccount, CancelChooser, SignInFails,
       UserDocRead, WelcomeGone
  <2> QED
    BY <1>1, <1>7, <1>9, <1>10, <1>13, <2>1 DEF Next, vars, DeliverAuthEvent,
       Register, onOnboardingComplete, setPage, SignOutFails,
       deleteAllUsersWithCampo, screenVars
<1>15. CASE UNCHANGED <<stack, mains>>
  <2>1. /\ Alone(id) => Alone(id)'
        /\ Launched /\ NoMain /\ ~On("login") => Launched' /\ NoMain' /\ ~On("login")'
    BY <1>15 DEF Alone, NoMain, Launched, On, Top
  <2> QED BY <1>4, <1>11, <1>12, <1>15, <2>1
<1>16. ASSUME NEW o \in MainIds, MainScreen(o)
       PROVE  /\ Alone(id)' \/ (Launched' /\ NoMain' /\ ~On("login")')
              /\ \/ HasSet(writes'[a])
                 \/ Alone(id)' /\ \A x \in MainIds \ {id} : mains'[x].pc = "free"
  <2>1. CASE stack' = stack
    <3>1. /\ Alone(id) => Alone(id)'
          /\ Launched /\ NoMain /\ ~On("login") => Launched' /\ NoMain' /\ ~On("login")'
      BY <2>1 DEF Alone, NoMain, Launched, On, Top
    <3>2. CASE HasSet(writes[a])
      BY <1>4, <1>12, <3>1, <3>2
    <3>3. CASE Alone(id) /\ \A x \in MainIds \ {id} : mains[x].pc = "free"
      <4>1. mains[o].pc # "free"
        BY <1>16 DEF MainScreen, Fetched, FetchFails, Redirect
      <4>2. o = id
        BY <3>3, <4>1
      <4>3. \A x \in MainIds \ {id} : mains'[x] \in {Free, mains[x]}
        BY <1>1, <1>16, <4>2, OtherMains
      <4> QED BY <3>1, <3>3, <4>3, FetchStartedIs
    <3> QED BY <1>4, <3>2, <3>3
  <2>2. CASE stack' # stack
    <3>1. PICK n \in {"register", "onboarding"} :
             /\ Redirect(o) /\ stack' = Append(Below, Route(n))
      BY <1>16, <2>2 DEF MainScreen, Fetched, FetchFails, Redirect
    <3>2. mains[o].pc # "free" /\ o # id
      BY <3>1 DEF Redirect
    <3>3. HasSet(writes'[a])
      BY <1>4, <1>12, <3>2
    <3>4. /\ Below \in Seq(Screen) /\ Append(Below, Route(n)) # <<>>
          /\ Route(n).name = n
      BY <1>1, BelowType DEF Route
    <3>5. Launched' /\ ~On("login")'
      BY <3>1, <3>4, NewTop DEF Launched
    <3>6. NoMain'
      <4>1. CASE NoMain
        <5>1. Within(Append(Below, Route(n)), stack)
          BY <1>1, WithinRoutes DEF Names
        <5> QED BY <3>1, <4>1, <5>1 DEF NoMain, Within
      <4>2. CASE Alone(id)
        <5>1. Len(stack) = 1 /\ Launched
          BY <4>2 DEF Alone, Launched
        <5>2. Len(Below) = 0
          BY <1>1, <5>1, BelowIs
        <5>3. \A i \in DOMAIN Append(Below, Route(n)) : Append(Below, Route(n))[i] = Route(n)
          BY <3>4, <5>2
        <5> QED BY <3>1, <3>4, <5>3 DEF NoMain, Mounted
      <4> QED BY <1>4, <4>1, <4>2
    <3> QED BY <3>3, <3>5, <3>6
  <2> QED BY <2>1, <2>2
<1> QED BY <1>4, <1>11, <1>14, <1>15, <1>16

\* The same of one that is new.
LEMMA NextSentFits ==
    ASSUME OneAtATime, SessionInv, StageInv, [Next]_vars
    PROVE  SentFits'
<1>1. /\ TypeOK /\ OwnWrites /\ QueuesFit /\ BeforeLaunch /\ TapFits /\ FoundFits
      /\ SignInIdentity
  BY DEF SessionInv, StageInv, SettledInv
<1> SUFFICES ASSUME NEW id \in MainIds, mains'[id].pc = "sent",
                    docs'[mains'[id].uid] = None
             PROVE  /\ mains'[id].uid = fbUser'
                    /\ Alone(id)' \/ (Launched' /\ NoMain' /\ ~On("login")')
                    /\ \/ HasSet(writes'[mains'[id].uid])
                       \/ Alone(id)' /\ \A o \in MainIds \ {id} : mains'[o].pc = "free"
  BY DEF SentFits
<1>2. CASE mains'[id] = mains[id]
  BY <1>2, OldSentFits
<1>3. CASE mains'[id] # mains[id]
  <2>1. /\ mains'[id].uid = fbUser /\ fbUser # None /\ fbUser' = fbUser
        /\ \/ Launch /\ ShowMain(<<>>, user)
           \/ \E t \in Taps : SignedInRegistered(t) /\ ShowMain(<<>>, user')
           \/ Acknowledge /\ ShowMain(Below, user)
    BY <1>3, MainSteps
  <2>2. \A x : Append(<<>>, x) = <<x>>
    OBVIOUS
  <2>3. ASSUME NEW u, ShowMain(<<>>, u)
        PROVE  Alone(id)' /\ \A o \in MainIds : o # id => mains'[o] \in {Free, mains[o]}
    <3>1. PICK k \in MainIds :
             /\ stack' = Append(<<>>, [name |-> "main", id |-> k])
             /\ \A o \in MainIds : o # k => mains'[o] \in {Free, mains[o]}
      BY <1>1, <2>3, Pushed
    <3>2. k = id
      BY <1>3, <3>1, FetchStartedIs
    <3> QED BY <2>2, <3>1, <3>2 DEF Alone
  <2>4. CASE Launch /\ ShowMain(<<>>, user)
    <3>1. \A o \in MainIds : mains[o].pc = "free"
      BY <1>1, <2>4 DEF Launch, BeforeLaunch, Fresh
    <3> QED BY <2>1, <2>3, <2>4, <3>1, FetchStartedIs
  <2>5. ASSUME NEW t \in Taps, SignedInRegistered(t), ShowMain(<<>>, user')
        PROVE  Alone(id)' /\ HasSet(writes'[fbUser])
    <3>1. /\ taps[t].pc = "got" /\ taps[t].found # None
          /\ docs' = docs /\ writes' = writes
      BY <2>5 DEF SignedInRegistered
    <3>2. taps[t].acct = fbUser
      BY <1>1, <2>1, <3>1 DEF SignInIdentity
    <3>3. HasSet(writes[fbUser])
      BY <1>1, <2>1, <3>1, <3>2 DEF FoundFits
    <3> QED BY <2>3, <2>5, <3>1, <3>3
  <2>6. ~Acknowledge
    <3> SUFFICES ASSUME Acknowledge PROVE FALSE
      OBVIOUS
    <3>1. UNCHANGED screenVars \/ docs'[fbUser] # None
      BY <1>1, AcknowledgeIs DEF TypeOK
    <3> QED BY <1>3, <2>1, <3>1 DEF screenVars
  <2> QED BY <2>1, <2>4, <2>5, <2>6
<1> QED BY <1>2, <1>3

\* StageInv is inductive.
LEMMA NextStageInv ==
    ASSUME OneAtATime, SessionInv, StageInv, [Next]_vars
    PROVE  StageInv'
<1>1. QueuesFit'
  BY ServerKept DEF QueuesFit
<1>2. MainsBelow'
  BY NextMainsBelow DEF StageInv
<1> QED
  BY <1>1, <1>2, NextRegisterFits, NextReadyFits, NextFoundFits, NextSentFits,
     NextTapFits, NextSignOutFits DEF StageInv

\* It holds initially.
LEMMA InitStageInv == Init => StageInv
<1> SUFFICES ASSUME Init PROVE StageInv
  OBVIOUS
<1>1. QueuesFit
  <2>1. \A a \in Accounts : docs[a] \in Documents /\ writes[a] = <<>>
    BY DEF Init, Documents, Maybe
  <2>2. DOMAIN <<>> = {}
    OBVIOUS
  <2> QED BY <2>1, <2>2 DEF QueuesFit, QueueFits
<1>2. \A id \in MainIds : mains[id].pc = "free"
  BY FetchStartedIs DEF Init
<1>3. \A t \in Taps : taps[t].pc = "idle"
  BY DEF Init, Idle
<1>4. \A n : ~On(n)
  BY DEF Init, On, Launched
<1>5. MainsBelow
  BY DEF Init, MainsBelow
<1>6. ~signingOut
  BY DEF Init
<1>7. RegisterFits /\ ReadyFits /\ FoundFits
  BY <1>2, <1>3, <1>4 DEF RegisterFits, ReadyFits, FoundFits
<1>8. SentFits /\ TapFits /\ SignOutFits
  BY <1>2, <1>3, <1>6 DEF SentFits, TapFits, Busy, SignOutFits
<1> QED BY <1>1, <1>5, <1>7, <1>8 DEF StageInv

----------------------------------------------------------------------------
(* The refinement *)

\* The stage of each document.
LEMMA StageIs ==
    /\ Stage(None) = "absent" /\ Stage(NewDoc) = "registered"
    /\ Stage(Onboarded) = "onboarded" /\ Stage(Prestador) = "prestador"
BY DocumentsDiffer DEF Stage

\* Every step is a step of the account's life, or none.
LEMMA StepsAdvance ==
    ASSUME OneAtATime, SessionInv, StageInv, [Next]_vars
    PROVE  [Lifecycle!Next]_[a \in Accounts |-> Stage(docs[a])]
<1> DEFINE S == [a \in Accounts |-> Stage(docs[a])]
           T == [a \in Accounts |-> Stage(docs'[a])]
<1>1. TypeOK /\ OwnWrites /\ QueuesFit /\ ~Deletions
  BY DEF OneAtATime, SessionInv, StageInv
<1>2. CASE docs' = docs
  BY <1>2
<1>3. CASE Acknowledge
  <2> DEFINE u == fbUser
             d == docs[fbUser]
             q == writes[fbUser]
             e == Stored(d, Head(q).op)
  <2>1. /\ u \in Accounts /\ q \in Seq(Write) /\ q # <<>> /\ QueueFits(d, q)
        /\ docs' = [docs EXCEPT ![u] = e]
    BY <1>1, <1>3, AcknowledgeIs
  <2>2. \/ d = e
        \/ d = None /\ e = NewDoc
        \/ d = NewDoc /\ e = Onboarded
        \/ d = Onboarded /\ e = Prestador
    BY <2>1, FirstWrite
  <2>3. docs'[u] = e /\ \A a \in Accounts : a # u => docs'[a] = docs[a]
    BY <1>1, <2>1 DEF TypeOK
  <2> HIDE DEF e, q
  <2>4. S[u] = Stage(d) /\ T = [S EXCEPT ![u] = Stage(e)]
    <3>1. S[u] = Stage(d)
      BY <2>1
    <3>2. \A a \in Accounts : T[a] = IF a = u THEN Stage(e) ELSE S[a]
      BY <2>3
    <3>3. T = [a \in Accounts |-> T[a]] /\ S = [a \in Accounts |-> S[a]]
      OBVIOUS
    <3> HIDE DEF S, T
    <3> QED BY <3>1, <3>2, <3>3
  <2>5. CASE d = e
    BY <2>3, <2>5
  <2>6. ASSUME NEW from, NEW to, Stage(d) = from, Stage(e) = to
        PROVE  S[u] = from /\ T = [S EXCEPT ![u] = to]
    BY <2>4, <2>6
  <2>7. CASE d = None /\ e = NewDoc
    <3>1. Lifecycle!Advance(u, "absent", "registered")
      BY <2>6, <2>7, StageIs DEF Lifecycle!Advance
    <3> QED BY <2>1, <3>1 DEF Lifecycle!Next
  <2>8. CASE d = NewDoc /\ e = Onboarded
    <3>1. Lifecycle!Advance(u, "registered", "onboarded")
      BY <2>6, <2>8, StageIs DEF Lifecycle!Advance
    <3> QED BY <2>1, <3>1 DEF Lifecycle!Next
  <2>9. CASE d = Onboarded /\ e = Prestador
    <3>1. Lifecycle!Advance(u, "onboarded", "prestador")
      BY <2>6, <2>9, StageIs DEF Lifecycle!Advance
    <3> QED BY <2>1, <3>1 DEF Lifecycle!Next
  <2> QED BY <2>2, <2>5, <2>7, <2>8, <2>9
<1> QED BY <1>1, <1>2, <1>3, ServerSteps

\* The documents found at the start are at some stage.
LEMMA LifecycleInit == Init => Lifecycle!Init
<1> SUFFICES ASSUME Init PROVE Lifecycle!Init
  OBVIOUS
<1>1. \A a \in Accounts : docs[a] \in {None, NewDoc, Onboarded, Prestador}
  BY DEF Init
<1>2. \A a \in Accounts : Stage(docs[a]) \in Lifecycle!Stages
  BY <1>1, StageIs DEF Lifecycle!Stages
<1> QED BY <1>2 DEF Lifecycle!Init

\* SessionInv, from the theorems above.
LEMMA SessionIsConsistent ==
    ASSUME OneAtATime
    PROVE  Spec => []SessionInv
<1>1. Prompt /\ "signOut" \notin Faults
  BY DEF OneAtATime
<1>2. Spec => []OwnWrites
  BY <1>1, WritesAreOwn
<1>3. Spec => [](SignInIdentity /\ SettledInv /\ MountedIsMine)
  BY <1>1, ScreensAreSettled
<1> QED
  BY <1>2, <1>3, TypeCorrect, AuthIsSynced, PTL DEF SessionInv

\* With events served in order, one sign-in at a time, no failing signOut() and
\* nobody deleted, the acknowledged writes of any number of accounts, restarts
\* and late answers take each account from registration to the introduction to
\* the role of prestador one stage at a time and never back: no set() of
\* RegisterScreen lands on an account that is past registration.
THEOREM ImplementsTheLifecycle ==
    ASSUME OneAtATime
    PROVE  Spec => ImplementsLifecycle
<1>1. SessionInv /\ StageInv /\ [Next]_vars => StageInv'
  BY NextStageInv
<1>2. SessionInv /\ StageInv /\ [Next]_vars
        => [Lifecycle!Next]_[a \in Accounts |-> Stage(docs[a])]
  BY StepsAdvance
<1> QED
  BY <1>1, <1>2, InitStageInv, LifecycleInit, SessionIsConsistent, PTL
     DEF Spec, ImplementsLifecycle, Lifecycle!Spec

=============================================================================
