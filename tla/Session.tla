------------------------------ MODULE Session ------------------------------
(***************************************************************************)
(* One device running ProFinder: AuthController, the launch decision of    *)
(* main.dart, the login, register, onboarding and main screens, the tab    *)
(* controller, and the 'users' collection they read and write.             *)
(*                                                                         *)
(* Dart runs one event at a time, so every handler, and every piece of a   *)
(* handler between two awaits, is one action.  What interleaves is the     *)
(* order in which awaited answers, auth events, timers and gestures come.  *)
(*                                                                         *)
(* A stored user document is abstracted to the two fields that control the *)
(* application (onboarding, role): every writer of the repository stores   *)
(* the required fields together, so "a required field is null" of          *)
(* MainScreen.fetchData is the same as "there is no document".             *)
(*                                                                         *)
(* docs is the collection as far as writes are acknowledged.  Firestore    *)
(* may carry out queued writes before and send them again (WriteQueue);    *)
(* the queue lies over whatever copy of the document is read, so what the  *)
(* device sees is the same.                                                *)
(***************************************************************************)
EXTENDS Naturals, Sequences

CONSTANTS
    Accounts,          \* the Google accounts of the users of this device
    None,              \* null
    Taps,              \* identities of overlapping runs of signInWithGoogle
    MaxMains,          \* bound: MainScreen states alive (or still fetching) at once
    MaxWrites,         \* bound: writes of one account not yet acknowledged
    MaxAuthEvents,     \* bound: auth events not yet delivered
    Faults,            \* the remote calls that may fail
    Deletions,         \* whether deleteAllUsersWithCampo is run, on another device
    Prompt             \* whether posted events are served in order

ASSUME SessionAssumption ==
    /\ MaxMains \in Nat \ {0}
    /\ MaxWrites \in Nat
    /\ MaxAuthEvents \in Nat \ {0}
    /\ Faults \subseteq {"signIn", "get", "signOut"}
    /\ Deletions \in BOOLEAN
    /\ Prompt \in BOOLEAN

VARIABLES
    docs,        \* server: docs[a] is document a of collection 'users', or None
    writes,      \* writes[a]: mutation queue of account a on this device, FIFO
    fbUser,      \* FirebaseAuth.instance.currentUser, kept across restarts
    googleUser,  \* GoogleSignIn's current account, per process
    authEvents,  \* authStateChanges() events not yet delivered
    user,        \* AuthController._user
    taps,        \* runs of signInWithGoogle
    signingOut,  \* a signOut() has not completed yet
    stack,       \* the navigator's routes, last one on top; <<>> before launch
    mains,       \* the States of the MainScreens, by identity
    page         \* TabControllerApp._page

vars == <<docs, writes, fbUser, googleUser, authEvents, user, taps,
          signingOut, stack, mains, page>>

serverVars == <<docs, writes>>
authVars   == <<fbUser, googleUser, authEvents, user>>
screenVars == <<stack, mains>>

----------------------------------------------------------------------------
(* Data *)

Maybe(S) == S \cup {None}

MainIds == 1..MaxMains

Doc == [onboarding: BOOLEAN, prestador: BOOLEAN]

\* What RegisterScreen stores: no role yet, onboarding not done.
NewDoc == [onboarding |-> FALSE, prestador |-> FALSE]

\* The documents other devices have left: onboarding done, then converted.
Onboarded == [NewDoc EXCEPT !.onboarding = TRUE]
Prestador == [Onboarded EXCEPT !.prestador = TRUE]

\* set() of RegisterScreen, update() of OnBoardingScreen and of
\* convertToPrestador.  live: the Dart callback of the write still exists.
Write == [op: {"set", "onboard", "prestador"}, uid: Accounts, live: BOOLEAN]

\* An AppUser: whose uid it carries and which document its fields come from
\* (None: AppUser.fromFirebase, which has no document).
AppUser == [uid: Accounts, owner: Maybe(Accounts)]

\* null is no account, no document and no AppUser.
ASSUME NoneAssumption ==
    /\ None \notin Accounts
    /\ None \notin Doc
    /\ None \notin AppUser

Uid(u) == IF u = None THEN None ELSE u.uid

\* AppUser.fromFirebase of an event of authStateChanges().
fromFirebase(a) == IF a = None THEN None ELSE [uid |-> a, owner |-> None]

\* AppUser.fromJson of document a: the uid is FirebaseAuth's current user,
\* not the identity of the document.
fromJson(a) == [uid |-> fbUser, owner |-> a]

\* A run of signInWithGoogle: the await it is at, the account it is about and
\* the document it found.
Tap ==
    {r \in [pc: {"idle",        \* not running
                 "chooser",     \* awaits _googleSignIn.signIn()
                 "credential",  \* awaits _auth.signInWithCredential()
                 "get",         \* awaits usersRef.doc(uid).get()
                 "got",         \* snapshot arrived, continuation not run yet
                 "welcome"},    \* returned; LoginScreen shows 'Bienvenido'
            acct: Maybe(Accounts),
            found: Maybe(Doc)] :
        r.pc \in {"credential", "get", "got"} => r.acct # None}

Idle == [pc |-> "idle", acct |-> None, found |-> None]

\* State of a MainScreen: how far fetchData is, for whom, and what it read.
Main ==
    {m \in [pc: {"free",          \* no such State
                 "sent",          \* awaits the document
                 "toRegister",    \* timer that replaces the top by /register
                 "toOnboarding",  \* timer that replaces the top by /onboarding
                 "ready",         \* _isLoading = false
                 "stuck"},        \* fetchData is over, _isLoading still true
            uid: Maybe(Accounts),
            data: Maybe(Doc)] :
        /\ m.pc = "sent" => m.uid # None
        /\ m.pc = "ready" => m.uid # None /\ m.data # None}

Free == [pc |-> "free", uid |-> None, data |-> None]

Names == {"login", "register", "onboarding", "main", "selection"}

Screen == [name: Names, id: 0..MaxMains]

Route(n) == [name |-> n, id |-> 0]

\* _buildScreensCliente and _buildScreensPrestador, by kind of tab.
ScreensCliente   == <<"home", "soon", "profile", "settings">>
ScreensPrestador == <<"home", "soon", "soon", "config", "profile", "settings">>

\* _buildScreens
Screens(d) == IF d.prestador THEN ScreensPrestador ELSE ScreensCliente

TypeOK ==
    /\ docs \in [Accounts -> Maybe(Doc)]
    /\ writes \in [Maybe(Accounts) -> Seq(Write)]
    /\ fbUser \in Maybe(Accounts)
    /\ googleUser \in Maybe(Accounts)
    /\ authEvents \in Seq(Maybe(Accounts))
    /\ user \in Maybe(AppUser)
    /\ taps \in [Taps -> Tap]
    /\ signingOut \in BOOLEAN
    /\ stack \in Seq(Screen)
    /\ mains \in [MainIds -> Main]
    /\ page \in 0..5

----------------------------------------------------------------------------
(* Firestore, as the application sees it: writes are queued per account in  *)
(* issue order, survive a restart (their callbacks do not), and a read      *)
(* answers with the stored document and the queued writes on top of it.     *)

Queued(a, op) ==
    {i \in DOMAIN writes[fbUser] : /\ writes[fbUser][i].uid = a
                                   /\ writes[fbUser][i].op = op}

\* A queued update of document a that no later queued set() overwrites.
QueuedAfterSet(a, op) ==
    \E i \in Queued(a, op) : \A j \in Queued(a, "set") : j < i

View(a) ==
    IF Queued(a, "set") # {}
    THEN [onboarding |-> QueuedAfterSet(a, "onboard"),
          prestador  |-> QueuedAfterSet(a, "prestador")]
    ELSE IF docs[a] = None
    THEN None
    ELSE [onboarding |-> docs[a].onboarding \/ QueuedAfterSet(a, "onboard"),
          prestador  |-> docs[a].prestador \/ QueuedAfterSet(a, "prestador")]

\* The server's side of a write; update() of a missing document is rejected.
Stored(d, op) ==
    CASE op = "set"       -> NewDoc
      [] op = "onboard"   -> IF d = None THEN None ELSE [d EXCEPT !.onboarding = TRUE]
      [] op = "prestador" -> IF d = None THEN None ELSE [d EXCEPT !.prestador = TRUE]

Enqueue(op, a) ==
    /\ Len(writes[fbUser]) < MaxWrites
    /\ writes' = [writes EXCEPT ![fbUser] =
                    Append(@, [op |-> op, uid |-> a, live |-> TRUE])]

----------------------------------------------------------------------------
(* Navigation *)

Launched == stack # <<>>

Top == stack[Len(stack)]

On(name) == Launched /\ Top.name = name

Mounted(id, stk) == \E i \in DOMAIN stk : stk[i].name = "main" /\ stk[i].id = id

\* dispose() of the States that are no longer in the navigator; one whose
\* fetchData is still running lives on until it ends.
Disposed(ms, stk) ==
    [id \in MainIds |->
        IF ms[id].pc \in {"ready", "stuck"} /\ ~Mounted(id, stk) THEN Free ELSE ms[id]]

Show(stk) == stack' = stk /\ mains' = Disposed(mains, stk)

\* MainScreen.initState: fetchData reads _authController.user!.uid at once.
FetchStarted(u) ==
    IF u = None THEN [Free EXCEPT !.pc = "stuck"]
                ELSE [pc |-> "sent", uid |-> u.uid, data |-> None]

\* Mounts a new MainScreen over the routes below, with _user = u.
ShowMain(below, u) ==
    \E id \in MainIds :
        /\ mains[id].pc = "free"
        /\ \A j \in MainIds : mains[j].pc = "free" => id <= j
        /\ stack' = Append(below, [name |-> "main", id |-> id])
        /\ mains' = Disposed([mains EXCEPT ![id] = FetchStarted(u)], stack')

Below == SubSeq(stack, 1, Len(stack) - 1)

\* Get.offNamed(mainScreen), in the callbacks of RegisterScreen and of
\* OnBoardingScreen: replaces the top route, unless it has that name.
OffNamedMain ==
    IF Top.name = "main" THEN UNCHANGED screenVars ELSE ShowMain(Below, user)

\* Get.offAllNamed
OffAllNamed(name) == Show(<<Route(name)>>)

\* The event loop serves events in the order they are posted: with Prompt, a
\* gesture or an answer from outside comes after every auth event, zero timer
\* and arrived snapshot that is already waiting.
Quiet ==
    Prompt => /\ authEvents = <<>>
              /\ \A id \in MainIds : mains[id].pc \notin {"toRegister", "toOnboarding"}
              /\ \A t \in Taps : taps[t].pc # "got"

\* The user does something.  A signOut() in progress is a local call and
\* completes before the user's next gesture.
Gesture == Launched /\ Quiet /\ (Prompt => ~signingOut)

----------------------------------------------------------------------------
(* Process *)

Init ==
    /\ docs \in [Accounts -> {None, NewDoc, Onboarded, Prestador}]
    /\ writes = [a \in Maybe(Accounts) |-> <<>>]
    /\ fbUser \in Maybe(Accounts)
    /\ googleUser = None
    /\ authEvents = <<fbUser>>
    /\ user = None
    /\ taps = [t \in Taps |-> Idle]
    /\ signingOut = FALSE
    /\ stack = <<>>
    /\ mains = [id \in MainIds |-> Free]
    /\ page = 0

\* First build of MyApp: the initial route depends on whether the auth
\* stream has delivered a user by then.
Launch ==
    /\ ~Launched
    /\ IF user # None THEN ShowMain(<<>>, user) ELSE Show(<<Route("login")>>)
    /\ UNCHANGED <<docs, writes, fbUser, googleUser, authEvents, user, taps,
                   signingOut, page>>

\* The process is killed and started again: Firebase keeps the session and
\* the queued writes, everything else is rebuilt by main().
Restart ==
    /\ Launched
    /\ writes' = [a \in Maybe(Accounts) |->
                    [i \in DOMAIN writes[a] |-> [writes[a][i] EXCEPT !.live = FALSE]]]
    /\ googleUser' = None
    /\ authEvents' = <<fbUser>>
    /\ user' = None
    /\ taps' = [t \in Taps |-> Idle]
    /\ signingOut' = FALSE
    /\ stack' = <<>>
    /\ mains' = [id \in MainIds |-> Free]
    /\ page' = 0
    /\ UNCHANGED <<docs, fbUser>>

----------------------------------------------------------------------------
(* AuthController *)

\* Mutant: the stream only fills _user while it is empty.
DeliverAuthEvent_OnlyFirst ==
    /\ authEvents # <<>>
    /\ user' = IF user = None THEN fromFirebase(Head(authEvents)) ELSE user
    /\ authEvents' = Tail(authEvents)
    /\ UNCHANGED <<docs, writes, fbUser, googleUser, taps, signingOut, stack,
                   mains, page>>

\* Mutant: the stream drops the event that says nobody is signed in.
DeliverAuthEvent_SkipsNull ==
    /\ authEvents # <<>>
    /\ user' = IF Head(authEvents) = None THEN user ELSE fromFirebase(Head(authEvents))
    /\ authEvents' = Tail(authEvents)
    /\ UNCHANGED <<docs, writes, fbUser, googleUser, taps, signingOut, stack,
                   mains, page>>

\* AuthController.onInit binds _user to the auth stream.
DeliverAuthEvent ==
    /\ authEvents # <<>>
    /\ user' = fromFirebase(Head(authEvents))
    /\ authEvents' = Tail(authEvents)
    /\ UNCHANGED <<docs, writes, fbUser, googleUser, taps, signingOut, stack,
                   mains, page>>

\* Firebase changes the current user; listeners hear of changes only.
SetFbUser(a) ==
    /\ Len(authEvents) < MaxAuthEvents
    /\ fbUser' = a
    /\ authEvents' = IF fbUser = a THEN authEvents ELSE Append(authEvents, a)

SignInTap(t) ==
    /\ Gesture
    /\ On("login")
    /\ taps[t].pc = "idle"
    /\ taps' = [taps EXCEPT ![t].pc = "chooser"]
    /\ UNCHANGED <<docs, writes, fbUser, googleUser, authEvents, user,
                   signingOut, stack, mains, page>>

\* signInWithGoogle returned (result: its account, or None for null) and
\* LoginScreen's then() ran: it welcomes the user whatever the result is,
\* unless its setState fails because the screen is gone.
Returned(t, result) ==
    \E shown \in BOOLEAN :
        /\ shown => On("login")
        /\ taps' = [taps EXCEPT ![t] =
                      IF shown THEN [Idle EXCEPT !.pc = "welcome", !.acct = result]
                               ELSE Idle]

\* GoogleSignIn.signIn() answers with the account it already has; otherwise
\* the user picks one.
ChooseAccount(t) ==
    /\ Quiet
    /\ taps[t].pc = "chooser"
    /\ \E a \in Accounts :
        /\ googleUser \in {None, a}
        /\ googleUser' = a
        /\ taps' = [taps EXCEPT ![t].pc = "credential", ![t].acct = a]
    /\ UNCHANGED <<docs, writes, fbUser, authEvents, user, signingOut, stack,
                   mains, page>>

\* The chooser is dismissed: signInWithGoogle returns null.
CancelChooser(t) ==
    /\ Quiet
    /\ taps[t].pc = "chooser"
    /\ googleUser = None
    /\ Returned(t, None)
    /\ UNCHANGED <<docs, writes, fbUser, googleUser, authEvents, user,
                   signingOut, stack, mains, page>>

\* signInWithCredential succeeds.  A signOut() issued before is complete by
\* then: FirebaseAuth signs out synchronously, without the network.
Authenticated(t) ==
    /\ Quiet
    /\ taps[t].pc = "credential"
    /\ ~signingOut
    /\ SetFbUser(taps[t].acct)
    /\ taps' = [taps EXCEPT ![t].pc = "get"]
    /\ UNCHANGED <<docs, writes, googleUser, user, signingOut, stack, mains, page>>

\* A remote call of signInWithGoogle throws: the catch returns null.
SignInFails(t) ==
    /\ Quiet
    /\ "signIn" \in Faults
    /\ taps[t].pc \in {"chooser", "credential", "get"}
    /\ Returned(t, None)
    /\ UNCHANGED <<docs, writes, fbUser, googleUser, authEvents, user,
                   signingOut, stack, mains, page>>

UserDocRead(t) ==
    /\ Quiet
    /\ taps[t].pc = "get"
    /\ taps' = [taps EXCEPT ![t].pc = "got", ![t].found = View(taps[t].acct)]
    /\ UNCHANGED <<docs, writes, fbUser, googleUser, authEvents, user,
                   signingOut, stack, mains, page>>

\* The user is registered: _user becomes the stored profile and MainScreen
\* replaces every route.  Without a session, fromJson throws and the catch
\* returns null.
SignedInRegistered(t) ==
    /\ taps[t].pc = "got"
    /\ taps[t].found # None
    /\ IF fbUser # None
       THEN /\ user' = fromJson(taps[t].acct)
            /\ ShowMain(<<>>, user')
            /\ Returned(t, taps[t].acct)
       ELSE /\ Returned(t, None)
            /\ UNCHANGED <<user, stack, mains>>
    /\ UNCHANGED <<docs, writes, fbUser, googleUser, authEvents, signingOut, page>>

SignedInUnregistered(t) ==
    /\ taps[t].pc = "got"
    /\ taps[t].found = None
    /\ OffAllNamed("register")
    /\ Returned(t, taps[t].acct)
    /\ UNCHANGED <<docs, writes, fbUser, googleUser, authEvents, user,
                   signingOut, page>>

WelcomeGone(t) ==
    /\ taps[t].pc = "welcome"
    /\ taps' = [taps EXCEPT ![t] = Idle]
    /\ UNCHANGED <<docs, writes, fbUser, googleUser, authEvents, user,
                   signingOut, stack, mains, page>>

----------------------------------------------------------------------------
(* RegisterScreen, OnBoardingScreen and the acknowledgement of their writes *)

\* 'Siguiente' on a valid form.  With _user null the handler throws before
\* it writes.
Register ==
    /\ Gesture
    /\ On("register")
    /\ user # None
    /\ Enqueue("set", user.uid)
    /\ UNCHANGED <<docs, authVars, taps, signingOut, stack, mains, page>>

onOnboardingComplete ==
    /\ Gesture
    /\ On("onboarding")
    /\ user # None
    /\ Enqueue("onboard", user.uid)
    /\ UNCHANGED <<docs, authVars, taps, signingOut, stack, mains, page>>

\* The server answers the oldest write of the current account.  The callbacks
\* of RegisterScreen and OnBoardingScreen go on to MainScreen; a rejected
\* update has no callback.
Acknowledge ==
    LET w  == Head(writes[fbUser])
        ok == w.op = "set" \/ docs[w.uid] # None
    IN  /\ Quiet
        /\ writes[fbUser] # <<>>
        /\ docs' = [docs EXCEPT ![w.uid] = Stored(@, w.op)]
        /\ writes' = [writes EXCEPT ![fbUser] = Tail(@)]
        /\ IF ok /\ w.live /\ w.op \in {"set", "onboard"}
           THEN OffNamedMain
           ELSE UNCHANGED screenVars
        /\ UNCHANGED <<authVars, taps, signingOut, page>>

----------------------------------------------------------------------------
(* MainScreen *)

\* Mutant: a missing document is logged, with no redirect.
Fetched_OnlyLogs(id) ==
    /\ Quiet
    /\ mains[id].pc = "sent"
    /\ LET d == View(mains[id].uid)
           m == [mains[id] EXCEPT !.data = d]
       IN  mains' = Disposed([mains EXCEPT ![id] =
             IF d = None          THEN [m EXCEPT !.pc = "stuck"]
             ELSE IF ~d.onboarding THEN [m EXCEPT !.pc = "toOnboarding"]
             ELSE [m EXCEPT !.pc = "ready"]], stack)
    /\ UNCHANGED <<serverVars, authVars, taps, signingOut, stack, page>>

\* The document arrives and fetchData goes on.  In the onboarding branch the
\* AppUser constructor throws (a Timestamp is no DateTime) after the timer is
\* set, so updateLocalUser is never reached.  setState of a disposed State
\* throws and changes nothing.
Fetched(id) ==
    /\ Quiet
    /\ mains[id].pc = "sent"
    /\ LET d == View(mains[id].uid)
           m == [mains[id] EXCEPT !.data = d]
       IN  mains' = [mains EXCEPT ![id] =
             IF d = None          THEN [m EXCEPT !.pc = "toRegister"]
             ELSE IF ~d.onboarding THEN [m EXCEPT !.pc = "toOnboarding"]
             ELSE IF Mounted(id, stack) THEN [m EXCEPT !.pc = "ready"]
             ELSE Free]
    /\ UNCHANGED <<serverVars, authVars, taps, signingOut, stack, page>>

\* get() throws: fetchData has no catch.
FetchFails(id) ==
    /\ Quiet
    /\ "get" \in Faults
    /\ mains[id].pc = "sent"
    /\ mains' = Disposed([mains EXCEPT ![id].pc = "stuck"], stack)
    /\ UNCHANGED <<serverVars, authVars, taps, signingOut, stack, page>>

\* The Future.delayed timer fires: it replaces whatever route is on top.
Redirect(id) ==
    LET target == IF mains[id].pc = "toRegister" THEN "register" ELSE "onboarding"
        stk    == IF Top.name = target THEN stack ELSE Append(Below, Route(target))
    IN  /\ mains[id].pc \in {"toRegister", "toOnboarding"}
        /\ stack' = stk
        /\ mains' = Disposed([mains EXCEPT ![id].pc = "stuck"], stk)
        /\ UNCHANGED <<serverVars, authVars, taps, signingOut, page>>

\* MainScreen on top, loaded, and its body built: _buildScreens()[page]
\* throws when page is not one of its tabs.
MainUsable ==
    /\ On("main")
    /\ mains[Top.id].pc = "ready"
    /\ page < Len(Screens(mains[Top.id].data))

OnTab(kind) == MainUsable /\ Screens(mains[Top.id].data)[page + 1] = kind

\* Mutant: tabs counted from one.
setPage_FromOne(index) ==
    /\ Gesture
    /\ MainUsable
    /\ index < Len(Screens(mains[Top.id].data))
    /\ page' = index + 1
    /\ UNCHANGED <<serverVars, authVars, taps, signingOut, stack, mains>>

\* onTap of the navigation bar: TabControllerApp.setPage
setPage(index) ==
    /\ Gesture
    /\ MainUsable
    /\ index < Len(Screens(mains[Top.id].data))
    /\ page' = index
    /\ UNCHANGED <<serverVars, authVars, taps, signingOut, stack, mains>>

\* A category of CategoryHomeScreen is tapped.
OpenCategory ==
    /\ Gesture
    /\ OnTab("home")
    /\ stack' = Append(stack, Route("selection"))
    /\ UNCHANGED <<serverVars, authVars, taps, signingOut, mains, page>>

\* The back arrow of CategorySelectionScreen.
LeaveCategory ==
    /\ Gesture
    /\ On("selection")
    /\ Show(Below)
    /\ UNCHANGED <<serverVars, authVars, taps, signingOut, page>>

\* Mutant: the role is written with set() instead of update().
convertToPrestador_Set ==
    /\ Gesture
    /\ OnTab("profile")
    /\ fbUser # None
    /\ Enqueue("set", fbUser)
    /\ UNCHANGED <<docs, authVars, taps, signingOut, stack, mains, page>>

\* 'Convertir a prestador de servicios': the update is not awaited, and the
\* navigation that follows throws because '/prestador-home' is not a route,
\* so MainScreen stays with the data it has.
convertToPrestador ==
    /\ Gesture
    /\ OnTab("profile")
    /\ fbUser # None
    /\ Enqueue("prestador", fbUser)
    /\ UNCHANGED <<docs, authVars, taps, signingOut, stack, mains, page>>

\* 'Cerrar sesion': signOut() starts and LoginScreen is shown at once.
SignOutTap ==
    /\ Gesture
    /\ OnTab("profile")
    /\ signingOut' = TRUE
    /\ OffAllNamed("login")
    /\ UNCHANGED <<serverVars, authVars, taps, page>>

\* Mutant: the completion does not navigate.
SignedOut_StaysPut ==
    /\ Quiet
    /\ signingOut
    /\ signingOut' = FALSE
    /\ SetFbUser(None)
    /\ UNCHANGED <<docs, writes, googleUser, user, taps, stack, mains, page>>

\* Mutant: the Google account is signed out as well.
SignedOut_Google ==
    /\ Quiet
    /\ signingOut
    /\ signingOut' = FALSE
    /\ SetFbUser(None)
    /\ googleUser' = None
    /\ OffAllNamed("login")
    /\ UNCHANGED <<docs, writes, user, taps, page>>

\* _auth.signOut() completes and its then() shows LoginScreen again.
SignedOut ==
    /\ Quiet
    /\ signingOut
    /\ signingOut' = FALSE
    /\ SetFbUser(None)
    /\ OffAllNamed("login")
    /\ UNCHANGED <<docs, writes, googleUser, user, taps, page>>

\* _auth.signOut() throws: nothing catches it and the session goes on.
SignOutFails ==
    /\ Quiet
    /\ "signOut" \in Faults
    /\ signingOut
    /\ signingOut' = FALSE
    /\ UNCHANGED <<serverVars, authVars, taps, stack, mains, page>>

----------------------------------------------------------------------------
(* deleteAllUsersWithCampo, run from another device: the documents whose    *)
(* lastConnection is recent enough, whichever those are.                    *)

deleteAllUsersWithCampo ==
    /\ Deletions
    /\ \E gone \in SUBSET {a \in Accounts : docs[a] # None} :
        /\ gone # {}
        /\ docs' = [a \in Accounts |-> IF a \in gone THEN None ELSE docs[a]]
    /\ UNCHANGED <<writes, authVars, taps, signingOut, stack, mains, page>>

----------------------------------------------------------------------------

SignIn(t) ==
    \/ SignInTap(t)
    \/ ChooseAccount(t)
    \/ CancelChooser(t)
    \/ Authenticated(t)
    \/ SignInFails(t)
    \/ UserDocRead(t)
    \/ SignedInRegistered(t)
    \/ SignedInUnregistered(t)
    \/ WelcomeGone(t)

MainScreen(id) == Fetched(id) \/ FetchFails(id) \/ Redirect(id)

Next ==
    \/ Launch
    \/ Restart
    \/ DeliverAuthEvent
    \/ \E t \in Taps : SignIn(t)
    \/ Register
    \/ onOnboardingComplete
    \/ Acknowledge
    \/ \E id \in MainIds : MainScreen(id)
    \/ \E index \in 0..5 : setPage(index)
    \/ OpenCategory
    \/ LeaveCategory
    \/ convertToPrestador
    \/ SignOutTap
    \/ SignedOut
    \/ SignOutFails
    \/ deleteAllUsersWithCampo

Spec == Init /\ [][Next]_vars

\* Answers, events and timers come eventually; gestures and restarts need not.
Fairness ==
    /\ WF_vars(Launch)
    /\ WF_vars(DeliverAuthEvent)
    /\ WF_vars(Acknowledge)
    /\ WF_vars(SignedOut)
    /\ \A id \in MainIds : WF_vars(Fetched(id)) /\ WF_vars(Redirect(id))

FairSpec == Spec /\ Fairness

----------------------------------------------------------------------------
(* Properties *)

\* AuthController.user mirrors FirebaseAuth.currentUser: once every auth event
\* is delivered they are the same account, and until then the last event on
\* its way is the current account.  signInWithGoogle also assigns _user, with
\* the profile it read (auth_controller.dart 45), in between those events.
AuthSynced ==
    IF authEvents = <<>> THEN Uid(user) = fbUser
                         ELSE authEvents[Len(authEvents)] = fbUser

\* The profile in AuthController.user belongs to the uid it carries.  fromJson
\* takes the fields from a document that was asked for before an await and the
\* uid from the current user after it (app_user.dart 54).
ProfileIdentity == user # None => user.owner \in {None, user.uid}

\* Why it holds: GoogleSignIn keeps its account for the life of the process, so
\* overlapping runs of signInWithGoogle are about one account, and a run that
\* has authenticated finds that account signed in, or nobody.
SignInIdentity ==
    \A t \in Taps :
        /\ taps[t].pc \in {"credential", "get", "got"} =>
              taps[t].acct # None /\ taps[t].acct = googleUser
        /\ taps[t].pc \in {"get", "got"} => fbUser \in {None, taps[t].acct}

\* A device only ever writes the document of the account it is signed in with:
\* RegisterScreen and OnBoardingScreen address the document by _user's uid and
\* send it with FirebaseAuth's credentials, which change at different times.
OwnWrites ==
    \A a \in Maybe(Accounts) : \A i \in DOMAIN writes[a] : writes[a][i].uid = a

\* A MainScreen that shows its tabs shows the data of the signed-in account: a
\* sign-out, a late acknowledgement, a timer or a sign-in with another account
\* leaves none behind in the navigator.
LoadedMainIsMine ==
    \A id \in MainIds :
        mains[id].pc = "ready" /\ Mounted(id, stack) => mains[id].uid = fbUser

\* The stage of the account of a stored document.
Stage(d) == CASE d = None                       -> "absent"
              [] d # None /\ ~d.onboarding     -> "registered"
              [] d # None /\ d = Onboarded     -> "onboarded"
              [] d # None /\ d = Prestador     -> "prestador"

Lifecycle == INSTANCE AccountLifecycle WITH stage <- [a \in Accounts |-> Stage(docs[a])]

\* Sessions, restarts, late answers and double taps advance the account, as
\* its acknowledged writes leave it, one stage at a time and never take it
\* back: in particular the set() of RegisterScreen never lands on an account
\* that is past registration.
ImplementsLifecycle == Lifecycle!Spec

\* The spinner of MainScreen goes away: whoever has a session and waits for
\* fetchData gets the tabs, or the registration or onboarding screen.
Loading(id) ==
    Mounted(id, stack) /\ mains[id].uid # None /\ mains[id].pc # "ready"

SpinnerResolves == \A id \in MainIds : Loading(id) ~> ~Loading(id)

\* RegisterScreen comes up only for an account that has no document ("If the
\* document does not exist or if any of the required fields are null, redirect
\* to the registration page", main_screen.dart 57).
RegisterMeansMissing ==
    [][On("register")' /\ ~On("register") /\ fbUser # None => View(fbUser) = None]_vars

=============================================================================
