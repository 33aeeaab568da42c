--------------------------- MODULE ProfileEditor ---------------------------
(***************************************************************************)
(* ProfileScreen, the tab with the user's own profile, ProfileConfig, the  *)
(* form pushed over it, and the profile fields of the user's document, on  *)
(* the one device the account is used on.                                  *)
(*                                                                         *)
(* Name, last name, phone number and address are one text here: they are   *)
(* filled, validated and saved together.                                   *)
(***************************************************************************)
EXTENDS Naturals, Sequences

CONSTANTS
    Texts,      \* non-empty contents of the text fields
    Dates,      \* birthdays
    Pics,       \* URLs of uploaded pictures
    None,       \* null
    Empty,      \* the empty string
    Uploads,    \* identities of overlapping runs of pickUploadImage
    MaxWrites,  \* bound: writes not yet acknowledged
    Faults      \* whether a remote call may fail

ASSUME ProfileEditorAssumption ==
    /\ Empty \notin Texts
    /\ None \notin Pics
    /\ MaxWrites \in Nat
    /\ Faults \in BOOLEAN

VARIABLES
    stored,  \* server: the profile fields of the document
    queue,   \* mutation queue of this device, FIFO
    stack,   \* the navigator's routes, last one on top
    tab,     \* ProfileScreen: "closed", or the state of its FutureBuilder
    datos,   \* datos: the profile last shown, None before the first one
    form,    \* ProfileConfig: the user it was given, its texts and date
    uploads, \* uploads[u]: a run of pickUploadImage, of the tab's State or an older one
    unheard  \* history: the result of a save went to the date picker, and
             \* ProfileScreen has not read the document since

vars == <<stored, queue, stack, tab, datos, form, uploads, unheard>>

\* The routes over MainScreen: the form, its date picker over it, or a form
\* whose builder threw.
Editing == <<"main", "config">>
Picking == <<"main", "config", "picker">>
Broken  == <<"main", "broken">>

Profile == [text: Texts, birthday: Dates, pic: Pics \cup {None}]

\* live: the Dart callback of the write still exists.
Write == [op: {"profile"}, text: Texts, birthday: Dates, live: BOOLEAN]
         \cup [op: {"pic"}, pic: Pics]

Form == [user: Profile, text: Texts \cup {Empty}, date: Dates]

\* null is no form.
ASSUME FormAssumption == None \notin Form

TypeOK ==
    /\ stored \in Profile
    /\ queue \in Seq(Write)
    /\ stack \in {<<>>, <<"main">>, Editing, Picking, Broken}
    /\ tab \in {"closed", "waiting", "done", "error"}
    /\ datos \in Profile \cup {None}
    /\ form \in Form \cup {None}
    /\ form = None <=> stack \notin {Editing, Picking}
    /\ uploads \in [Uploads -> {"idle", "mounted", "disposed"}]
    /\ unheard \in BOOLEAN

----------------------------------------------------------------------------
(* Firestore: update() changes the fields it names *)

Updated(p, w) ==
    CASE w.op = "profile" -> [p EXCEPT !.text = w.text, !.birthday = w.birthday]
      [] w.op = "pic"     -> [p EXCEPT !.pic = w.pic]

\* Where a field's value comes from: the last queued write of its kind, or else
\* the document.
Source(op) ==
    LET hits == {i \in DOMAIN queue : queue[i].op = op}
    IN  IF hits = {} THEN stored
        ELSE queue[CHOOSE i \in hits : \A j \in hits : j <= i]

\* The document with the queued writes on top of it.
View == [text     |-> Source("profile").text,
         birthday |-> Source("profile").birthday,
         pic      |-> Source("pic").pic]

Enqueue(w) ==
    /\ Len(queue) < MaxWrites
    /\ queue' = Append(queue, w)
    /\ UNCHANGED stored

----------------------------------------------------------------------------

Init ==
    /\ stored \in [text: Texts, birthday: Dates, pic: {None}]
    /\ queue = <<>>
    /\ stack = <<"main">>
    /\ tab = "closed"
    /\ datos = None
    /\ form = None
    /\ uploads = [u \in Uploads |-> "idle"]
    /\ unheard = FALSE

\* dispose() of the State of ProfileScreen; its uploads go on.
DisposeTab ==
    /\ tab' = "closed"
    /\ datos' = None
    /\ uploads' = [u \in Uploads |->
                     IF uploads[u] = "mounted" THEN "disposed" ELSE uploads[u]]
    /\ unheard' = FALSE

\* The process ends and starts again: only the queued writes are left.
Restart ==
    /\ stack' = <<"main">>
    /\ tab' = "closed"
    /\ datos' = None
    /\ form' = None
    /\ uploads' = [u \in Uploads |-> "idle"]
    /\ unheard' = FALSE
    /\ queue' = [i \in DOMAIN queue |->
                   IF queue[i].op = "profile" THEN [queue[i] EXCEPT !.live = FALSE]
                                              ELSE queue[i]]
    /\ UNCHANGED stored

----------------------------------------------------------------------------
(* ProfileScreen *)

\* The tab is selected: build asks for the document, as every build does.
OpenTab ==
    /\ stack = <<"main">>
    /\ tab = "closed"
    /\ tab' = "waiting"
    /\ UNCHANGED <<stored, queue, stack, datos, form, uploads, unheard>>

LeaveTab ==
    /\ stack = <<"main">>
    /\ tab # "closed"
    /\ DisposeTab
    /\ UNCHANGED <<stored, queue, stack, form>>

getUserData ==
    /\ tab = "waiting"
    /\ tab' = "done"
    /\ datos' = View
    /\ unheard' = FALSE
    /\ UNCHANGED <<stored, queue, stack, form, uploads>>

getUserDataFails ==
    /\ Faults
    /\ tab = "waiting"
    /\ tab' = "error"
    /\ UNCHANGED <<stored, queue, stack, datos, form, uploads, unheard>>

\* The pencil: ProfileConfig is pushed with datos.  Before the first profile has
\* arrived, reading datos throws in the builder of the route.
Edit ==
    /\ stack = <<"main">>
    /\ tab # "closed"
    /\ IF datos = None
       THEN /\ stack' = Broken
            /\ UNCHANGED form
       ELSE /\ stack' = Editing
            /\ form' = [user |-> datos, text |-> datos.text, date |-> datos.birthday]
    /\ UNCHANGED <<stored, queue, tab, datos, uploads, unheard>>

\* The route whose builder threw is left with the back button.
Back ==
    /\ stack = Broken
    /\ stack' = <<"main">>
    /\ UNCHANGED <<stored, queue, tab, datos, form, uploads, unheard>>

\* The avatar is tapped, or its camera icon, which also builds the screen again.
pickUploadImage(u) ==
    /\ stack = <<"main">>
    /\ tab = "done"
    /\ uploads[u] = "idle"
    /\ uploads' = [uploads EXCEPT ![u] = "mounted"]
    /\ tab' \in {"done", "waiting"}
    /\ UNCHANGED <<stored, queue, stack, datos, form, unheard>>

\* The download URL arrives.  setState of a disposed State throws: before the
\* update in a debug build, after it in a release build.
Uploaded(u, url) ==
    /\ uploads[u] # "idle"
    /\ uploads' = [uploads EXCEPT ![u] = "idle"]
    /\ \/ /\ Enqueue([op |-> "pic", pic |-> url])
          /\ tab' = IF uploads[u] = "mounted" THEN "waiting" ELSE tab
       \/ /\ uploads[u] = "disposed"
          /\ UNCHANGED <<stored, queue, tab>>
    /\ UNCHANGED <<stack, datos, form, unheard>>

UploadFails(u) ==
    /\ Faults
    /\ uploads[u] # "idle"
    /\ uploads' = [uploads EXCEPT ![u] = "idle"]
    /\ UNCHANGED <<stored, queue, stack, tab, datos, form, unheard>>

----------------------------------------------------------------------------
(* ProfileConfig *)

TypeText(t) ==
    /\ stack = Editing
    /\ form' = [form EXCEPT !.text = t]
    /\ UNCHANGED <<stored, queue, stack, tab, datos, uploads, unheard>>

\* The calendar is tapped: showDatePicker pushes its route and is awaited.
_selectDate ==
    /\ stack = Editing
    /\ stack' = Picking
    /\ UNCHANGED <<stored, queue, tab, datos, form, uploads, unheard>>

\* The picker returns a date.  After another one than before, the build that
\* follows makes new controllers, with the texts of the user the form was given.
DatePicked(d) ==
    /\ stack = Picking
    /\ stack' = Editing
    /\ form' = IF d # form.date
               THEN [form EXCEPT !.date = d, !.text = form.user.text]
               ELSE form
    /\ UNCHANGED <<stored, queue, tab, datos, uploads, unheard>>

\* The picker is left without a date.
PickerCancelled ==
    /\ stack = Picking
    /\ stack' = Editing
    /\ UNCHANGED <<stored, queue, tab, datos, form, uploads, unheard>>

\* 'CANCELAR', or the back button of the form.
Cancelar ==
    /\ stack = Editing
    /\ stack' = <<"main">>
    /\ form' = None
    /\ UNCHANGED <<stored, queue, tab, datos, uploads, unheard>>

\* Mutant: the form is not validated.
Guardar_Unchecked ==
    /\ stack = Editing
    /\ Enqueue([op |-> "profile", text |-> form.text, birthday |-> form.date, live |-> TRUE])
    /\ UNCHANGED <<stack, tab, datos, form, uploads, unheard>>

\* 'GUARDAR': the validators ask for texts that are not empty.
Guardar ==
    /\ stack = Editing
    /\ form.text # Empty
    /\ Enqueue([op |-> "profile", text |-> form.text, birthday |-> form.date, live |-> TRUE])
    /\ UNCHANGED <<stack, tab, datos, form, uploads, unheard>>

\* navigator!.pop(true) over a route that ProfileScreen does not await.  The
\* date picker goes without a date, true being none, and the form stays; without
\* a route over it, MainScreen itself is popped.
PopElsewhere ==
    CASE stack = Picking ->
            /\ stack' = Editing
            /\ unheard' = TRUE
            /\ UNCHANGED <<tab, datos, form, uploads>>
      [] stack = <<"main">> ->
            /\ stack' = <<>>
            /\ DisposeTab
            /\ UNCHANGED form
      [] stack = <<>> -> UNCHANGED <<stack, tab, datos, form, uploads, unheard>>

\* Mutant: the form is closed without a result.
PopTrue_NoResult ==
    IF stack \in {Editing, Broken}
    THEN /\ stack' = <<"main">>
         /\ form' = None
         /\ UNCHANGED <<tab, datos, uploads, unheard>>
    ELSE PopElsewhere

\* navigator!.pop(true), whichever route is on top by now.  When it is the one
\* the pencil pushed, ProfileScreen, which awaits its result, builds again and
\* so asks for the document again.
PopTrue ==
    IF stack \in {Editing, Broken}
    THEN /\ stack' = <<"main">>
         /\ form' = None
         /\ tab' = "waiting"
         /\ UNCHANGED <<datos, uploads, unheard>>
    ELSE PopElsewhere

\* The server applies the oldest write; that of the form has a callback.
Acknowledge ==
    /\ queue # <<>>
    /\ stored' = Updated(stored, Head(queue))
    /\ queue' = Tail(queue)
    /\ IF Head(queue).op = "profile" /\ Head(queue).live
       THEN PopTrue
       ELSE UNCHANGED <<stack, tab, datos, form, uploads, unheard>>

----------------------------------------------------------------------------

Next ==
    \/ Restart
    \/ OpenTab
    \/ LeaveTab
    \/ getUserData
    \/ getUserDataFails
    \/ Edit
    \/ Back
    \/ \E u \in Uploads :
        \/ pickUploadImage(u)
        \/ \E url \in Pics : Uploaded(u, url)
        \/ UploadFails(u)
    \/ \E t \in Texts \cup {Empty} : TypeText(t)
    \/ _selectDate
    \/ \E d \in Dates : DatePicked(d)
    \/ PickerCancelled
    \/ Cancelar
    \/ Guardar
    \/ Acknowledge

Spec == Init /\ [][Next]_vars

----------------------------------------------------------------------------
(* Properties *)

\* Once every save is acknowledged, the texts and the birthday that
\* ProfileScreen shows are the stored ones, whether the form was saved twice,
\* cancelled after a save, reopened, or the process restarted in between: the
\* screen only asks for the document again when the form returns true.  The one
\* exception is a save whose acknowledgement came while the date picker was on
\* top: navigator!.pop(true) closed the picker, and the screen was not told.
ShownProfileIsStored ==
    tab = "done" /\ queue = <<>> /\ ~unheard =>
        datos.text = stored.text /\ datos.birthday = stored.birthday

=============================================================================
