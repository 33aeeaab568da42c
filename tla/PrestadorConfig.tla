-------------------------- MODULE PrestadorConfig --------------------------
(***************************************************************************)
(* ProfilePrestadorConfigScreen, the tab where a service provider chooses  *)
(* a main category, writes skills and a description, uploads pictures and  *)
(* saves ("GUARDAR"), on one device, and the provider's stored document.   *)
(*                                                                         *)
(* The five skill fields and the description are one text here: they are   *)
(* filled, validated and saved together.  A picture stands for the URL it  *)
(* gets in Storage.                                                        *)
(***************************************************************************)
EXTENDS Naturals, Sequences

CONSTANTS
    Categories,  \* ids of the documents of 'serviceCategories'
    Texts,       \* non-empty contents of the text fields
    Files,       \* pictures of the gallery
    None,        \* null, or a field the document does not have
    Empty,       \* the empty string
    Runs,        \* identities of overlapping runs of selectImages
    MaxWrites,   \* bound: writes not yet acknowledged
    Faults       \* whether a remote call may fail

ASSUME PrestadorConfigAssumption ==
    /\ None \notin Categories \cup Texts \cup {Empty}
    /\ Empty \notin Categories \cup Texts
    /\ MaxWrites \in Nat
    /\ Faults \in BOOLEAN

VARIABLES
    stored,     \* server: the fields mainService and service of the document
    queue,      \* mutation queue of this device, FIFO
    screen,     \* the tab: "closed", "waiting" for futureUser, "open" or "error"
    snapshot,   \* what futureUser answered, fixed for the life of the State
    text,       \* categoryControllers and descriptionController
    images,     \* images: what the picker last answered
    imageUrls,  \* imageUrls
    categories, \* the StreamBuilder of the dropdown: "waiting", "listed" or "failed"
    dropdown,   \* the form field's own value of DropdownButtonFormField
    stale,      \* history: the dropdown was lost with its list, and no category
                \* has been chosen in it since
    dirty,      \* setState was called, build has not run yet
    runs        \* runs[r]: the pictures run r of selectImages has still to upload

vars == <<stored, queue, screen, snapshot, text, images, imageUrls, categories,
          dropdown, stale, dirty, runs>>

serverVars == <<stored, queue>>
dropVars   == <<categories, dropdown, stale>>
formVars   == <<text, imageUrls, dropVars>>
pickVars   == <<images, runs>>

\* checked is history: the form was validated together with its dropdown.
Services == [text: Texts, images: SUBSET Files, checked: BOOLEAN]

Record == [main: Categories \cup {None, Empty}, service: Services \cup {None}]

Write == [op: {"main"}, value: Categories \cup {Empty}]
         \cup [op: {"service"}, value: Services]

Choices == Categories \cup {Empty}

TypeOK ==
    /\ stored \in Record
    /\ queue \in Seq(Write)
    /\ screen \in {"closed", "waiting", "open", "error"}
    /\ snapshot \in Record \cup {None}
    /\ text \in Texts \cup {Empty}
    /\ images \in Seq(Files)
    /\ imageUrls \subseteq Files
    /\ categories \in {"waiting", "listed", "failed"}
    /\ dropdown \in Choices
    /\ stale \in BOOLEAN
    /\ dirty \in BOOLEAN
    /\ runs \in [Runs -> Seq(Files)]

----------------------------------------------------------------------------
(* Firestore: stored fields, with the queued writes on top of them *)

\* The value of a field after the first n queued writes.
After(n, op, initial) ==
    LET hits == {i \in 1..n : queue[i].op = op}
    IN  IF hits = {} THEN initial
        ELSE queue[CHOOSE i \in hits : \A j \in hits : j <= i].value

View == [main    |-> After(Len(queue), "main", stored.main),
         service |-> After(Len(queue), "service", stored.service)]

Enqueue(op, value) ==
    /\ Len(queue) < MaxWrites
    /\ queue' = Append(queue, [op |-> op, value |-> value])
    /\ UNCHANGED stored

----------------------------------------------------------------------------
(* The builder of the FutureBuilder: every build fills the fields from the  *)
(* same snapshot.                                                           *)

TextOf(s)   == IF s = None THEN Empty ELSE s.text
ImagesOf(s) == IF s = None THEN {} ELSE s.images

Fill(snap) ==
    /\ text' = TextOf(snap.service)
    /\ imageUrls' = ImagesOf(snap.service)

\* Mutant: the fields are taken as they come, missing or not.
mainCategory_Raw(snap) == snap.main

\* mainCategory as the builder leaves it, the initial value of the dropdown.
mainCategory(snap) ==
    IF snap.service = None \/ snap.main = None THEN Empty ELSE snap.main

----------------------------------------------------------------------------

Init ==
    /\ stored \in Record
    /\ stored.service # None /\ stored.service.checked => stored.main # None
    /\ queue = <<>>
    /\ screen = "closed"
    /\ snapshot = None
    /\ text = Empty
    /\ images = <<>>
    /\ imageUrls = {}
    /\ categories = "waiting"
    /\ dropdown = Empty
    /\ stale = FALSE
    /\ dirty = FALSE
    /\ runs = [r \in Runs |-> <<>>]

\* The tab is selected: initState asks for the document.
initState ==
    /\ screen = "closed"
    /\ screen' = "waiting"
    /\ UNCHANGED <<serverVars, snapshot, formVars, dirty, pickVars>>

\* futureUser completes and the first build of the form runs.  It listens to
\* the categories; until they come, the form has no dropdown.
Loaded ==
    /\ screen = "waiting"
    /\ screen' = "open"
    /\ snapshot' = View
    /\ Fill(View)
    /\ UNCHANGED <<serverVars, dropVars, dirty, pickVars>>

\* futureUser fails: the builder's snapshot.data! throws.
LoadFails ==
    /\ Faults
    /\ screen = "waiting"
    /\ screen' = "error"
    /\ UNCHANGED <<serverVars, snapshot, formVars, dirty, pickVars>>

\* snapshots() has an answer: the dropdown is built, with the main category of
\* the last build.
CategoriesListed ==
    /\ screen = "open"
    /\ categories = "waiting"
    /\ categories' = "listed"
    /\ dropdown' = mainCategory(snapshot)
    /\ UNCHANGED <<serverVars, screen, snapshot, text, imageUrls, stale, dirty, pickVars>>

\* snapshots() has an error: there is no data any more, and a dropdown that was
\* there is taken out of the form.
CategoriesFail ==
    /\ Faults
    /\ screen = "open"
    /\ categories # "failed"
    /\ categories' = "failed"
    /\ dropdown' = Empty
    /\ stale' = (stale \/ categories = "listed")
    /\ UNCHANGED <<serverVars, screen, snapshot, text, imageUrls, dirty, pickVars>>

\* Another tab, or the end of the process: the State and its runs are gone,
\* the queued writes are not.
Leave ==
    /\ screen # "closed"
    /\ screen' = "closed"
    /\ snapshot' = None
    /\ text' = Empty
    /\ images' = <<>>
    /\ imageUrls' = {}
    /\ categories' = "waiting"
    /\ dropdown' = Empty
    /\ stale' = FALSE
    /\ dirty' = FALSE
    /\ runs' = [r \in Runs |-> <<>>]
    /\ UNCHANGED serverVars

TypeText(t) ==
    /\ screen = "open"
    /\ text' = t
    /\ UNCHANGED <<serverVars, screen, snapshot, imageUrls, dropVars, dirty, pickVars>>

\* Mutant: the choice only reaches the form.
onChanged_LocalOnly(newValue) ==
    /\ screen = "open"
    /\ categories = "listed"
    /\ dropdown' = newValue
    /\ stale' = FALSE
    /\ dirty' = TRUE
    /\ UNCHANGED <<serverVars, screen, snapshot, text, imageUrls, categories, pickVars>>

\* An item of the dropdown is chosen: updateMainService writes it at once.
onChanged(newValue) ==
    /\ screen = "open"
    /\ categories = "listed"
    /\ dropdown' = newValue
    /\ stale' = FALSE
    /\ dirty' = TRUE
    /\ Enqueue("main", newValue)
    /\ UNCHANGED <<screen, snapshot, text, imageUrls, categories, pickVars>>

\* The frame after a setState.  The dropdown keeps its value, since the
\* initial value it is given has not changed.  Every build listens to the
\* categories anew: the data there is stays, and after an error it may come.
Rebuild ==
    /\ dirty
    /\ dirty' = FALSE
    /\ Fill(snapshot)
    /\ categories' = IF categories = "failed" THEN "waiting" ELSE categories
    /\ UNCHANGED <<serverVars, screen, snapshot, dropdown, stale, pickVars>>

\* 'Seleccionar Imagenes': the user picks pictures in some order.
selectImages(r, picked) ==
    /\ screen = "open"
    /\ runs[r] = <<>>
    /\ images' = picked
    /\ runs' = [runs EXCEPT ![r] = picked]
    /\ UNCHANGED <<serverVars, screen, snapshot, formVars, dirty>>

\* The picker throws: the pictures of the last time are uploaded again.
PickerFails(r) ==
    /\ Faults
    /\ screen = "open"
    /\ runs[r] = <<>>
    /\ images # <<>>
    /\ runs' = [runs EXCEPT ![r] = images]
    /\ UNCHANGED <<serverVars, screen, snapshot, formVars, dirty, images>>

\* putFile and getDownloadURL of the next picture complete.
Uploaded(r) ==
    /\ screen = "open"
    /\ runs[r] # <<>>
    /\ imageUrls' = imageUrls \cup {Head(runs[r])}
    /\ dirty' = TRUE
    /\ runs' = [runs EXCEPT ![r] = Tail(@)]
    /\ UNCHANGED <<serverVars, screen, snapshot, text, images, dropVars>>

\* One of them throws: the loop ends there.
UploadFails(r) ==
    /\ Faults
    /\ screen = "open"
    /\ runs[r] # <<>>
    /\ runs' = [runs EXCEPT ![r] = <<>>]
    /\ UNCHANGED <<serverVars, screen, snapshot, formVars, dirty, images>>

\* What 'GUARDAR' stores.
FormService == [text |-> text, images |-> imageUrls,
                checked |-> categories = "listed" /\ ~stale]

\* Mutant: the validator of the dropdown accepts the empty choice.
Guardar_AnyMain ==
    /\ screen = "open"
    /\ text # Empty
    /\ Enqueue("service", FormService)
    /\ UNCHANGED <<screen, snapshot, formVars, dirty, pickVars>>

\* 'GUARDAR': the validators of the fields there are ask for texts and, when
\* there is a dropdown, for a category.
Guardar ==
    /\ screen = "open"
    /\ text # Empty
    /\ categories = "listed" => dropdown # Empty
    /\ Enqueue("service", FormService)
    /\ UNCHANGED <<screen, snapshot, formVars, dirty, pickVars>>

\* The server applies the oldest write.
Acknowledge ==
    /\ queue # <<>>
    /\ stored' = IF Head(queue).op = "main"
                 THEN [stored EXCEPT !.main = Head(queue).value]
                 ELSE [stored EXCEPT !.service = Head(queue).value]
    /\ queue' = Tail(queue)
    /\ UNCHANGED <<screen, snapshot, formVars, dirty, pickVars>>

----------------------------------------------------------------------------

\* What the picker can answer: one or two pictures, each once.
Picks == {s \in UNION {[1..n -> Files] : n \in 1..2} : \A i, j \in DOMAIN s : s[i] = s[j] => i = j}

Next ==
    \/ initState
    \/ Loaded
    \/ LoadFails
    \/ CategoriesListed
    \/ CategoriesFail
    \/ Leave
    \/ \E t \in Texts \cup {Empty} : TypeText(t)
    \/ \E c \in Choices : onChanged(c)
    \/ Rebuild
    \/ \E r \in Runs, picked \in Picks : selectImages(r, picked)
    \/ \E r \in Runs : PickerFails(r) \/ Uploaded(r) \/ UploadFails(r)
    \/ Guardar
    \/ Acknowledge

Spec == Init /\ [][Next]_vars

----------------------------------------------------------------------------
(* Properties *)

\* The category the dropdown shows is the one that will be stored: it was read
\* with the pending writes, and every later choice was sent at once.  Only a
\* dropdown that comes back after its list of categories had failed shows the
\* category of the first build, until one is chosen in it.
DropdownIsStored ==
    screen = "open" /\ ~stale /\ dropdown # Empty => dropdown = View.main

ProviderRecord ==
    INSTANCE PrestadorRecord WITH main <- stored.main, service <- stored.service

\* A service that was validated together with its dropdown is stored only when
\* the provider's main category already is, although the two are separate
\* writes of separate widgets, the screen may be left and reopened, and the
\* process may end in between.
ImplementsRecord == ProviderRecord!Spec

\* "si 'service' existe, llena los campos con los valores existentes"
\* (profile_prestador_config_screen.dart 207): a build fills the text fields
\* with the values the document has.
FieldsShowStored == [][Rebuild => text' = TextOf(View.service)]_vars

=============================================================================
