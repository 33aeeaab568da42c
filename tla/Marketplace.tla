---------------------------- MODULE Marketplace ----------------------------
(***************************************************************************)
(* Clients looking for service providers: CategorySelectionScreen lists    *)
(* the providers of a category while those providers register, convert,    *)
(* choose their main category and save their service on devices of their   *)
(* own, and while the developer's tool (upload_data.dart) seeds and        *)
(* deletes documents.                                                      *)
(*                                                                         *)
(* A provider's device reaches the server through the operations of        *)
(* Session and PrestadorConfig.  An account is used on one device: tabs is *)
(* what its MainScreen shows, from the document as it was when it opened.  *)
(***************************************************************************)
EXTENDS Naturals, Sequences, FiniteSets, SequencesExt

CONSTANTS
    Providers,   \* accounts of people who may become providers
    Seeded,      \* documents uploadRandomUsersPrestadorData creates
    Categories,  \* ids of the documents of 'serviceCategories'
    SeedCategory,\* the mainService of the seeded documents
    None,        \* null, or a field the document does not have
    Empty,       \* the empty string
    Faults       \* whether a remote call may fail

ASSUME MarketplaceAssumption ==
    /\ Providers \cap Seeded = {}
    /\ IsFiniteSet(Providers) /\ IsFiniteSet(Seeded)
    /\ SeedCategory \in Categories
    /\ {None, Empty} \cap Categories = {}
    /\ Faults \in BOOLEAN

VARIABLES
    docs,      \* the 'users' collection: role, mainService and service
    tabs,      \* tabs[p]: the tabs of the MainScreen of p, if any
    listing,   \* the CategorySelectionScreen of one client
    seeded,    \* the seeding button was pressed
    anew       \* history: accounts that registered while the tabs of a prestador,
               \* read from an earlier document, were open on the device

vars == <<docs, tabs, listing, seeded, anew>>

Users == Providers \cup Seeded

\* service: whether the document has one.
Doc == [prestador: BOOLEAN, main: Categories \cup {None, Empty}, service: BOOLEAN]

\* cards: the ProfileCards, by their owner; next: the card on top of the deck.
Listing == [state: {"closed", "waiting", "shown", "failed"},
            category: Categories \cup {None},
            cards: Seq(Users),
            next: Nat \ {0}]

Closed == [state |-> "closed", category |-> None, cards |-> <<>>, next |-> 1]

TypeOK ==
    /\ docs \in [Users -> Doc \cup {None}]
    /\ tabs \in [Providers -> {"none", "cliente", "prestador"}]
    /\ listing \in Listing
    /\ listing.next <= Len(listing.cards) + 1
    /\ seeded \in BOOLEAN
    /\ anew \subseteq Providers

Init ==
    /\ docs = [u \in Users |-> None]
    /\ tabs = [p \in Providers |-> "none"]
    /\ listing = Closed
    /\ seeded = FALSE
    /\ anew = {}

----------------------------------------------------------------------------
(* Providers and the developer's tool *)

\* RegisterScreen, which a redirect may also put over a MainScreen that stays
\* open: set() leaves no role, main category or service behind.
Register(p) ==
    /\ docs' = [docs EXCEPT ![p] = [prestador |-> FALSE, main |-> None, service |-> FALSE]]
    /\ anew' = IF tabs[p] = "prestador" THEN anew \cup {p} ELSE anew
    /\ UNCHANGED <<tabs, listing, seeded>>

\* MainScreen reads the document once, and chooses its tabs by the role.
fetchData(p) ==
    /\ docs[p] # None
    /\ tabs' = [tabs EXCEPT ![p] = IF docs[p].prestador THEN "prestador" ELSE "cliente"]
    /\ UNCHANGED <<docs, listing, seeded, anew>>

\* A sign-out or the end of the process.
CloseMain(p) ==
    /\ tabs[p] # "none"
    /\ tabs' = [tabs EXCEPT ![p] = "none"]
    /\ UNCHANGED <<docs, listing, seeded, anew>>

\* update() of an existing document.
Update(p, d) ==
    /\ docs[p] # None
    /\ docs' = [docs EXCEPT ![p] = d]
    /\ UNCHANGED <<tabs, listing, seeded, anew>>

\* The button of the profile tab, which both roles have.
convertToPrestador(p) ==
    /\ tabs[p] # "none"
    /\ Update(p, [docs[p] EXCEPT !.prestador = TRUE])

\* Mutant: the configuration tab is one of a client's tabs too.
updateMainService_AnyTab(p, c) ==
    /\ tabs[p] # "none"
    /\ Update(p, [docs[p] EXCEPT !.main = c])

\* The dropdown of the configuration tab.
updateMainService(p, c) ==
    /\ tabs[p] = "prestador"
    /\ Update(p, [docs[p] EXCEPT !.main = c])

\* 'GUARDAR' of the same tab, with or without a main category: the form may
\* have no dropdown yet, and may belong to an earlier document.
SaveService(p) ==
    /\ tabs[p] = "prestador"
    /\ Update(p, [docs[p] EXCEPT !.service = TRUE])

uploadRandomUsersPrestadorData ==
    /\ ~seeded
    /\ seeded' = TRUE
    /\ docs' = [u \in Users |->
                  IF u \in Seeded
                  THEN [prestador |-> TRUE, main |-> SeedCategory, service |-> TRUE]
                  ELSE docs[u]]
    /\ UNCHANGED <<tabs, listing, anew>>

\* One batch: the documents whose lastConnection is recent enough.
deleteAllUsersWithCampo ==
    /\ \E gone \in SUBSET {u \in Users : docs[u] # None} :
         docs' = [u \in Users |-> IF u \in gone THEN None ELSE docs[u]]
    /\ UNCHANGED <<tabs, listing, seeded, anew>>

----------------------------------------------------------------------------
(* CategorySelectionScreen *)

\* A category of CategoryHomeScreen is tapped; initState sends the query.
initState(c) ==
    /\ listing.state = "closed"
    /\ listing' = [Closed EXCEPT !.state = "waiting", !.category = c]
    /\ UNCHANGED <<docs, tabs, seeded, anew>>

\* The documents the query of getProfiles matches.
Matches(c) == {u \in Users : docs[u] # None /\ docs[u].prestador /\ docs[u].main = c}

\* The answer: a card per document, in the order of their ids; a document
\* without a service makes getProfiles throw, and no card is shown.
getProfiles ==
    /\ listing.state = "waiting"
    /\ LET hits == Matches(listing.category)
       IN  IF \A u \in hits : docs[u].service
           THEN \E cards \in SetToSeqs(hits) :
                    listing' = [listing EXCEPT !.state = "shown", !.cards = cards]
           ELSE listing' = [listing EXCEPT !.state = "failed"]
    /\ UNCHANGED <<docs, tabs, seeded, anew>>

getProfilesFails ==
    /\ Faults
    /\ listing.state = "waiting"
    /\ listing' = [listing EXCEPT !.state = "failed"]
    /\ UNCHANGED <<docs, tabs, seeded, anew>>

\* Mutant: the deck does not stop at its last card.
onSwipeCompleted_Endless ==
    /\ listing.state = "shown"
    /\ listing' = [listing EXCEPT !.next = @ + 1]
    /\ UNCHANGED <<docs, tabs, seeded, anew>>

\* A card is swiped, or one of the two buttons is pressed: it is only printed.
onSwipeCompleted ==
    /\ listing.state = "shown"
    /\ listing.next <= Len(listing.cards)
    /\ listing' = [listing EXCEPT !.next = @ + 1]
    /\ UNCHANGED <<docs, tabs, seeded, anew>>

Back ==
    /\ listing.state # "closed"
    /\ listing' = Closed
    /\ UNCHANGED <<docs, tabs, seeded, anew>>

----------------------------------------------------------------------------

Next ==
    \/ \E p \in Providers :
        \/ Register(p)
        \/ fetchData(p)
        \/ CloseMain(p)
        \/ convertToPrestador(p)
        \/ \E c \in Categories \cup {Empty} : updateMainService(p, c)
        \/ SaveService(p)
    \/ uploadRandomUsersPrestadorData
    \/ deleteAllUsersWithCampo
    \/ \E c \in Categories : initState(c)
    \/ getProfiles
    \/ getProfilesFails
    \/ onSwipeCompleted
    \/ Back

Spec == Init /\ [][Next]_vars

----------------------------------------------------------------------------
(* Properties *)

\* Whoever can be found in a category, or has a service, is a prestador: the
\* tabs of a device come from the role its MainScreen once read, and the document
\* may be deleted before the tabs are used.  The one exception is an account that
\* registers anew while such tabs are open: they go on writing to a document
\* that has no role.
OnlyProvidersOffer ==
    \A u \in Users \ anew :
        docs[u] # None /\ (docs[u].main # None \/ docs[u].service) => docs[u].prestador

\* "get all users in firestore with the role "prestador" and return the list
\* of ProfileCard" (category_selection_screen.dart 27): an answer shows a card
\* for every matching provider whose service is stored.
ListingComplete ==
    [][getProfiles =>
         {u \in Matches(listing.category) : docs[u].service} \subseteq ToSet(listing'.cards)]_vars

=============================================================================
