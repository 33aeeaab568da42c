------------------------- MODULE MarketplaceProofs -------------------------
(***************************************************************************)
(* Only providers can be found.  By itself OnlyProvidersOffer is not       *)
(* inductive: a device writes mainService and service because of the role  *)
(* it read when MainScreen opened.  TabsAreCurrent says why that reading   *)
(* is still good: the document may be gone meanwhile, but unless the       *)
(* account registers anew under the open tabs, no write takes a role away. *)
(***************************************************************************)
EXTENDS Marketplace, FiniteSetTheorems, TLAPS

\* The tabs of a prestador belong to a document that still has the role, unless
\* the account has registered anew under them.
TabsAreCurrent ==
    \A p \in Providers \ anew :
        tabs[p] = "prestador" /\ docs[p] # None => docs[p].prestador

\* The inductive invariant of the documents and the tabs.
Inv ==
    /\ docs \in [Users -> Doc \cup {None}]
    /\ tabs \in [Providers -> {"none", "cliente", "prestador"}]
    /\ anew \subseteq Providers
    /\ TabsAreCurrent
    /\ OnlyProvidersOffer

\* Every provider's document is one of the collection.
LEMMA ProvidersAreUsers == Providers \subseteq Users
  BY DEF Users

\* An update of p's document that keeps its role, or gives it one, keeps Inv.
LEMMA UpdateKeepsInv ==
    ASSUME Inv, NEW p \in Providers, NEW d \in Doc, Update(p, d),
           p \notin anew => (docs[p].prestador => d.prestador),
           p \notin anew => (d.main # None \/ d.service => d.prestador)
    PROVE  Inv'
<1>1. docs' = [docs EXCEPT ![p] = d] /\ tabs' = tabs /\ docs[p] # None /\ anew' = anew
  BY DEF Update
<1>2. docs' \in [Users -> Doc \cup {None}]
  BY <1>1 DEF Inv
<1>3. \A u \in Users : docs'[u] = IF u = p THEN d ELSE docs[u]
  BY <1>1 DEF Inv
<1>4. TabsAreCurrent'
  BY <1>1, <1>3, ProvidersAreUsers DEF Inv, TabsAreCurrent
<1>5. OnlyProvidersOffer'
  BY <1>1, <1>3 DEF Inv, OnlyProvidersOffer
<1> QED BY <1>1, <1>2, <1>4, <1>5 DEF Inv

\* Every step of the providers, of the tool and of the listing keeps Inv.
LEMMA InvInductive == Inv /\ [Next]_vars => Inv'
<1> SUFFICES ASSUME Inv, [Next]_vars PROVE Inv'
  OBVIOUS
<1> USE ProvidersAreUsers
<1>1. ASSUME NEW p \in Providers, Register(p) PROVE Inv'
  <2> DEFINE d == [prestador |-> FALSE, main |-> None, service |-> FALSE]
  <2>1. /\ docs' = [docs EXCEPT ![p] = d] /\ tabs' = tabs
        /\ anew' = IF tabs[p] = "prestador" THEN anew \cup {p} ELSE anew
    BY <1>1 DEF Register
  <2>2. d \in Doc BY DEF Doc
  <2>3. docs' \in [Users -> Doc \cup {None}] BY <2>1, <2>2 DEF Inv
  <2>4. \A u \in Users : docs'[u] = IF u = p THEN d ELSE docs[u]
    BY <2>1 DEF Inv
  <2>5. TabsAreCurrent' BY <2>1, <2>4 DEF Inv, TabsAreCurrent
  <2>6. OnlyProvidersOffer' BY <2>1, <2>4 DEF Inv, OnlyProvidersOffer
  <2> QED BY <2>1, <2>3, <2>5, <2>6 DEF Inv
<1>2. ASSUME NEW p \in Providers, fetchData(p) PROVE Inv'
  BY <1>2 DEF fetchData, Inv, TabsAreCurrent, OnlyProvidersOffer
<1>3. ASSUME NEW p \in Providers, CloseMain(p) PROVE Inv'
  BY <1>3 DEF CloseMain, Inv, TabsAreCurrent, OnlyProvidersOffer
<1>4. ASSUME NEW p \in Providers, convertToPrestador(p) PROVE Inv'
  <2> DEFINE d == [docs[p] EXCEPT !.prestador = TRUE]
  <2>1. Update(p, d) BY <1>4 DEF convertToPrestador
  <2>2. docs[p] \in Doc BY <2>1 DEF Update, Inv
  <2>3. d \in Doc /\ d.prestador BY <2>2 DEF Doc
  <2> QED BY <2>1, <2>3, UpdateKeepsInv
<1>5. ASSUME NEW p \in Providers, NEW c \in Categories \cup {Empty}, updateMainService(p, c)
      PROVE  Inv'
  <2> DEFINE d == [docs[p] EXCEPT !.main = c]
  <2>1. Update(p, d) /\ tabs[p] = "prestador" BY <1>5 DEF updateMainService
  <2>2. docs[p] \in Doc /\ (p \notin anew => docs[p].prestador)
    BY <2>1 DEF Update, Inv, TabsAreCurrent
  <2>3. d \in Doc /\ d.prestador = docs[p].prestador BY <2>2 DEF Doc
  <2> QED BY <2>1, <2>2, <2>3, UpdateKeepsInv
<1>6. ASSUME NEW p \in Providers, SaveService(p) PROVE Inv'
  <2> DEFINE d == [docs[p] EXCEPT !.service = TRUE]
  <2>1. Update(p, d) /\ tabs[p] = "prestador" BY <1>6 DEF SaveService
  <2>2. docs[p] \in Doc /\ (p \notin anew => docs[p].prestador)
    BY <2>1 DEF Update, Inv, TabsAreCurrent
  <2>3. d \in Doc /\ d.prestador = docs[p].prestador BY <2>2 DEF Doc
  <2> QED BY <2>1, <2>2, <2>3, UpdateKeepsInv
<1>7. CASE uploadRandomUsersPrestadorData
  <2> DEFINE s == [prestador |-> TRUE, main |-> SeedCategory, service |-> TRUE]
  <2>1. s \in Doc BY MarketplaceAssumption DEF Doc
  <2>2. docs' = [u \in Users |-> IF u \in Seeded THEN s ELSE docs[u]] /\ tabs' = tabs
        /\ anew' = anew
    BY <1>7 DEF uploadRandomUsersPrestadorData
  <2>3. \A u \in Users : docs'[u] = IF u \in Seeded THEN s ELSE docs[u]
    BY <2>2
  <2>4. docs' \in [Users -> Doc \cup {None}] BY <2>1, <2>2 DEF Inv
  <2>5. s.prestador OBVIOUS
  <2>6. TabsAreCurrent' BY <2>2, <2>3, <2>5 DEF Inv, TabsAreCurrent
  <2>7. OnlyProvidersOffer' BY <2>2, <2>3, <2>5 DEF Inv, OnlyProvidersOffer
  <2> QED BY <2>2, <2>4, <2>6, <2>7 DEF Inv
<1>8. CASE deleteAllUsersWithCampo
  <2>1. PICK gone \in SUBSET {u \in Users : docs[u] # None} :
            docs' = [u \in Users |-> IF u \in gone THEN None ELSE docs[u]]
    BY <1>8 DEF deleteAllUsersWithCampo
  <2>2. tabs' = tabs /\ anew' = anew BY <1>8 DEF deleteAllUsersWithCampo
  <2> QED BY <2>1, <2>2 DEF Inv, TabsAreCurrent, OnlyProvidersOffer
<1>9. ASSUME docs' = docs, tabs' = tabs, anew' = anew PROVE Inv'
  BY <1>9 DEF Inv, TabsAreCurrent, OnlyProvidersOffer
<1>10. CASE \E c \in Categories : initState(c)
  BY <1>9, <1>10 DEF initState
<1>11. CASE getProfiles
  BY <1>9, <1>11 DEF getProfiles
<1>12. CASE getProfilesFails \/ onSwipeCompleted \/ Back \/ UNCHANGED vars
  BY <1>9, <1>12 DEF getProfilesFails, onSwipeCompleted, Back, vars
<1> QED
  BY <1>1, <1>2, <1>3, <1>4, <1>5, <1>6, <1>7, <1>8, <1>10, <1>11, <1>12
     DEF Next

\* Registrations, conversions, choices, seedings and deletions on any number of
\* devices never put a main category or a service on the document of a client,
\* unless RegisterScreen wrote that document under the open tabs of a prestador.
THEOREM OnlyProvidersAreFound == Spec => []OnlyProvidersOffer
<1>1. Init => Inv
  BY DEF Init, Inv, TabsAreCurrent, OnlyProvidersOffer
<1>2. Inv => OnlyProvidersOffer
  BY DEF Inv
<1> QED BY <1>1, <1>2, InvInductive, PTL DEF Spec

----------------------------------------------------------------------------
(* The deck of cards *)

\* A deck that waits for its answer is empty and at its first card: what keeps
\* the answer from leaving the deck beyond its last card.
WaitingIsFresh == listing.state = "waiting" => listing.next = 1

\* With the listing: its deck never runs beyond its last card.
ListingInv ==
    /\ Inv
    /\ listing \in Listing
    /\ listing.next <= Len(listing.cards) + 1
    /\ seeded \in BOOLEAN
    /\ WaitingIsFresh

\* The answers of a query are finitely many cards of users.
LEMMA CardsType ==
    ASSUME NEW c, NEW cards \in SetToSeqs(Matches(c))
    PROVE  cards \in Seq(Users)
<1> DEFINE hits == Matches(c)
<1>1. IsFiniteSet(Users)
  BY MarketplaceAssumption, FS_Union DEF Users
<1>2. hits \subseteq Users
  BY DEF Matches
<1>3. Cardinality(hits) \in Nat
  BY <1>1, <1>2, FS_Subset, FS_CardinalityType
<1>4. cards \in [1..Cardinality(hits) -> hits]
  BY DEF SetToSeqs
<1> HIDE DEF hits
<1> QED BY <1>2, <1>3, <1>4

\* Every step keeps the deck at one of its cards or just behind the last one.
LEMMA ListingInvInductive == ListingInv /\ [Next]_vars => ListingInv'
<1> SUFFICES ASSUME ListingInv, [Next]_vars PROVE ListingInv'
  OBVIOUS
<1>0. Inv'
  BY InvInductive DEF ListingInv
<1>1. listing \in Listing /\ listing.next \in Nat /\ listing.cards \in Seq(Users)
  BY DEF ListingInv, Listing
<1>2. CASE UNCHANGED listing
  <2>1. seeded' \in BOOLEAN
    BY <1>2 DEF ListingInv, Next, vars, Register, fetchData, CloseMain, Update,
                convertToPrestador, updateMainService, SaveService,
                uploadRandomUsersPrestadorData, deleteAllUsersWithCampo,
                initState, getProfiles, getProfilesFails, onSwipeCompleted, Back
  <2> QED BY <1>0, <1>2, <2>1 DEF ListingInv, WaitingIsFresh
<1>3. Closed \in Listing /\ Closed.next <= Len(Closed.cards) + 1
      /\ Closed.state = "closed" /\ Closed.next = 1 /\ Closed.cards = <<>>
  <2>1. <<>> \in Seq(Users) /\ Len(<<>>) = 0 /\ 1 \in Nat \ {0}
    OBVIOUS
  <2> QED BY <2>1 DEF Closed, Listing
<1>4. ASSUME NEW c \in Categories, initState(c) PROVE ListingInv'
  <2>1. listing' = [Closed EXCEPT !.state = "waiting", !.category = c]
        /\ seeded' = seeded
    BY <1>4 DEF initState
  <2>2. listing' \in Listing /\ listing'.next = 1 /\ listing'.cards = <<>>
    BY <1>3, <2>1 DEF Listing
  <2>3. listing'.next <= Len(listing'.cards) + 1
    BY <2>2
  <2> QED BY <1>0, <2>1, <2>2, <2>3 DEF ListingInv, WaitingIsFresh
<1>5. CASE getProfiles
  <2>1. listing.state = "waiting" /\ listing.next = 1 /\ seeded' = seeded
    BY <1>5 DEF getProfiles, ListingInv, WaitingIsFresh
  <2>2. CASE listing' = [listing EXCEPT !.state = "failed"]
    BY <1>0, <1>1, <2>1, <2>2 DEF ListingInv, WaitingIsFresh, Listing
  <2>3. ASSUME NEW cards \in SetToSeqs(Matches(listing.category)),
               listing' = [listing EXCEPT !.state = "shown", !.cards = cards]
        PROVE  ListingInv'
    <3>1. cards \in Seq(Users)
      BY CardsType
    <3>2. /\ listing' \in Listing /\ listing'.next = 1 /\ listing'.cards = cards
          /\ listing'.state = "shown"
      BY <1>1, <2>1, <2>3, <3>1 DEF Listing
    <3>3. listing'.next <= Len(listing'.cards) + 1
      BY <3>1, <3>2
    <3> QED BY <1>0, <2>1, <3>2, <3>3 DEF ListingInv, WaitingIsFresh
  <2> QED BY <1>5, <2>2, <2>3 DEF getProfiles
<1>6. CASE getProfilesFails
  BY <1>0, <1>1, <1>6 DEF getProfilesFails, ListingInv, WaitingIsFresh, Listing
<1>7. CASE onSwipeCompleted
  <2>1. /\ listing.state = "shown" /\ listing.next <= Len(listing.cards)
        /\ listing' = [listing EXCEPT !.next = listing.next + 1]
        /\ seeded' = seeded
    BY <1>7 DEF onSwipeCompleted
  <2>2. listing.next + 1 \in Nat \ {0}
    BY <1>1
  <2>3. /\ listing' \in Listing /\ listing'.next = listing.next + 1
        /\ listing'.cards = listing.cards /\ listing'.state = "shown"
    BY <1>1, <2>1, <2>2 DEF Listing
  <2>4. listing'.next <= Len(listing'.cards) + 1
    BY <1>1, <2>1, <2>3
  <2> QED BY <1>0, <2>1, <2>3, <2>4 DEF ListingInv, WaitingIsFresh
<1>8. CASE Back
  BY <1>0, <1>3, <1>8 DEF Back, ListingInv, WaitingIsFresh
<1>9. \/ UNCHANGED listing
      \/ \E c \in Categories : initState(c)
      \/ getProfiles \/ getProfilesFails \/ onSwipeCompleted \/ Back
  BY DEF Next, vars, Register, fetchData, CloseMain, Update, convertToPrestador,
         updateMainService, SaveService, uploadRandomUsersPrestadorData,
         deleteAllUsersWithCampo
<1> QED BY <1>2, <1>4, <1>5, <1>6, <1>7, <1>8, <1>9

\* The collection, the tabs and the deck keep their types, and onSwipeCompleted
\* never moves the deck of CategorySelectionScreen more than one position behind
\* its last card, however many providers its query found.
THEOREM MarketplaceTypeCorrect == Spec => []TypeOK
<1>1. Init => ListingInv
  <2> SUFFICES ASSUME Init PROVE ListingInv
    OBVIOUS
  <2>1. Inv
    BY DEF Init, Inv, TabsAreCurrent, OnlyProvidersOffer
  <2>2. <<>> \in Seq(Users) /\ Len(<<>>) = 0 /\ 1 \in Nat \ {0}
    OBVIOUS
  <2>3. listing \in Listing /\ listing.next = 1 /\ listing.cards = <<>>
    BY <2>2 DEF Init, Closed, Listing
  <2>4. listing.next <= Len(listing.cards) + 1
    BY <2>2, <2>3
  <2> QED BY <2>1, <2>3, <2>4 DEF Init, ListingInv, WaitingIsFresh
<1>2. ListingInv => TypeOK
  BY DEF ListingInv, Inv, TypeOK
<1> QED BY <1>1, <1>2, ListingInvInductive, PTL DEF Spec

=============================================================================
