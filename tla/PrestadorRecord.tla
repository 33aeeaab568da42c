-------------------------- MODULE PrestadorRecord --------------------------
(***************************************************************************)
(* What the stored document of a service provider may go through: the main *)
(* category may be changed at any time, also back to "none chosen", but a  *)
(* service (skills, description, pictures) that was checked together with  *)
(* the choice of the category is only stored for a provider whose main     *)
(* category is stored by then, since the listings of                       *)
(* CategorySelectionScreen find providers by it.                           *)
(***************************************************************************)
CONSTANTS Categories, Services, None, Empty

VARIABLES main, service

Init ==
    /\ main \in Categories \cup {None, Empty}
    /\ service \in Services \cup {None}
    /\ service # None /\ service.checked => main # None

ChangeMain ==
    /\ main' \in Categories \cup {Empty}
    /\ UNCHANGED service

StoreService ==
    /\ service' \in Services
    /\ service'.checked => main \in Categories
    /\ UNCHANGED main

Next == ChangeMain \/ StoreService

Spec == Init /\ [][Next]_<<main, service>>

=============================================================================
