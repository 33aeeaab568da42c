-------------------------- MODULE AccountLifecycle --------------------------
(***************************************************************************)
(* What the application promises about a user's account, whatever the      *)
(* screens, devices, late answers and restarts in between: an account is   *)
(* registered, then onboarded, then possibly converted into a service      *)
(* provider ("prestador"), one stage at a time and never backwards, except *)
(* that an administrator may delete it.                                    *)
(***************************************************************************)
CONSTANT Accounts

VARIABLE stage   \* stage[a]: how far account a has come

Stages == {"absent", "registered", "onboarded", "prestador"}

Init == stage \in [Accounts -> Stages]

Advance(a, from, to) ==
    /\ stage[a] = from
    /\ stage' = [stage EXCEPT ![a] = to]

Delete(gone) ==
    stage' = [a \in Accounts |-> IF a \in gone THEN "absent" ELSE stage[a]]

Next ==
    \/ \E a \in Accounts :
        \/ Advance(a, "absent", "registered")
        \/ Advance(a, "registered", "onboarded")
        \/ Advance(a, "onboarded", "prestador")
    \/ \E gone \in SUBSET Accounts : Delete(gone)

Spec == Init /\ [][Next]_stage

=============================================================================
