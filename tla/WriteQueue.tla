----------------------------- MODULE WriteQueue -----------------------------
(***************************************************************************)
(* What the Firestore client promises about the writes of every account,   *)
(* without streams, tokens, queues of callbacks or crashes: the writes of  *)
(* an account are carried out in the order in which they were issued, and  *)
(* each is carried out at least once before its caller is told so.  A pass *)
(* over the pending writes may be given up at any time; the next one       *)
(* starts again from the first write that is still pending, so the server  *)
(* can go back, but never behind a write whose caller was told.            *)
(***************************************************************************)
EXTENDS Naturals, Sequences

CONSTANT Users

VARIABLES
    pending,    \* the writes of each account not yet settled, oldest first
    cursor,     \* how many of them the current pass has carried out
    server,     \* the last write carried out for each account (0: none)
    told        \* what the caller of each write was told

vars == <<pending, cursor, server, told>>

-----------------------------------------------------------------------------

Init ==
    /\ pending = [u \in Users |-> <<>>]
    /\ cursor = [u \in Users |-> 0]
    /\ server = [u \in Users |-> 0]
    /\ told = <<>>

\* A new write is numbered after all the earlier ones.
Issue(u) ==
    /\ told' = Append(told, "waiting")
    /\ pending' = [pending EXCEPT ![u] = Append(@, Len(told) + 1)]
    /\ UNCHANGED <<cursor, server>>

Apply(u) ==
    /\ cursor[u] < Len(pending[u])
    /\ cursor' = [cursor EXCEPT ![u] = @ + 1]
    /\ server' = [server EXCEPT ![u] = pending[u][cursor[u] + 1]]
    /\ UNCHANGED <<pending, told>>

\* All the passes are given up.
Rewind ==
    /\ cursor' = [u \in Users |-> 0]
    /\ UNCHANGED <<pending, server, told>>

\* The caller of the oldest write is told, or is no longer there.
Tells(u, outcome) ==
    told' \in {told, [told EXCEPT ![Head(pending[u])] = outcome]}

Acknowledge(u) ==
    /\ cursor[u] > 0
    /\ cursor' = [cursor EXCEPT ![u] = @ - 1]
    /\ pending' = [pending EXCEPT ![u] = Tail(@)]
    /\ Tells(u, "ok")
    /\ UNCHANGED server

\* The process ends after the caller was told and before that was recorded.
TellOnly(u) ==
    /\ cursor[u] > 0
    /\ cursor' = [v \in Users |-> 0]
    /\ Tells(u, "ok")
    /\ UNCHANGED <<pending, server>>

\* The oldest write is given up, and the pass with it.  It may be one that the
\* pass had carried out, when what was answered is lost with the refusal.
Refuse(u) ==
    /\ pending[u] # <<>>
    /\ cursor' = [cursor EXCEPT ![u] = 0]
    /\ pending' = [pending EXCEPT ![u] = Tail(@)]
    /\ Tells(u, "error")
    /\ UNCHANGED server

Next ==
    \/ Rewind
    \/ \E u \in Users :
           \/ Issue(u)
           \/ Apply(u)
           \/ Acknowledge(u)
           \/ TellOnly(u)
           \/ Refuse(u)

Spec == Init /\ [][Next]_vars

=============================================================================
