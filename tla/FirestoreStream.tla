-------------------------- MODULE FirestoreStream ---------------------------
(***************************************************************************)
(* Stream, the class behind the write stream and the watch stream of the   *)
(* Firestore client (remote/stream.cc): the state machine both share.  A   *)
(* stream is a record with at least the fields                             *)
(*                                                                         *)
(*   state  Initial, Starting, Backoff, Open or Error.  Healthy is Open:   *)
(*          the two differ only in whether an "unauthenticated" error      *)
(*          discards the token;                                            *)
(*   idle   the idleness timer is running.                                 *)
(*                                                                         *)
(* A credential request outlives the stream that made it: `live' stands    *)
(* for "close_count_ is still what it was when I asked".  The delays of    *)
(* ExponentialBackoff only decide when BackoffElapsed happens.             *)
(***************************************************************************)
EXTENDS FiniteSets

StreamStates == {"Initial", "Starting", "Backoff", "Open", "Error"}

IsOpen(s) == s.state = "Open"

IsStarted(s) == s.state \in {"Starting", "Backoff", "Open"}

\* Start: after an error it only backs off; BackoffElapsed starts it.
Start(s) ==
    [s EXCEPT !.state = IF s.state = "Error" THEN "Backoff" ELSE "Starting"]

\* Start asks for credentials unless it backs off first.
Asks(s) == s.state # "Error"

MarkIdle(s) == [s EXCEPT !.idle = s.idle \/ IsOpen(s)]

\* Mutant: a write does not stop the idleness timer.
CancelIdleCheck_Not(s) == s

CancelIdleCheck(s) == [s EXCEPT !.idle = FALSE]

\* Close, up to the call of NotifyStreamClose.  A graceful stop of a stream
\* that is not started changes nothing.
Close(s, graceful) ==
    IF graceful /\ ~IsStarted(s) THEN s
    ELSE [s EXCEPT !.state = IF graceful THEN "Initial" ELSE "Error",
                   !.idle = FALSE]

InhibitBackoff(s) == [s EXCEPT !.state = "Initial"]

=============================================================================
