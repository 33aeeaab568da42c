-------------------------- MODULE FirestoreWrites ---------------------------
(***************************************************************************)
(* The way of a write through the Firestore client of the iOS application  *)
(* (ios/Pods/FirebaseFirestore/Firestore/core): the persistent mutation    *)
(* queue of every user, SyncEngine's callbacks, RemoteStore's pipeline and *)
(* the write stream, with the credentials FIRAuth hands out.               *)
(*                                                                         *)
(* Three threads take part.  FIRAuth changes the current user and fetches  *)
(* tokens on its own queue and posts both on the main queue (mainQ).  The  *)
(* main queue posts what concerns Firestore on the worker queue (workerQ). *)
(* Everything else runs on the worker queue, one operation at a time; an   *)
(* event that gRPC, a timer or the application puts there is an action,    *)
(* because it can come between any two others.                             *)
(*                                                                         *)
(* Writes are numbered in the order in which they are issued.              *)
(***************************************************************************)
EXTENDS FirestoreStream, Naturals, Integers, Sequences, SequencesExt

CONSTANTS
    Users,          \* the accounts, and who is signed out
    SignedOut,      \* the user of a client without a session
    NoToken,        \* a token request that failed
    MaxPending,     \* kMaxPendingWrites
    MaxWrites,      \* bound: writes issued
    MaxAuthEvents,  \* bound: sign-ins, sign-outs and token refreshes
    MaxFaults       \* bound: failures of network, server, token and process

ASSUME WritesAssumption ==
    /\ SignedOut \in Users
    /\ NoToken \notin Users
    /\ MaxPending \in Nat \ {0}
    /\ MaxWrites \in Nat
    /\ MaxAuthEvents \in Nat
    /\ MaxFaults \in Nat

VARIABLES
    authUser,   \* FIRAuth: _currentUser (kept in the keychain)
    mainQ,      \* blocks posted on the main queue
    asked,      \* token requests FIRAuth has not answered
    workerQ,    \* operations the main queue posted on the worker queue
    user,       \* SyncEngine: current_user_
    queue,      \* LevelDbMutationQueue: the batches of each user (on disk)
    nextId,     \* LevelDbMutationQueue: next_batch_id_
    callbacks,  \* SyncEngine: mutation_callbacks_
    pipeline,   \* RemoteStore: write_pipeline_
    stream,     \* WriteStream
    wire,       \* the call: messages the server has not handled
    answers,    \* the call: answers the client has not read
    verdict,    \* the call: the status it has ended with, not yet read
    server,     \* the last write the server carried out for each user
    applied,    \* <<w, u>>: the server carried out w, sent with u's token
    refused,    \* the writes the server refused for good
    writer,     \* the user each write was issued by
    told,       \* what the caller of each write was told
    authEvents, \* how many sign-ins, sign-outs and refreshes there were
    faults      \* how many failures there were

authVars == <<authUser, mainQ, asked, authEvents>>
clientVars == <<user, queue, nextId, callbacks>>
callVars == <<wire, answers, verdict>>
serverVars == <<server, applied, refused>>
history == <<writer, told>>
vars == <<authVars, workerQ, clientVars, pipeline, stream, callVars,
          serverVars, history, faults>>

Writes == 1 .. MaxWrites

Batch == [id : Nat, w : Writes]

Handshake == 0

\* A block on a queue, and a token request that is still to be answered.
Message == [kind : {"notify", "token"}, live : BOOLEAN, fresh : BOOLEAN,
            user : Users \cup {NoToken}]

Request == [live : BOOLEAN, fresh : BOOLEAN]

NewRequest == [live |-> TRUE, fresh |-> TRUE]

\* ++close_count_: what was asked for earlier is of no use any more.
Dead(q) == [i \in DOMAIN q |-> [q[i] EXCEPT !.live = FALSE]]

\* Mutant: close_count_ is not incremented.
DeadRequests_Alive(rs) == rs

DeadRequests(rs) == {[r EXCEPT !.live = FALSE] : r \in rs}

-----------------------------------------------------------------------------
(* LocalStore and LevelDbMutationQueue.                                    *)

\* The ids of all users' batches share one sequence: a new one is greater
\* than every id that is still stored.
LoadNextBatchIdFromDb(q) ==
    LET ids == UNION {{q[u][i].id : i \in DOMAIN q[u]} : u \in Users}
    IN  Max(ids \cup {0}) + 1

\* The batches that NextMutationBatchAfterBatchId returns one by one, from
\* the first key after id that Seek finds.
BatchesAfter(q, id) ==
    SubSeq(q, Min({i \in DOMAIN q : q[i].id > id} \cup {Len(q) + 1}), Len(q))

\* Mutant: the batch stays on disk.
RemoveMutationBatch_Keeps(q, b) == q

\* The row with the key of b, which has to be there, is deleted.
RemoveMutationBatch(q, b) ==
    RemoveAt(q, CHOOSE i \in DOMAIN q : q[i].id = b.id)

\* SyncEngine.NotifyUser: batches restored from disk have no callback.
Notified(b, outcome) ==
    IF \E c \in callbacks[user] : c.id = b.id
    THEN [told EXCEPT ![(CHOOSE c \in callbacks[user] : c.id = b.id).w] =
              outcome]
    ELSE told

\* Mutant: the callback is not erased.
NotifyUser_Keeps(b, outcome) ==
    /\ told' = Notified(b, outcome)
    /\ UNCHANGED callbacks

NotifyUser(b, outcome) ==
    /\ told' = Notified(b, outcome)
    /\ callbacks' = [callbacks EXCEPT ![user] = {c \in @ : c.id # b.id}]

-----------------------------------------------------------------------------
(* RemoteStore, the half of it that sends writes.                          *)

kBatchIdUnknown == -1

\* Mutant: the room left in the pipeline is off by one.
NewBatches_OneMore(q, p) ==
    LET last == IF p = <<>> THEN kBatchIdUnknown ELSE Last(p).id
        rest == BatchesAfter(q, last)
    IN  SubSeq(rest, 1, Min({Len(rest), MaxPending - Len(p) + 1}))

\* Mutant: the search always begins at the start of the queue.
NewBatches_FromStart(q, p) ==
    LET rest == BatchesAfter(q, kBatchIdUnknown)
    IN  SubSeq(rest, 1, Min({Len(rest), MaxPending - Len(p)}))

\* What FillWritePipeline adds to p from the user's queue q.
NewBatches(q, p) ==
    LET last == IF p = <<>> THEN kBatchIdUnknown ELSE Last(p).id
        rest == BatchesAfter(q, last)
    IN  SubSeq(rest, 1, Min({Len(rest), MaxPending - Len(p)}))

Payload(p) == [i \in DOMAIN p |-> p[i].w]

\* Mutant: a write does not wait for the handshake.
Ready_Open(s) == IsOpen(s)

\* AddToWritePipeline sends at once what a stream ready for it can take.
Ready(s) == IsOpen(s) /\ s.handshake

\* FillWritePipeline, in a client whose user has the queue q and whose
\* pipeline, stream, call and token requests are p, s, sent and rs.
FillWritePipeline(q, p, s, sent, rs) ==
    LET new == NewBatches(q, p)
        full == p \o new
        s1 == IF full = <<>> THEN MarkIdle(s)
              ELSE IF new # <<>> /\ Ready(s) THEN CancelIdleCheck(s) ELSE s
        starts == full # <<>> /\ ~IsStarted(s1)
    IN  /\ pipeline' = full
        /\ wire' = IF Ready(s) THEN sent \o Payload(new) ELSE sent
        /\ stream' = IF starts THEN Start(s1) ELSE s1
        /\ asked' = IF starts /\ Asks(s1) THEN rs \cup {NewRequest} ELSE rs

\* The stream after NotifyStreamClose, before anything starts it again.
Closed(s, graceful) ==
    [Close(s, graceful) EXCEPT !.handshake = FALSE, !.token = NoToken]

\* The parts of a call that end with it.
CallIsOver ==
    /\ answers' = <<>>
    /\ verdict' = "none"

\* RestartNetwork for a client whose user has the queue q.  Both streams
\* stop, the pipeline is dropped and filled again.
RestartNetwork(q, rs) ==
    /\ FillWritePipeline(q, <<>>, InhibitBackoff(Closed(stream, TRUE)), <<>>,
                         DeadRequests(rs))
    /\ CallIsOver

\* Mutant: every permanent error is taken for a verdict on a write.
CloseWithError_NoHandshake(permanent) ==
    LET s == Closed(stream, FALSE)
        b == Head(pipeline)
        rs == DeadRequests(asked)
    IN  /\ CallIsOver
        /\ mainQ' = Dead(mainQ)
        /\ IF pipeline # <<>> /\ permanent
           THEN /\ queue' = [queue EXCEPT ![user] = RemoveMutationBatch(@, b)]
                /\ NotifyUser(b, "error")
                /\ FillWritePipeline(queue'[user], Tail(pipeline),
                                     InhibitBackoff(s), <<>>, rs)
           ELSE /\ pipeline' = pipeline
                /\ wire' = <<>>
                /\ stream' = IF pipeline # <<>> THEN Start(s) ELSE s
                /\ asked' = rs
                /\ UNCHANGED <<queue, callbacks, told>>

\* Mutant: a write the server refuses is sent again.
CloseWithError_Retries(permanent) ==
    /\ CallIsOver
    /\ mainQ' = Dead(mainQ)
    /\ pipeline' = pipeline
    /\ wire' = <<>>
    /\ stream' = LET s == Closed(stream, FALSE)
                 IN  IF pipeline # <<>> THEN Start(s) ELSE s
    /\ asked' = DeadRequests(asked)
    /\ UNCHANGED <<queue, callbacks, told>>

\* Closing with an error, OnWriteStreamClose included.  Only a permanent
\* error of a stream that was ready is a verdict on the first write.
CloseWithError(permanent) ==
    LET s == Closed(stream, FALSE)
        b == Head(pipeline)
        rs == DeadRequests(asked)
    IN  /\ CallIsOver
        /\ mainQ' = Dead(mainQ)
        /\ IF pipeline # <<>> /\ Ready(stream) /\ permanent
           THEN /\ queue' = [queue EXCEPT ![user] = RemoveMutationBatch(@, b)]
                /\ NotifyUser(b, "error")
                /\ FillWritePipeline(queue'[user], Tail(pipeline),
                                     InhibitBackoff(s), <<>>, rs)
           ELSE /\ pipeline' = pipeline
                /\ wire' = <<>>
                /\ stream' = IF pipeline # <<>> THEN Start(s) ELSE s
                /\ asked' = rs
                /\ UNCHANGED <<queue, callbacks, told>>

-----------------------------------------------------------------------------
(* FIRAuth and the credentials provider.                                   *)

InitialStream ==
    [state |-> "Initial", idle |-> FALSE, handshake |-> FALSE,
     token |-> NoToken]

\* The process starts with whoever FIRAuth still has.
Init ==
    /\ authUser \in Users
    /\ user = authUser
    /\ mainQ = <<>> /\ workerQ = <<>> /\ asked = {}
    /\ queue = [u \in Users |-> <<>>]
    /\ nextId = 1
    /\ callbacks = [u \in Users |-> {}]
    /\ pipeline = <<>>
    /\ stream = InitialStream
    /\ wire = <<>> /\ answers = <<>> /\ verdict = "none"
    /\ server = [u \in Users |-> 0]
    /\ applied = {} /\ refused = {}
    /\ writer = <<>> /\ told = <<>>
    /\ authEvents = 0 /\ faults = 0

\* Somebody signs in or out, or the token of who is signed in is refreshed.
UpdateCurrentUser(u) ==
    /\ authEvents < MaxAuthEvents
    /\ u # authUser \/ u # SignedOut
    /\ authEvents' = authEvents + 1
    /\ authUser' = u
    /\ mainQ' = Append(mainQ, [kind |-> "notify", live |-> FALSE,
                               fresh |-> FALSE, user |-> u])
    /\ UNCHANGED <<asked, workerQ, clientVars, pipeline, stream, callVars,
                   serverVars, history, faults>>

\* FIRAuth answers a request with a token of its current user.  A request
\* made for a user it no longer has when it answers is never fresh by the
\* time the main queue comes to the answer.
GetTokenForcingRefresh(r, fails) ==
    /\ r \in asked
    /\ fails => faults < MaxFaults /\ authUser # SignedOut
    /\ asked' = asked \ {r}
    /\ mainQ' = Append(mainQ, [kind |-> "token", live |-> r.live,
                               fresh |-> r.fresh,
                               user |-> IF fails THEN NoToken ELSE authUser])
    /\ faults' = IF fails THEN faults + 1 ELSE faults
    /\ UNCHANGED <<authUser, authEvents, workerQ, clientVars, pipeline,
                   stream, callVars, serverVars, history>>

\* The observer of the notification: token_counter++, and the new user is
\* passed on to the worker queue.
AuthStateDidChange ==
    /\ mainQ # <<>>
    /\ Head(mainQ).kind = "notify"
    /\ mainQ' = [i \in DOMAIN Tail(mainQ) |->
                     [Tail(mainQ)[i] EXCEPT !.fresh = FALSE]]
    /\ asked' = {[r EXCEPT !.fresh = FALSE] : r \in asked}
    /\ workerQ' = Append(workerQ, Head(mainQ))
    /\ UNCHANGED <<authUser, authEvents, clientVars, pipeline, stream,
                   callVars, serverVars, history, faults>>

\* The callback of GetToken asks again when token_counter has changed.
GetTokenCallback ==
    /\ mainQ # <<>>
    /\ Head(mainQ).kind = "token"
    /\ mainQ' = Tail(mainQ)
    /\ IF Head(mainQ).fresh
       THEN /\ workerQ' = Append(workerQ, Head(mainQ))
            /\ UNCHANGED asked
       ELSE /\ asked' = asked \cup {[live |-> Head(mainQ).live,
                                     fresh |-> TRUE]}
            /\ UNCHANGED workerQ
    /\ UNCHANGED <<authUser, authEvents, clientVars, pipeline, stream,
                   callVars, serverVars, history, faults>>

-----------------------------------------------------------------------------
(* The worker queue: what the main queue posts there.                      *)

\* Mutant: the streams are kept when the user changes.
HandleCredentialChange_KeepsStream ==
    /\ workerQ # <<>>
    /\ Head(workerQ).kind = "notify"
    /\ workerQ' = Tail(workerQ)
    /\ user' = Head(workerQ).user
    /\ nextId' = IF user' = user THEN nextId
                 ELSE LoadNextBatchIdFromDb(queue)
    /\ FillWritePipeline(queue[user'], IF user' = user THEN pipeline ELSE <<>>,
                         stream, wire, asked)
    /\ UNCHANGED <<authUser, authEvents, mainQ, answers, verdict, queue,
                   callbacks, serverVars, history, faults>>

\* SyncEngine.HandleCredentialChange.  The streams restart even when the
\* user is the same.
HandleCredentialChange ==
    /\ workerQ # <<>>
    /\ Head(workerQ).kind = "notify"
    /\ workerQ' = Dead(Tail(workerQ))
    /\ mainQ' = Dead(mainQ)
    /\ user' = Head(workerQ).user
    /\ nextId' = IF user' = user THEN nextId
                 ELSE LoadNextBatchIdFromDb(queue)
    /\ RestartNetwork(queue[user'], asked)
    /\ UNCHANGED <<authUser, authEvents, queue, callbacks, serverVars,
                   history, faults>>

\* The continuation of RequestCredentials, which only a stream that has not
\* been closed since still wants.
ResumeStartWithCredentials ==
    /\ workerQ # <<>>
    /\ Head(workerQ).kind = "token"
    /\ \/ /\ ~Head(workerQ).live
          /\ workerQ' = Tail(workerQ)
          /\ UNCHANGED <<asked, mainQ, queue, callbacks, pipeline, stream,
                         callVars, told>>
       \/ /\ Head(workerQ).live
          /\ Head(workerQ).user = NoToken
          /\ workerQ' = Dead(Tail(workerQ))
          /\ CloseWithError(FALSE)
       \/ /\ Head(workerQ).live
          /\ Head(workerQ).user # NoToken
          /\ workerQ' = Tail(workerQ)
          /\ stream' = [stream EXCEPT !.state = "Open",
                                      !.token = Head(workerQ).user]
          /\ wire' = <<Handshake>>
          /\ UNCHANGED <<asked, mainQ, queue, callbacks, pipeline, answers,
                         verdict, told>>
    /\ UNCHANGED <<authUser, authEvents, user, nextId, serverVars, writer,
                   faults>>

-----------------------------------------------------------------------------
(* The worker queue: the application, gRPC and the timers.                 *)

\* The application writes: SyncEngine.WriteMutations.
WriteMutations ==
    LET b == [id |-> nextId, w |-> Len(writer) + 1]
    IN  /\ Len(writer) < MaxWrites
        /\ queue' = [queue EXCEPT ![user] = Append(@, b)]
        /\ nextId' = nextId + 1
        /\ callbacks' = [callbacks EXCEPT ![user] =
               IF \E c \in @ : c.id = b.id THEN @ ELSE @ \cup {b}]
        /\ writer' = Append(writer, user)
        /\ told' = Append(told, "waiting")
        /\ FillWritePipeline(queue'[user], pipeline, stream, wire, asked)
        /\ UNCHANGED <<authUser, authEvents, mainQ, workerQ, user, answers,
                       verdict, serverVars, faults>>

OnWriteStreamHandshakeComplete ==
    /\ answers # <<>>
    /\ ~stream.handshake
    /\ answers' = Tail(answers)
    /\ wire' = wire \o Payload(pipeline)
    /\ stream' = [stream EXCEPT !.handshake = TRUE,
                                !.idle = @ /\ pipeline = <<>>]
    /\ UNCHANGED <<authVars, workerQ, clientVars, pipeline, verdict,
                   serverVars, history, faults>>

\* The answer is taken to be about the first batch of the pipeline.
OnWriteStreamMutationResult ==
    LET b == Head(pipeline)
    IN  /\ answers # <<>>
        /\ stream.handshake
        /\ pipeline # <<>>
        /\ answers' = Tail(answers)
        /\ NotifyUser(b, "ok")
        /\ queue' = [queue EXCEPT ![user] = RemoveMutationBatch(@, b)]
        /\ FillWritePipeline(queue'[user], Tail(pipeline), stream, wire,
                             asked)
        /\ UNCHANGED <<authUser, authEvents, mainQ, workerQ, user, nextId,
                       verdict, serverVars, writer, faults>>

\* The client reads the status of a call.  It comes after the answers, unless
\* a Write failed first: the call had ended before one of the messages behind
\* the refused one went out.  Any failed operation ends the call, and the read
\* under way is cancelled with the answer it has.
StatusIsRead ==
    /\ verdict # "none"
    /\ answers = <<>> \/ Len(wire) > 1

OnStreamFinish ==
    /\ StatusIsRead
    /\ CloseWithError(verdict = "permanent")
    /\ workerQ' = Dead(workerQ)
    /\ UNCHANGED <<authUser, authEvents, user, nextId, serverVars, writer,
                   faults>>

BackoffElapsed ==
    /\ stream.state = "Backoff"
    /\ stream' = Start(InhibitBackoff(stream))
    /\ asked' = asked \cup {NewRequest}
    /\ UNCHANGED <<authUser, authEvents, mainQ, workerQ, clientVars,
                   pipeline, callVars, serverVars, history, faults>>

\* kIdleTimeout after the last write: Stop.
IdleTimeout ==
    /\ stream.idle
    /\ stream' = Closed(stream, TRUE)
    /\ wire' = <<>>
    /\ CallIsOver
    /\ UNCHANGED <<authVars, workerQ, clientVars, pipeline, serverVars,
                   history, faults>>

\* The connectivity monitor: every call ends, and RemoteStore restarts its
\* streams when there is a network again.
ConnectivityChanged(available) ==
    /\ faults < MaxFaults
    /\ faults' = faults + 1
    /\ \/ /\ available
          /\ mainQ' = Dead(mainQ)
          /\ RestartNetwork(queue[user], asked)
          /\ UNCHANGED <<queue, callbacks, told>>
       \/ /\ ~available
          /\ IsOpen(stream)
          /\ CloseWithError(FALSE)
    /\ workerQ' = Dead(workerQ)
    /\ UNCHANGED <<authUser, authEvents, user, nextId, serverVars, writer>>

-----------------------------------------------------------------------------
(* The server and the process.                                             *)

\* The server handles the messages of a call in order.
ServerShakesHands ==
    /\ verdict = "none"
    /\ wire # <<>>
    /\ Head(wire) = Handshake
    /\ wire' = Tail(wire)
    /\ answers' = Append(answers, Handshake)
    /\ UNCHANGED <<authVars, workerQ, clientVars, pipeline, stream, verdict,
                   serverVars, history, faults>>

ServerApplies ==
    /\ verdict = "none"
    /\ wire # <<>>
    /\ Head(wire) # Handshake
    /\ wire' = Tail(wire)
    /\ answers' = Append(answers, Head(wire))
    /\ server' = [server EXCEPT ![writer[Head(wire)]] = Head(wire)]
    /\ applied' = applied \cup {<<Head(wire), stream.token>>}
    /\ UNCHANGED <<authVars, workerQ, clientVars, pipeline, stream, verdict,
                   refused, history, faults>>

\* A write the server will not have ends the call.
ServerRefuses ==
    /\ verdict = "none"
    /\ wire # <<>>
    /\ Head(wire) = Handshake => faults < MaxFaults
    /\ faults' = IF Head(wire) = Handshake THEN faults + 1 ELSE faults
    /\ refused' = refused \cup ({Head(wire)} \ {Handshake})
    /\ verdict' = "permanent"
    /\ UNCHANGED <<authVars, workerQ, clientVars, pipeline, stream, wire,
                   answers, server, applied, history>>

\* The connection breaks: the answers under way are lost.
ConnectionBreaks ==
    /\ faults < MaxFaults
    /\ IsOpen(stream)
    /\ verdict # "transient"
    /\ faults' = faults + 1
    /\ verdict' = "transient"
    /\ answers' = <<>>
    /\ UNCHANGED <<authVars, workerQ, clientVars, pipeline, stream, wire,
                   serverVars, history>>

\* The process ends and starts again: FirestoreClient.Initialize with what
\* is on disk.
Restarted(q) ==
    /\ faults < MaxFaults
    /\ faults' = faults + 1
    /\ mainQ' = <<>> /\ workerQ' = <<>>
    /\ user' = authUser
    /\ queue' = q
    /\ nextId' = LoadNextBatchIdFromDb(q)
    /\ callbacks' = [u \in Users |-> {}]
    /\ FillWritePipeline(q[authUser], <<>>, InitialStream, <<>>, {})
    /\ CallIsOver
    /\ UNCHANGED <<authUser, authEvents, serverVars, writer>>

Crash ==
    /\ Restarted(queue)
    /\ UNCHANGED told

\* HandleSuccessfulWrite calls back before it removes the batch.
CrashAcknowledging ==
    /\ answers # <<>>
    /\ stream.handshake
    /\ pipeline # <<>>
    /\ told' = Notified(Head(pipeline), "ok")
    /\ Restarted(queue)

\* HandleRejectedWrite removes the batch before it calls back.
CrashRejecting ==
    /\ StatusIsRead
    /\ verdict = "permanent"
    /\ stream.handshake
    /\ pipeline # <<>>
    /\ Restarted([queue EXCEPT ![user] =
                      RemoveMutationBatch(@, Head(pipeline))])
    /\ UNCHANGED told

-----------------------------------------------------------------------------

Auth ==
    \/ \E u \in Users : UpdateCurrentUser(u)
    \/ \E r \in asked, fails \in BOOLEAN : GetTokenForcingRefresh(r, fails)
    \/ AuthStateDidChange
    \/ GetTokenCallback

Worker ==
    \/ HandleCredentialChange
    \/ ResumeStartWithCredentials
    \/ WriteMutations
    \/ OnWriteStreamHandshakeComplete
    \/ OnWriteStreamMutationResult
    \/ OnStreamFinish
    \/ BackoffElapsed
    \/ IdleTimeout
    \/ \E available \in BOOLEAN : ConnectivityChanged(available)

Environment ==
    \/ ServerShakesHands
    \/ ServerApplies
    \/ ServerRefuses
    \/ ConnectionBreaks
    \/ Crash
    \/ CrashAcknowledging
    \/ CrashRejecting

Next == Auth \/ Worker \/ Environment

\* The queues are served, FIRAuth and the server answer, timers fire.
Fairness ==
    /\ WF_vars(\E r \in asked : GetTokenForcingRefresh(r, FALSE))
    /\ WF_vars(AuthStateDidChange \/ GetTokenCallback)
    /\ WF_vars(HandleCredentialChange \/ ResumeStartWithCredentials)
    /\ WF_vars(OnWriteStreamHandshakeComplete \/ OnWriteStreamMutationResult
                   \/ OnStreamFinish)
    /\ WF_vars(BackoffElapsed)
    /\ WF_vars(ServerShakesHands \/ ServerApplies \/ ServerRefuses)

Spec == Init /\ [][Next]_vars /\ Fairness

-----------------------------------------------------------------------------
(* Properties.                                                             *)

\* The type invariant, with the bound of the pipeline ("AddToWritePipeline
\* called when pipeline is full").
TypeOK ==
    /\ authUser \in Users /\ user \in Users
    /\ mainQ \in Seq(Message) /\ workerQ \in Seq(Message)
    /\ asked \subseteq Request
    /\ queue \in [Users -> Seq(Batch)]
    /\ nextId \in Nat
    /\ callbacks \in [Users -> SUBSET Batch]
    /\ pipeline \in Seq(Batch) /\ Len(pipeline) <= MaxPending
    /\ stream \in [state : StreamStates, idle : BOOLEAN, handshake : BOOLEAN,
                   token : Users \cup {NoToken}]
    /\ wire \in Seq(Nat) /\ answers \in Seq(Nat)
    /\ verdict \in {"none", "transient", "permanent"}
    /\ server \in [Users -> Nat]
    /\ applied \subseteq Writes \X (Users \cup {NoToken})
    /\ refused \subseteq Writes
    /\ writer \in Seq(Users)
    /\ told \in Seq({"waiting", "ok", "error"})
    /\ Len(told) = Len(writer)
    /\ authEvents \in 0 .. MaxAuthEvents /\ faults \in 0 .. MaxFaults

\* The pipeline is the beginning of the current user's queue: whatever
\* order of acknowledgements, rejections, user changes and restarts led
\* there, no pending write is skipped, repeated or left out while there is
\* room, and none of another user is in it.
PipelineIsHead ==
    pipeline = SubSeq(queue[user], 1, Min({MaxPending, Len(queue[user])}))

\* RemoteStore takes every answer to be about the first batch, and asserts
\* that there is one ("Got result for empty write pipeline").  That is right
\* only because what is on the way is always exactly the pipeline.
CallMatchesPipeline ==
    IsOpen(stream) /\ verdict # "transient" =>
        answers \o wire = IF stream.handshake THEN Payload(pipeline)
                          ELSE <<Handshake>>

\* "Write stream was stopped gracefully while still needed" cannot happen:
\* the idleness timer runs only while the pipeline is empty.
IdleIsDrained == stream.idle => IsOpen(stream) /\ pipeline = <<>>

\* A stream that is starting has exactly one credential request under way
\* that can still start it, and no other stream has any ("State should still
\* be 'Starting'"); and a stream with something to send is never stopped.
NeverStalls ==
    LET live(q) == {i \in DOMAIN q : q[i].kind = "token" /\ q[i].live}
    IN  /\ pipeline # <<>> => IsStarted(stream)
        /\ Cardinality({r \in asked : r.live}) + Cardinality(live(mainQ))
               + Cardinality(live(workerQ)) =
                   IF stream.state = "Starting" THEN 1 ELSE 0

\* Whoever signs in or out while tokens are being fetched and streams are
\* open, a write is carried out only in the name of the user who issued it.
SentAsItsWriter == \A a \in applied : a[2] = writer[a[1]]

\* A caller is told "ok" only of a write the server carried out, although
\* answers carry no batch id; and "error" only of one it refused, or of one it
\* carried out whose answer was lost with the refusal of a later write of the
\* same user.
TellsTheTruth ==
    LET Done(w) == \E a \in applied : a[1] = w
    IN  \A w \in DOMAIN told :
            /\ told[w] = "ok" => Done(w)
            /\ told[w] = "error" =>
                   \/ w \in refused
                   \/ /\ Done(w)
                      /\ \E v \in refused : w < v /\ writer[v] = writer[w]

\* Writes are sent again after a failure, also those the server had already
\* carried out; that never takes the server behind a write whose caller was
\* told that it was done.
NeverBehindAcknowledged ==
    \A w \in DOMAIN told : told[w] = "ok" => server[writer[w]] >= w

\* Batch ids are used again once the queues are empty.  The callback filed
\* under an id is always that of the batch stored under it, also for users
\* who are not the current one.
CallbacksFit ==
    \A u \in Users : \A c \in callbacks[u] :
        \E i \in DOMAIN queue[u] : queue[u][i] = c

\* As long as failures end, the writes of a user who stays are settled.
WritesSettle ==
    \A u \in Users :
        queue[u] # <<>> /\ user = u ~> queue[u] = <<>> \/ user # u

\* The client implements the promise of WriteQueue.  The current pass over
\* a user's writes is the open call; what it has carried out is what has
\* been answered and not read.
Promise == INSTANCE WriteQueue WITH
    pending <- [u \in Users |-> Payload(queue[u])],
    cursor <- [u \in Users |->
                   IF u = user /\ stream.handshake THEN Len(answers) ELSE 0]

ImplementsQueue == Promise!Spec

=============================================================================
