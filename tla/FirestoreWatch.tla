--------------------------- MODULE FirestoreWatch ---------------------------
(***************************************************************************)
(* How the Firestore client of the iOS application answers get(): the      *)
(* listener it registers (EventManager, QueryListener, SyncEngine's        *)
(* views), the targets and the watch stream of RemoteStore, the            *)
(* WatchChangeAggregator and the OnlineStateTracker that decides when to   *)
(* answer from the cache.                                                  *)
(*                                                                         *)
(* Everything here runs on the worker queue.  A get() is a listener that   *)
(* the first event removes again; the removal is posted, so it comes       *)
(* later.  The target of a query keeps its id: a second get() of a         *)
(* document watches the target that the first one may still be unwatching. *)
(*                                                                         *)
(* The content of a document is its version on the server.  Credentials    *)
(* that come too late are the business of FirestoreWrites (NeverStalls):   *)
(* a stream that is starting opens or fails here.                          *)
(***************************************************************************)
EXTENDS FirestoreStream, Integers, Sequences, SequencesExt

CONSTANTS
    Gets,           \* get() calls that can be under way together
    Queries,        \* the documents they ask for
    Restricted,     \* those the security rules refuse
    NoQuery,        \* what a get() that is not under way asks for
    kMaxWatchStreamFailures,
    MaxVersion,     \* bound: versions of a document
    MaxMessages,    \* bound: messages under way when a get() is issued
    MaxFaults       \* bound: failures of a stream, restarts of the network

ASSUME WatchAssumption ==
    /\ IsFiniteSet(Gets)
    /\ Restricted \subseteq Queries
    /\ NoQuery \notin Queries
    /\ kMaxWatchStreamFailures \in Nat \ {0}
    /\ {MaxVersion, MaxMessages, MaxFaults} \subseteq Nat

VARIABLES
    gets,       \* QueryListener: where each get() stands and what it asks for
    listened,   \* RemoteStore: listen_targets_
    synced,     \* View: the queries whose view is not "from cache"
    cache,      \* LocalStore: the version of each document it has
    stream,     \* WatchStream
    online,     \* OnlineStateTracker
    target,     \* WatchChangeAggregator: target_states_
    requests,   \* the call: requests the server has not handled
    answers,    \* the call: changes the client has not read
    served,     \* the call: how far the server is with each target
    docs,       \* the version of each document on the server
    since,      \* the version it had when the client began to listen
    faults      \* how many failures there were

callVars == <<requests, answers, served>>
clientVars == <<gets, listened, synced, cache, stream, online, target>>
vars == <<clientVars, callVars, docs, since, faults>>

Versions == 0 .. MaxVersion

Message(kind, q, v) == [kind |-> kind, q |-> q, v |-> v]

\* A TargetState that EnsureTargetState has just made.
NewTarget == [pending |-> 0, current |-> FALSE, changed |-> TRUE, v |-> 0]

NoTargets == [q \in Queries |-> NewTarget]

NotServed == [q \in Queries |-> "none"]

-----------------------------------------------------------------------------
(* OnlineStateTracker: functions of the tracker o.  Failures are counted   *)
(* up to the number that matters.                                          *)

HandleWatchStreamStart(o) ==
    IF o.failures # 0 THEN o
    ELSE [o EXCEPT !.state = "Unknown", !.timer = TRUE]

\* Mutant: the timer still runs when the failures have decided.
HandleWatchStreamFailure_KeepsTimer(o) ==
    LET failures == Min({o.failures + 1, kMaxWatchStreamFailures})
    IN  IF o.state = "Online" THEN [o EXCEPT !.state = "Unknown"]
        ELSE IF failures = kMaxWatchStreamFailures
        THEN [o EXCEPT !.state = "Offline", !.failures = failures]
        ELSE [o EXCEPT !.failures = failures]

HandleWatchStreamFailure(o) ==
    LET failures == Min({o.failures + 1, kMaxWatchStreamFailures})
    IN  IF o.state = "Online" THEN [o EXCEPT !.state = "Unknown"]
        ELSE IF failures = kMaxWatchStreamFailures
        THEN [state |-> "Offline", failures |-> failures, timer |-> FALSE]
        ELSE [o EXCEPT !.failures = failures]

UpdateState(s) == [state |-> s, failures |-> 0, timer |-> FALSE]

\* Mutant: a new listener waits for the server also when offline.
ShouldRaiseInitialEvent_Synced(isSynced, o) == isSynced

\* QueryListener: what a listener that still waits does with a snapshot.
\* With wait_for_sync_when_online, cached data will do only when offline.
ShouldRaiseInitialEvent(isSynced, o) == isSynced \/ o.state = "Offline"

Raised(gs, qs) ==
    [g \in Gets |-> IF gs[g].state = "waiting" /\ gs[g].q \in qs
                    THEN [gs[g] EXCEPT !.state = "raised"] ELSE gs[g]]

\* Mutant: only one of the listeners of a query hears of its view.
OnViewSnapshots_One(qs) ==
    gets' = [g \in Gets |->
        IF /\ gets[g].q \in qs
           /\ g = CHOOSE h \in Gets : gets[h] = gets[g]
        THEN Raised(gets, qs)[g] ELSE gets[g]]

\* EventManager: the views of the queries qs are now in sync.
OnViewSnapshots(qs) == gets' = Raised(gets, qs)

\* SetAndBroadcast: going offline takes all views back to "from cache" and
\* answers everybody who waits.  Other changes raise nothing.
SetAndBroadcast(o) ==
    /\ online' = o
    /\ IF o.state = "Offline" /\ online.state # "Offline"
       THEN /\ synced' = {}
            /\ gets' = Raised(gets, Queries)
       ELSE UNCHANGED <<synced, gets>>

-----------------------------------------------------------------------------
(* RemoteStore, the half of it that watches.                               *)

\* Mutant: a flag, not a count.
Pending_Flag(t, q) == [t EXCEPT ![q].pending = 1]

\* SendWatchRequest and SendUnwatchRequest count the answers they expect.
Pending(t, q) == [t EXCEPT ![q].pending = @ + 1]

Send(kind, q) ==
    /\ requests' = Append(requests, Message(kind, q, 0))
    /\ target' = Pending(target, q)

NoCall ==
    /\ requests' = <<>>
    /\ answers' = <<>>
    /\ served' = NotServed
    /\ target' = NoTargets

\* Mutant: the query is not listened to any more, but its view stays.
RemoveAndCleanupTarget_KeepsView(q) ==
    /\ listened' = listened \ {q}
    /\ UNCHANGED synced

\* SyncEngine: nobody wants the query any more, or the server refuses it.
RemoveAndCleanupTarget(q) ==
    /\ listened' = listened \ {q}
    /\ synced' = synced \ {q}

\* Mutant: the stream is not started again.
CloseWithError_Stays ==
    /\ NoCall
    /\ stream' = Close(stream, FALSE)
    /\ SetAndBroadcast(IF listened # {} THEN HandleWatchStreamFailure(online)
                       ELSE UpdateState("Unknown"))

\* Closing with an error, OnWatchStreamClose included.
CloseWithError ==
    LET s == Close(stream, FALSE)
    IN  /\ NoCall
        /\ IF listened # {}
           THEN /\ stream' = Start(s)
                /\ SetAndBroadcast(HandleWatchStreamStart(
                                       HandleWatchStreamFailure(online)))
           ELSE /\ stream' = s
                /\ SetAndBroadcast(UpdateState("Unknown"))

-----------------------------------------------------------------------------

InitialStream == [state |-> "Initial", idle |-> FALSE]

Idle == [state |-> "idle", q |-> NoQuery]

Init ==
    /\ gets = [g \in Gets |-> Idle]
    /\ listened = {} /\ synced = {}
    /\ cache = [q \in Queries |-> 0]
    /\ stream = InitialStream
    /\ online = UpdateState("Unknown")
    /\ target = NoTargets
    /\ requests = <<>> /\ answers = <<>> /\ served = NotServed
    /\ docs = [q \in Queries |-> 0]
    /\ since = [q \in Queries |-> 0]
    /\ faults = 0

\* RemoteStore.Listen: the stream starts, or is told when it is open.
Listen(q) ==
    LET starts == ~IsStarted(stream)
    IN  /\ listened' = listened \cup {q}
        /\ since' = [since EXCEPT ![q] = docs[q]]
        /\ online' = IF starts THEN HandleWatchStreamStart(online) ELSE online
        /\ stream' = IF starts THEN Start(stream)
                     ELSE CancelIdleCheck(stream)
        /\ IF IsOpen(stream) THEN Send("watch", q)
           ELSE UNCHANGED <<requests, target>>

\* RemoteStore.StopListening.
StopListening(q) ==
    LET none == listened = {q}
    IN  IF IsOpen(stream)
        THEN /\ Send("unwatch", q)
             /\ stream' = IF none THEN MarkIdle(CancelIdleCheck(stream))
                          ELSE CancelIdleCheck(stream)
             /\ UNCHANGED online
        ELSE /\ online' = IF none THEN UpdateState("Unknown") ELSE online
             /\ UNCHANGED <<requests, target, stream>>

\* get(): EventManager.AddQueryListener.  The first listener of a query
\* makes RemoteStore listen, any other one is given the view there is.
AddQueryListener(g, q) ==
    /\ gets[g].state = "idle"
    /\ Len(requests) + Len(answers) <= MaxMessages
    /\ IF q \notin listened THEN Listen(q)
       ELSE UNCHANGED <<listened, since, online, stream, requests, target>>
    /\ gets' = [gets EXCEPT ![g] =
           [q |-> q,
            state |-> IF ShouldRaiseInitialEvent(q \in synced, online')
                      THEN "raised" ELSE "waiting"]]
    /\ UNCHANGED <<synced, cache, answers, served, docs, faults>>

\* The posted removal of a listener that has had its event.  The last one
\* of a query makes RemoteStore stop listening.
RemoveQueryListener(g) ==
    LET q == gets[g].q
        last == \A h \in Gets \ {g} : gets[h].q # q
    IN  /\ gets[g].state = "raised"
        /\ gets' = [gets EXCEPT ![g] = Idle]
        /\ IF last THEN StopListening(q) /\ RemoveAndCleanupTarget(q)
           ELSE UNCHANGED <<listened, synced, stream, online, requests,
                            target>>
        /\ UNCHANGED <<cache, answers, served, docs, since, faults>>

-----------------------------------------------------------------------------
(* The stream.                                                             *)

\* The credentials are there and the call has begun: OnWatchStreamOpen.
OnWatchStreamOpen ==
    LET qs == SetToSeq(listened)
    IN  /\ stream.state = "Starting"
        /\ stream' = [stream EXCEPT !.state = "Open"]
        /\ requests' = [i \in DOMAIN qs |-> Message("watch", qs[i], 0)]
        /\ target' = [q \in Queries |->
               IF q \in listened THEN [NewTarget EXCEPT !.pending = 1]
               ELSE NewTarget]
        /\ UNCHANGED <<gets, listened, synced, cache, online, answers,
                       served, docs, since, faults>>

\* No credentials, no connection, or the connection breaks.
OnStreamFinish ==
    /\ stream.state \in {"Starting", "Open"}
    /\ faults < MaxFaults
    /\ faults' = faults + 1
    /\ CloseWithError
    /\ UNCHANGED <<listened, cache, docs, since>>

BackoffElapsed ==
    /\ stream.state = "Backoff"
    /\ stream' = Start(InhibitBackoff(stream))
    /\ UNCHANGED <<gets, listened, synced, cache, online, target, callVars,
                   docs, since, faults>>

IdleTimeout ==
    /\ stream.idle
    /\ stream' = Close(stream, TRUE)
    /\ NoCall
    /\ SetAndBroadcast(UpdateState("Unknown"))
    /\ UNCHANGED <<listened, cache, docs, since, faults>>

OnlineStateTimeout ==
    /\ online.timer
    /\ SetAndBroadcast([online EXCEPT !.state = "Offline", !.timer = FALSE])
    /\ UNCHANGED <<listened, cache, stream, target, callVars, docs, since,
                   faults>>

\* The user or the connectivity changes: both streams stop and start again.
RestartNetwork ==
    LET s == InhibitBackoff(Close(stream, TRUE))
        o == UpdateState("Unknown")
    IN  /\ faults < MaxFaults
        /\ faults' = faults + 1
        /\ NoCall
        /\ IF listened # {}
           THEN /\ stream' = Start(s)
                /\ SetAndBroadcast(HandleWatchStreamStart(o))
           ELSE /\ stream' = s
                /\ SetAndBroadcast(o)
        /\ UNCHANGED <<listened, cache, docs, since>>

-----------------------------------------------------------------------------
(* OnWatchStreamChange.  Whatever the change is, the client is online.     *)

Reads(kind) ==
    /\ answers # <<>>
    /\ Head(answers).kind = kind
    /\ answers' = Tail(answers)
    /\ online' = UpdateState("Online")
    /\ UNCHANGED <<stream, requests, served, docs, since, faults>>

\* Mutant: answers to earlier requests count.
IsActiveTarget_Early(t, q) == q \in listened

\* WatchChangeAggregator: a target answers for its query only when no
\* request about it is unanswered.
IsActiveTarget(t, q) == t[q].pending = 0 /\ q \in listened

OnTargetAdded ==
    LET q == Head(answers).q
    IN  /\ Reads("added")
        /\ target' = [target EXCEPT
               ![q].pending = @ - 1,
               ![q].changed = @ /\ target[q].pending # 1]
        /\ UNCHANGED <<gets, listened, synced, cache>>

OnTargetRemoved ==
    LET q == Head(answers).q
    IN  /\ Reads("removed")
        /\ target' = [target EXCEPT ![q] =
               IF @.pending = 1 THEN NewTarget
               ELSE [@ EXCEPT !.pending = target[q].pending - 1]]
        /\ UNCHANGED <<gets, listened, synced, cache>>

\* The documents of the target have come and it is current.
OnTargetCurrent ==
    LET q == Head(answers).q
    IN  /\ Reads("current")
        /\ target' = IF IsActiveTarget(target, q)
                     THEN [target EXCEPT ![q].current = TRUE,
                                         ![q].changed = TRUE,
                                         ![q].v = Head(answers).v]
                     ELSE target
        /\ UNCHANGED <<gets, listened, synced, cache>>

\* A consistent snapshot: RaiseWatchSnapshot.
OnSnapshot ==
    LET qs == {q \in Queries : IsActiveTarget(target, q) /\ target[q].changed}
        done == {q \in qs : target[q].current}
    IN  /\ Reads("snapshot")
        /\ target' = [q \in Queries |->
               IF q \in qs THEN [target[q] EXCEPT !.changed = FALSE]
               ELSE target[q]]
        /\ cache' = [q \in Queries |->
               IF q \in qs THEN Max({cache[q], target[q].v}) ELSE cache[q]]
        /\ synced' = synced \cup done
        /\ OnViewSnapshots(done)
        /\ UNCHANGED listened

\* ProcessTargetError: the target and all its listeners are gone.
OnTargetRejected ==
    LET q == Head(answers).q
    IN  /\ Reads("rejected")
        /\ IF q \in listened
           THEN /\ RemoveAndCleanupTarget(q)
                /\ target' = [target EXCEPT ![q] = NewTarget]
                /\ gets' = [g \in Gets |->
                       IF gets[g].q = q THEN Idle ELSE gets[g]]
           ELSE UNCHANGED <<listened, synced, target, gets>>
        /\ UNCHANGED cache

-----------------------------------------------------------------------------
(* The server: it handles the requests of a call in order, and sends a     *)
(* snapshot when all the targets of the call are current.                  *)

Serve(kind) ==
    /\ requests # <<>>
    /\ Head(requests).kind = kind
    /\ requests' = Tail(requests)
    /\ UNCHANGED <<clientVars, docs, since, faults>>

ServerAdds ==
    LET q == Head(requests).q
    IN  /\ Serve("watch")
        /\ q \notin Restricted
        /\ served' = [served EXCEPT ![q] = "added"]
        /\ answers' = Append(answers, Message("added", q, 0))

ServerRejects ==
    LET q == Head(requests).q
    IN  /\ Serve("watch")
        /\ q \in Restricted
        /\ answers' = Append(answers, Message("rejected", q, 0))
        /\ UNCHANGED served

\* A target that was rejected is not there to be removed.
ServerRemoves ==
    LET q == Head(requests).q
    IN  /\ Serve("unwatch")
        /\ served' = [served EXCEPT ![q] = "none"]
        /\ answers' = IF served[q] = "none" THEN answers
                      ELSE Append(answers, Message("removed", q, 0))

ServerIsCurrent(q) ==
    /\ served[q] = "added"
    /\ served' = [served EXCEPT ![q] = "current"]
    /\ answers' = Append(answers, Message("current", q, docs[q]))
    /\ UNCHANGED <<clientVars, requests, docs, since, faults>>

ServerSnapshot ==
    /\ \A q \in Queries : served[q] # "added"
    /\ \E q \in Queries : served[q] = "current"
    /\ served' = [q \in Queries |->
           IF served[q] = "current" THEN "settled" ELSE served[q]]
    /\ answers' = Append(answers, Message("snapshot", NoQuery, 0))
    /\ UNCHANGED <<clientVars, requests, docs, since, faults>>

\* Another device writes the document.
RemoteWrite(q) ==
    /\ docs[q] < MaxVersion
    /\ docs' = [docs EXCEPT ![q] = @ + 1]
    /\ UNCHANGED <<clientVars, callVars, since, faults>>

-----------------------------------------------------------------------------

OnWatchStreamChange ==
    \/ OnTargetAdded
    \/ OnTargetRemoved
    \/ OnTargetCurrent
    \/ OnSnapshot
    \/ OnTargetRejected

Server ==
    \/ ServerAdds
    \/ ServerRejects
    \/ ServerRemoves
    \/ \E q \in Queries : ServerIsCurrent(q)
    \/ ServerSnapshot

Next ==
    \/ \E g \in Gets, q \in Queries : AddQueryListener(g, q)
    \/ \E g \in Gets : RemoveQueryListener(g)
    \/ OnWatchStreamOpen
    \/ OnStreamFinish
    \/ BackoffElapsed
    \/ IdleTimeout
    \/ OnlineStateTimeout
    \/ RestartNetwork
    \/ OnWatchStreamChange
    \/ Server
    \/ \E q \in Queries : RemoteWrite(q)

Spec == Init /\ [][Next]_vars

\* The client does its part: posted operations run and timers fire.
ClientFairness ==
    /\ \A g \in Gets : WF_vars(RemoveQueryListener(g))
    /\ WF_vars(BackoffElapsed)
    /\ WF_vars(OnlineStateTimeout)
    /\ WF_vars(OnWatchStreamChange)

\* The backend may be silent.
SilentSpec == Spec /\ ClientFairness

\* The protocol promises for every target it accepts an ADD, a CURRENT and a
\* consistent snapshot, whatever becomes of the other targets meanwhile.
ServerFairness ==
    /\ WF_vars(ServerAdds \/ ServerRejects \/ ServerRemoves)
    /\ \A q \in Queries : WF_vars(ServerIsCurrent(q))
    /\ SF_vars(ServerSnapshot)

\* Credentials come, and the backend answers.
FairSpec == SilentSpec /\ WF_vars(OnWatchStreamOpen) /\ ServerFairness

-----------------------------------------------------------------------------
(* Properties.                                                             *)

\* The type invariant.
TypeOK ==
    /\ gets \in [Gets -> [state : {"idle", "waiting", "raised"},
                          q : Queries \cup {NoQuery}]]
    /\ listened \subseteq Queries /\ synced \subseteq listened
    /\ cache \in [Queries -> Versions]
    /\ stream \in [state : StreamStates, idle : BOOLEAN]
    /\ online \in [state : {"Unknown", "Online", "Offline"},
                   failures : 0 .. kMaxWatchStreamFailures, timer : BOOLEAN]
    /\ target \in [Queries -> [pending : Int, current : BOOLEAN,
                               changed : BOOLEAN, v : Versions]]
    /\ served \in [Queries -> {"none", "added", "current", "settled"}]
    /\ docs \in [Queries -> Versions] /\ since \in [Queries -> Versions]
    /\ faults \in 0 .. MaxFaults

\* Every query somebody listens to is watched, and nothing else is: a get()
\* that was answered leaves no target behind, whatever restarts, rejections
\* and other get()s of the same document came in between.
WatchedWhileListened ==
    /\ listened = {gets[g].q : g \in Gets} \ {NoQuery}
    /\ listened # {} => IsStarted(stream)

\* "Watch stream was stopped gracefully while still needed" cannot happen.
IdleIsUnwatched == stream.idle => IsOpen(stream) /\ listened = {}

\* The assertions of OnlineStateTracker: the timer runs only while the state
\* is unknown and no attempt has failed ("Timer should be canceled if we
\* transitioned to a different state"), and never while the stream is
\* stopped, so that starting it finds no timer ("online_state_timer_
\* shouldn't be started yet").  Being online is being connected.
TrackerAssertions ==
    /\ online.timer => /\ online.state = "Unknown" /\ online.failures = 0
                       /\ IsStarted(stream)
    /\ online.state = "Online" => online.failures = 0 /\ IsOpen(stream)

\* The client is never offline while a get() waits.
OfflineAnswersAll ==
    online.state = "Offline" =>
        \A g \in Gets : gets[g].state # "waiting"

\* A view is declared in sync only with data at least as new as the
\* document was when the client began to listen: an answer of the server
\* that belongs to an earlier get() of the same document, still under way
\* when the target is watched again, is not mistaken for one to this get().
SyncedIsFresh == \A q \in synced : cache[q] >= since[q]

\* The number of answers the aggregator waits for is the number of requests
\* and answers under way (queries the rules reject excepted: a rejection
\* forgets the requests that followed it).
CountsOutstanding ==
    \A q \in Queries \ Restricted :
        target[q].pending =
            Cardinality({i \in DOMAIN requests : requests[i].q = q}) +
            Cardinality({i \in DOMAIN answers : answers[i].q = q /\
                             answers[i].kind \in {"added", "removed"}})

Waits(g) == gets[g].state = "waiting"

\* As long as failures end and the backend answers, a get() is answered:
\* with the document, from the cache or with the error of a refusal.
GetsAnswered == \A g \in Gets : Waits(g) ~> ~Waits(g)

\* "To deal with stream attempts that don't succeed or fail in a timely
\* manner, we have a timeout for OnlineState to reach Online or Offline"
\* (online_state_tracker.cc 47-49): also when the backend is silent, the
\* state does not remain unknown while a get() waits for it.
UnknownTimesOut ==
    \A g \in Gets :
        Waits(g) /\ online.state = "Unknown"
            ~> ~Waits(g) \/ online.state # "Unknown"

=============================================================================
