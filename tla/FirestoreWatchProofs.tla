------------------------ MODULE FirestoreWatchProofs ------------------------
(***************************************************************************)
(* Proofs about FirestoreWatch for any number of get() calls and targets,  *)
(* any rules and any bounds.  LocalInv relates the get() calls, the stream *)
(* and the tracker; ProtocolInv relates both ends of the open call through *)
(* the messages that are under way.                                        *)
(***************************************************************************)
EXTENDS FirestoreWatch, SequenceTheorems, FiniteSetTheorems, TLAPS

-----------------------------------------------------------------------------
(* The inductive invariant *)

\* A get() that the app has called: where it is, and what it asks for.
GetType == [state : {"idle", "waiting", "raised"}, q : Queries \cup {NoQuery}]

\* The OnlineStateTracker.
OnlineType == [state : {"Unknown", "Online", "Offline"},
               failures : 0 .. kMaxWatchStreamFailures, timer : BOOLEAN]

\* The watch stream.
StreamType == [state : StreamStates, idle : BOOLEAN]

\* What the WatchChangeAggregator keeps of a target.
TargetType == [pending : Int, current : BOOLEAN, changed : BOOLEAN,
               v : Versions]

\* A message of the client.
RequestType == [kind : {"watch", "unwatch"}, q : Queries, v : {0}]

\* A message of the backend: only a version says something of a document.
AnswerType ==
    [kind : {"added", "removed", "rejected"}, q : Queries, v : {0}]
    \cup [kind : {"current"}, q : Queries, v : Versions]
    \cup [kind : {"snapshot"}, q : {NoQuery}, v : {0}]

\* A get() asks for something as long as it is under way.
GetsFit == \A g \in Gets : gets[g].state = "idle" <=> gets[g].q = NoQuery

\* What belongs to a call is gone when there is none.
NoCallUnlessOpen ==
    ~IsOpen(stream) => /\ requests = <<>> /\ answers = <<>>
                       /\ served = NotServed /\ target = NoTargets

\* What TrackerAssertions says, for any number of attempts that must fail.
TrackerFits(o, s) ==
    /\ o.timer => /\ o.state = "Unknown"
                  /\ o.failures < kMaxWatchStreamFailures
                  /\ IsStarted(s)
    /\ o.state = "Online" => o.failures = 0 /\ IsOpen(s)

\* The get() calls, the targets they listen to and the tracker.
ListenersInv ==
    /\ gets \in [Gets -> GetType]
    /\ listened \subseteq Queries /\ synced \subseteq listened
    /\ GetsFit
    /\ listened = {gets[g].q : g \in Gets} \ {NoQuery}
    /\ OfflineAnswersAll

\* The stream and the tracker.
StreamInv ==
    /\ stream \in StreamType
    /\ online \in OnlineType
    /\ listened # {} => IsStarted(stream)
    /\ IdleIsUnwatched
    /\ TrackerFits(online, stream)

\* The call and the aggregator.
CallInv ==
    /\ requests \in Seq(RequestType) /\ answers \in Seq(AnswerType)
    /\ served \in [Queries -> {"none", "added", "current", "settled"}]
    /\ target \in [Queries -> TargetType]
    /\ NoCallUnlessOpen

\* The documents.
VersionsInv ==
    /\ cache \in [Queries -> Versions]
    /\ docs \in [Queries -> Versions]
    /\ since \in [Queries -> Versions]
    /\ \A q \in Queries : since[q] <= docs[q]
    /\ faults \in 0 .. MaxFaults

\* What the client and the call it has open keep between them, the order of the
\* messages left aside.
LocalInv == ListenersInv /\ StreamInv /\ CallInv /\ VersionsInv

-----------------------------------------------------------------------------
(* The operators *)

\* The assumption on the constants, as the proofs below use it.
LEMMA Assumptions ==
    /\ Restricted \subseteq Queries
    /\ NoQuery \notin Queries
    /\ kMaxWatchStreamFailures \in Nat /\ kMaxWatchStreamFailures > 0
    /\ MaxVersion \in Nat /\ MaxFaults \in Nat /\ MaxMessages \in Nat
BY WatchAssumption

\* The version that every document starts with.
LEMMA ZeroVersion == 0 \in Versions
BY Assumptions DEF Versions

\* The smaller of two numbers.
LEMMA MinPair ==
    ASSUME NEW a \in Int, NEW b \in Int
    PROVE  Min({a, b}) = IF a <= b THEN a ELSE b
<1>1. Min({a, b}) = CHOOSE x \in {a, b} : \A y \in {a, b} : x =< y
  BY DEF Min
<1> QED BY <1>1

\* The greater of two numbers.
LEMMA MaxPair ==
    ASSUME NEW a \in Int, NEW b \in Int
    PROVE  Max({a, b}) = IF a >= b THEN a ELSE b
<1>1. Max({a, b}) = CHOOSE x \in {a, b} : \A y \in {a, b} : x >= y
  BY DEF Max
<1> QED BY <1>1

\* UpdateState leaves a tracker that fits any stream, or any open one.
LEMMA UpdateStateFits ==
    ASSUME NEW s
    PROVE  /\ UpdateState("Unknown") \in OnlineType
           /\ UpdateState("Online") \in OnlineType
           /\ TrackerFits(UpdateState("Unknown"), s)
           /\ IsOpen(s) => TrackerFits(UpdateState("Online"), s)
           /\ UpdateState("Unknown").state = "Unknown"
           /\ UpdateState("Online").state = "Online"
BY Assumptions DEF UpdateState, OnlineType, TrackerFits

\* HandleWatchStreamStart sets the timer only for a stream that is started, and
\* reports nothing as offline that was not.
LEMMA StartFits ==
    ASSUME NEW o \in OnlineType, NEW s, NEW t, TrackerFits(o, s),
           ~IsStarted(s) \/ o.state # "Online", IsStarted(t)
    PROVE  /\ HandleWatchStreamStart(o) \in OnlineType
           /\ TrackerFits(HandleWatchStreamStart(o), t)
           /\ HandleWatchStreamStart(o).state = "Offline"
                => o.state = "Offline"
BY Assumptions
   DEF HandleWatchStreamStart, OnlineType, TrackerFits, IsOpen, IsStarted

\* HandleWatchStreamFailure keeps the timer only below the limit of failures,
\* and is never online.
LEMMA FailureFits ==
    ASSUME NEW o \in OnlineType, NEW s, NEW t, TrackerFits(o, s), IsStarted(t)
    PROVE  /\ HandleWatchStreamFailure(o) \in OnlineType
           /\ TrackerFits(HandleWatchStreamFailure(o), t)
           /\ HandleWatchStreamFailure(o).state # "Online"
<1> DEFINE k == kMaxWatchStreamFailures
           f == Min({o.failures + 1, k})
<1>1. k \in Nat /\ o.failures \in Nat /\ o.failures <= k /\ k > 0
  BY Assumptions DEF OnlineType
<1>2. f = IF o.failures + 1 <= k THEN o.failures + 1 ELSE k
  BY <1>1, MinPair
<1>3. f \in 0 .. k /\ (f # k => f < k)
  BY <1>1, <1>2
<1>4. HandleWatchStreamFailure(o) =
        IF o.state = "Online" THEN [o EXCEPT !.state = "Unknown"]
        ELSE IF f = k
        THEN [state |-> "Offline", failures |-> f, timer |-> FALSE]
        ELSE [o EXCEPT !.failures = f]
  BY DEF HandleWatchStreamFailure
<1> HIDE DEF f
<1> QED BY <1>1, <1>3, <1>4 DEF OnlineType, TrackerFits

\* What each operation of the stream does to its state and its idle timer.
LEMMA StreamFits ==
    ASSUME NEW s \in StreamType
    PROVE  /\ Start(s) \in StreamType /\ IsStarted(Start(s))
           /\ Start(s).idle = s.idle /\ ~IsOpen(Start(s))
           /\ \A b \in BOOLEAN : Close(s, b) \in StreamType
           /\ ~Close(s, FALSE).idle /\ ~IsOpen(Close(s, FALSE))
           /\ ~IsOpen(Close(s, TRUE))
           /\ Close(s, TRUE).idle => s.idle /\ ~IsStarted(s)
           /\ InhibitBackoff(s) \in StreamType
           /\ ~IsOpen(InhibitBackoff(s)) /\ InhibitBackoff(s).idle = s.idle
           /\ CancelIdleCheck(s) \in StreamType /\ ~CancelIdleCheck(s).idle
           /\ CancelIdleCheck(s).state = s.state
           /\ MarkIdle(s) \in StreamType
           /\ MarkIdle(s).state = s.state
           /\ MarkIdle(s).idle = (s.idle \/ IsOpen(s))
BY DEF StreamType, StreamStates, Start, Close, IsStarted, IsOpen,
       InhibitBackoff, CancelIdleCheck, MarkIdle

\* Raising snapshots answers the get() calls of qs and changes no other.
LEMMA RaisedFits ==
    ASSUME NEW gs \in [Gets -> GetType], NEW qs
    PROVE  /\ Raised(gs, qs) \in [Gets -> GetType]
           /\ \A g \in Gets :
                 /\ Raised(gs, qs)[g].q = gs[g].q
                 /\ Raised(gs, qs)[g].state = "idle" <=> gs[g].state = "idle"
                 /\ Raised(gs, qs)[g].state = "waiting"
                      <=> gs[g].state = "waiting" /\ gs[g].q \notin qs
<1> SUFFICES ASSUME NEW g \in Gets
             PROVE  /\ Raised(gs, qs)[g] \in GetType
                    /\ Raised(gs, qs)[g].q = gs[g].q
                    /\ Raised(gs, qs)[g].state = "idle"
                         <=> gs[g].state = "idle"
                    /\ Raised(gs, qs)[g].state = "waiting"
                         <=> gs[g].state = "waiting" /\ gs[g].q \notin qs
  BY DEF Raised
<1>1. gs[g] \in GetType
  OBVIOUS
<1>2. Raised(gs, qs)[g] = IF gs[g].state = "waiting" /\ gs[g].q \in qs
                          THEN [gs[g] EXCEPT !.state = "raised"] ELSE gs[g]
  BY DEF Raised
<1> QED BY <1>1, <1>2 DEF GetType

\* A target without a call is a target.
LEMMA TargetFits ==
    /\ NewTarget \in TargetType
    /\ NoTargets \in [Queries -> TargetType]
    /\ NotServed \in [Queries -> {"none", "added", "current", "settled"}]
BY ZeroVersion DEF NewTarget, NoTargets, NotServed, TargetType


-----------------------------------------------------------------------------
(* The get() calls *)

\* A broadcast of the online state answers every get() when it is Offline.
LEMMA BroadcastFits ==
    ASSUME ListenersInv, NEW o \in OnlineType, SetAndBroadcast(o)
    PROVE  /\ gets' \in [Gets -> GetType]
           /\ \A g \in Gets : gets'[g].q = gets[g].q
           /\ GetsFit'
           /\ synced' \subseteq synced
           /\ OfflineAnswersAll'
<1>1. CASE o.state = "Offline" /\ online.state # "Offline"
  <2>1. gets' = Raised(gets, Queries) /\ synced' = {}
    BY <1>1 DEF SetAndBroadcast
  <2>2. /\ gets' \in [Gets -> GetType]
        /\ \A g \in Gets :
              /\ gets'[g].q = gets[g].q
              /\ gets'[g].state = "idle" <=> gets[g].state = "idle"
              /\ gets'[g].state = "waiting"
                   <=> gets[g].state = "waiting" /\ gets[g].q \notin Queries
    BY <2>1, RaisedFits DEF ListenersInv
  <2>3. ASSUME NEW g \in Gets PROVE gets'[g].state # "waiting"
    BY <2>2, <2>3 DEF ListenersInv, GetsFit, GetType
  <2> QED BY <2>1, <2>2, <2>3 DEF ListenersInv, GetsFit, OfflineAnswersAll
<1>2. CASE ~(o.state = "Offline" /\ online.state # "Offline")
  <2>1. gets' = gets /\ synced' = synced /\ online' = o
    BY <1>2 DEF SetAndBroadcast
  <2> QED BY <1>2, <2>1 DEF ListenersInv, GetsFit, OfflineAnswersAll
<1> QED BY <1>1, <1>2

\* A broadcast that leaves the listened targets alone keeps ListenersInv.
LEMMA BroadcastListeners ==
    ASSUME ListenersInv, NEW o \in OnlineType, SetAndBroadcast(o),
           UNCHANGED listened
    PROVE  ListenersInv'
<1>1. {gets'[g].q : g \in Gets} = {gets[g].q : g \in Gets}
  BY BroadcastFits
<1> QED BY <1>1, BroadcastFits DEF ListenersInv

\* A get() that is called waits, unless it is answered from an Offline client.
LEMMA AddListeners ==
    ASSUME LocalInv, NEW g \in Gets, NEW q \in Queries, AddQueryListener(g, q)
    PROVE  ListenersInv'
<1> DEFINE st == IF ShouldRaiseInitialEvent(q \in synced, online')
                 THEN "raised" ELSE "waiting"
           r == [q |-> q, state |-> st]
<1>1. /\ gets' = [gets EXCEPT ![g] = r]
      /\ synced' = synced
      /\ gets[g].state = "idle"
      /\ listened' = listened \cup {q}
  BY DEF AddQueryListener, Listen
<1>2. /\ st \in {"waiting", "raised"}
      /\ online'.state = "Offline" => st = "raised"
  BY DEF ShouldRaiseInitialEvent
<1>3. online'.state = "Offline" => online.state = "Offline"
  BY DEF AddQueryListener, Listen, HandleWatchStreamStart, LocalInv,
         StreamInv, OnlineType
<1>4. r \in GetType /\ r.q = q /\ r.state = st
  BY <1>2 DEF GetType
<1>5. gets[g].q = NoQuery
  BY <1>1 DEF LocalInv, ListenersInv, GetsFit
<1> HIDE DEF r, st
<1>6. /\ gets' \in [Gets -> GetType]
      /\ gets'[g] = r
      /\ \A h \in Gets \ {g} : gets'[h] = gets[h]
  BY <1>1, <1>4 DEF LocalInv, ListenersInv
<1>7. GetsFit'
  BY <1>2, <1>4, <1>6, Assumptions DEF LocalInv, ListenersInv, GetsFit
<1>8. listened' = {gets'[h].q : h \in Gets} \ {NoQuery}
  BY <1>1, <1>4, <1>5, <1>6, Assumptions DEF LocalInv, ListenersInv
<1>9. OfflineAnswersAll'
  BY <1>2, <1>3, <1>4, <1>6 DEF LocalInv, ListenersInv, OfflineAnswersAll
<1> QED BY <1>1, <1>6, <1>7, <1>8, <1>9 DEF LocalInv, ListenersInv

\* A get() that returns stops listening unless another asks for the same.
LEMMA RemoveListeners ==
    ASSUME LocalInv, NEW g \in Gets, RemoveQueryListener(g)
    PROVE  ListenersInv'
<1> DEFINE q == gets[g].q
           last == \A h \in Gets \ {g} : gets[h].q # q
<1>1. /\ gets[g].state = "raised"
      /\ gets' = [gets EXCEPT ![g] = Idle]
      /\ listened' = IF last THEN listened \ {q} ELSE listened
      /\ synced' = IF last THEN synced \ {q} ELSE synced
  BY DEF RemoveQueryListener, RemoveAndCleanupTarget
<1>2. Idle \in GetType /\ Idle.q = NoQuery /\ Idle.state = "idle"
  BY DEF Idle, GetType
<1>3. /\ gets' \in [Gets -> GetType]
      /\ gets'[g] = Idle
      /\ \A h \in Gets \ {g} : gets'[h] = gets[h]
  BY <1>1, <1>2 DEF LocalInv, ListenersInv
<1>4. GetsFit'
  BY <1>2, <1>3 DEF LocalInv, ListenersInv, GetsFit
<1>5. q \in Queries
  BY <1>1 DEF LocalInv, ListenersInv, GetsFit, GetType
<1>6. listened' = {gets'[h].q : h \in Gets} \ {NoQuery}
  BY <1>1, <1>2, <1>3, <1>5, Assumptions DEF LocalInv, ListenersInv
<1>7. online'.state = "Offline" => online.state = "Offline"
  BY DEF RemoveQueryListener, StopListening, UpdateState
<1>8. OfflineAnswersAll'
  BY <1>2, <1>3, <1>7 DEF LocalInv, ListenersInv, OfflineAnswersAll
<1> QED BY <1>1, <1>3, <1>4, <1>6, <1>8 DEF LocalInv, ListenersInv

\* A snapshot answers get() calls of targets listened to.
LEMMA SnapshotListeners ==
    ASSUME LocalInv, OnSnapshot
    PROVE  ListenersInv'
<1> DEFINE qs == {q \in Queries : IsActiveTarget(target, q)
                                    /\ target[q].changed}
           done == {q \in qs : target[q].current}
<1>1. /\ gets' = Raised(gets, done)
      /\ synced' = synced \cup done
      /\ listened' = listened
      /\ online'.state = "Online"
  BY UpdateStateFits DEF OnSnapshot, OnViewSnapshots, Reads
<1>2. done \subseteq listened
  BY DEF IsActiveTarget
<1> HIDE DEF done
<1>3. /\ gets' \in [Gets -> GetType]
      /\ \A g \in Gets :
            /\ gets'[g].q = gets[g].q
            /\ gets'[g].state = "idle" <=> gets[g].state = "idle"
  BY <1>1, RaisedFits DEF LocalInv, ListenersInv
<1>4. {gets'[g].q : g \in Gets} = {gets[g].q : g \in Gets}
  BY <1>3
<1>5. GetsFit'
  BY <1>3 DEF LocalInv, ListenersInv, GetsFit
<1>6. OfflineAnswersAll'
  BY <1>1 DEF OfflineAnswersAll
<1> QED BY <1>1, <1>2, <1>3, <1>4, <1>5, <1>6 DEF LocalInv, ListenersInv

\* A rejection answers the get() calls of its target, and drops the target.
LEMMA RejectedListeners ==
    ASSUME LocalInv, OnTargetRejected
    PROVE  ListenersInv'
<1> DEFINE q == Head(answers).q
<1>1. online'.state = "Online"
  BY UpdateStateFits DEF OnTargetRejected, Reads
<1>2. OfflineAnswersAll'
  BY <1>1 DEF OfflineAnswersAll
<1>3. CASE q \notin listened
  BY <1>2, <1>3 DEF OnTargetRejected, LocalInv, ListenersInv, GetsFit
<1>4. CASE q \in listened
  <2>1. /\ listened' = listened \ {q}
        /\ synced' = synced \ {q}
        /\ gets' = [g \in Gets |-> IF gets[g].q = q THEN Idle ELSE gets[g]]
    BY <1>4 DEF OnTargetRejected, RemoveAndCleanupTarget
  <2>2. Idle \in GetType /\ Idle.q = NoQuery /\ Idle.state = "idle"
    BY DEF Idle, GetType
  <2>3. gets' \in [Gets -> GetType]
    BY <2>1, <2>2 DEF LocalInv, ListenersInv
  <2>4. GetsFit'
    BY <2>1, <2>2 DEF LocalInv, ListenersInv, GetsFit
  <2>5. q # NoQuery
    BY <1>4, Assumptions DEF LocalInv, ListenersInv
  <2>6. listened' = {gets'[h].q : h \in Gets} \ {NoQuery}
    BY <1>4, <2>1, <2>2, <2>5 DEF LocalInv, ListenersInv
  <2> QED BY <1>2, <2>1, <2>3, <2>4, <2>6 DEF LocalInv, ListenersInv
<1> QED BY <1>3, <1>4

\* A call that ends answers get() calls only through the online state.
LEMMA CloseListeners ==
    ASSUME LocalInv, CloseWithError, UNCHANGED listened
    PROVE  ListenersInv'
<1> DEFINE f == HandleWatchStreamFailure(online)
<1>1. /\ online \in OnlineType /\ TrackerFits(online, stream)
      /\ stream \in StreamType
  BY DEF LocalInv, StreamInv
<1>2. PICK t : IsStarted(t)
  BY <1>1, StreamFits
<1>3. f \in OnlineType /\ TrackerFits(f, t) /\ f.state # "Online"
  BY <1>1, <1>2, FailureFits
<1> HIDE DEF f
<1>4. HandleWatchStreamStart(f) \in OnlineType
  BY <1>2, <1>3, StartFits
<1>5. UpdateState("Unknown") \in OnlineType
  BY UpdateStateFits
<1>6. PICK o \in OnlineType : SetAndBroadcast(o)
  BY <1>4, <1>5 DEF CloseWithError, f
<1> QED BY <1>6, BroadcastListeners DEF LocalInv

\* Restarting the network drops no get().
LEMMA RestartListeners ==
    ASSUME LocalInv, RestartNetwork
    PROVE  ListenersInv'
<1> DEFINE o == UpdateState("Unknown")
<1>1. o \in OnlineType /\ HandleWatchStreamStart(o) \in OnlineType
  BY UpdateStateFits DEF HandleWatchStreamStart, UpdateState, OnlineType
<1>2. PICK u \in OnlineType : SetAndBroadcast(u)
  BY <1>1 DEF RestartNetwork
<1>3. UNCHANGED listened
  BY DEF RestartNetwork
<1> QED BY <1>2, <1>3, BroadcastListeners DEF LocalInv

\* Neither timer drops a get(), and the online timer answers them all.
LEMMA TimeoutListeners ==
    ASSUME LocalInv, OnlineStateTimeout \/ IdleTimeout
    PROVE  ListenersInv'
<1>1. /\ [online EXCEPT !.state = "Offline", !.timer = FALSE] \in OnlineType
      /\ UpdateState("Unknown") \in OnlineType
  BY UpdateStateFits DEF LocalInv, StreamInv, OnlineType
<1>2. PICK u \in OnlineType : SetAndBroadcast(u)
  BY <1>1 DEF OnlineStateTimeout, IdleTimeout
<1>3. UNCHANGED listened
  BY DEF OnlineStateTimeout, IdleTimeout
<1> QED BY <1>2, <1>3, BroadcastListeners DEF LocalInv

\* What does not touch the get() calls cannot make the client Offline.
LEMMA QuietListeners ==
    ASSUME ListenersInv, UNCHANGED <<gets, listened, synced>>,
           online' = online \/ online'.state = "Online"
    PROVE  ListenersInv'
BY DEF ListenersInv, GetsFit, OfflineAnswersAll

\* Every step of the client, the backend and the network keeps ListenersInv.
LEMMA NextListeners ==
    ASSUME LocalInv, [Next]_vars
    PROVE  ListenersInv'
<1>1. ASSUME NEW g \in Gets, NEW q \in Queries, AddQueryListener(g, q)
      PROVE  ListenersInv'
  BY <1>1, AddListeners
<1>2. ASSUME NEW g \in Gets, RemoveQueryListener(g) PROVE ListenersInv'
  BY <1>2, RemoveListeners
<1>3. CASE OnWatchStreamOpen
  BY <1>3, QuietListeners DEF OnWatchStreamOpen, LocalInv
<1>4. CASE OnStreamFinish
  BY <1>4, CloseListeners DEF OnStreamFinish
<1>5. CASE BackoffElapsed
  BY <1>5, QuietListeners DEF BackoffElapsed, LocalInv
<1>6. CASE IdleTimeout \/ OnlineStateTimeout
  BY <1>6, TimeoutListeners
<1>7. CASE RestartNetwork
  BY <1>7, RestartListeners
<1>8. CASE OnTargetAdded \/ OnTargetRemoved \/ OnTargetCurrent
  BY <1>8, QuietListeners, UpdateStateFits
     DEF OnTargetAdded, OnTargetRemoved, OnTargetCurrent, Reads, LocalInv
<1>9. CASE OnSnapshot
  BY <1>9, SnapshotListeners
<1>10. CASE OnTargetRejected
  BY <1>10, RejectedListeners
<1>11. CASE Server
  BY <1>11, QuietListeners
     DEF Server, ServerAdds, ServerRejects, ServerRemoves, ServerIsCurrent,
         ServerSnapshot, Serve, clientVars, LocalInv
<1>12. ASSUME NEW q \in Queries, RemoteWrite(q) PROVE ListenersInv'
  BY <1>12, QuietListeners DEF RemoteWrite, clientVars, LocalInv
<1>13. CASE UNCHANGED vars
  BY <1>13, QuietListeners DEF vars, clientVars, LocalInv
<1> QED BY <1>1, <1>2, <1>3, <1>4, <1>5, <1>6, <1>7, <1>8, <1>9, <1>10,
           <1>11, <1>12, <1>13 DEF Next, OnWatchStreamChange

-----------------------------------------------------------------------------
(* The stream *)

\* A get() that is called starts the stream and stops its idle timer.
LEMMA AddStream ==
    ASSUME LocalInv, NEW g \in Gets, NEW q \in Queries, AddQueryListener(g, q)
    PROVE  StreamInv'
<1>1. CASE q \in listened
  BY <1>1 DEF AddQueryListener, LocalInv, StreamInv, IdleIsUnwatched
<1>2. CASE q \notin listened
  <2>1. Listen(q)
    BY <1>2 DEF AddQueryListener
  <2>2. /\ stream \in StreamType /\ online \in OnlineType
        /\ TrackerFits(online, stream) /\ IdleIsUnwatched
    BY DEF LocalInv, StreamInv
  <2>3. CASE IsStarted(stream)
    <3>1. online' = online /\ stream' = CancelIdleCheck(stream)
      BY <2>1, <2>3 DEF Listen
    <3>2. /\ stream' \in StreamType /\ ~stream'.idle
          /\ stream'.state = stream.state
      BY <2>2, <3>1, StreamFits
    <3> QED BY <2>2, <2>3, <3>1, <3>2
            DEF StreamInv, TrackerFits, IdleIsUnwatched, IsStarted, IsOpen
  <2>4. CASE ~IsStarted(stream)
    <3>1. /\ online' = HandleWatchStreamStart(online)
          /\ stream' = Start(stream)
      BY <2>1, <2>4 DEF Listen
    <3>2. ~stream.idle
      BY <2>2, <2>4 DEF IdleIsUnwatched, IsOpen, IsStarted
    <3>3. stream' \in StreamType /\ IsStarted(stream') /\ ~stream'.idle
      BY <2>2, <3>1, <3>2, StreamFits
    <3>4. online' \in OnlineType /\ TrackerFits(online', stream')
      BY <2>2, <2>4, <3>1, <3>3, StartFits
    <3> QED BY <3>3, <3>4 DEF StreamInv, IdleIsUnwatched
  <2> QED BY <2>3, <2>4
<1> QED BY <1>1, <1>2

\* The last get() that returns sets the idle timer of an open stream.
LEMMA RemoveStream ==
    ASSUME LocalInv, NEW g \in Gets, RemoveQueryListener(g)
    PROVE  StreamInv'
<1> DEFINE q == gets[g].q
           last == \A h \in Gets \ {g} : gets[h].q # q
<1>1. /\ stream \in StreamType /\ online \in OnlineType
      /\ TrackerFits(online, stream) /\ IdleIsUnwatched
      /\ listened # {} => IsStarted(stream)
  BY DEF LocalInv, StreamInv
<1>2. CASE ~last
  BY <1>1, <1>2 DEF RemoveQueryListener, StreamInv, IdleIsUnwatched
<1>3. CASE last /\ IsOpen(stream)
  <2> DEFINE c == CancelIdleCheck(stream)
  <2>1. /\ listened' = listened \ {q}
        /\ stream' = IF listened = {q} THEN MarkIdle(c) ELSE c
        /\ online' = online
    BY <1>3 DEF RemoveQueryListener, StopListening, RemoveAndCleanupTarget
  <2>2. c \in StreamType /\ ~c.idle /\ c.state = stream.state
    BY <1>1, StreamFits
  <2> HIDE DEF c
  <2>3. /\ MarkIdle(c) \in StreamType /\ MarkIdle(c).state = stream.state
    BY <2>2, StreamFits
  <2>4. /\ stream' \in StreamType /\ stream'.state = stream.state
        /\ stream'.idle => listened = {q}
    BY <2>1, <2>2, <2>3
  <2> QED BY <1>1, <1>3, <2>1, <2>4
          DEF StreamInv, TrackerFits, IdleIsUnwatched, IsStarted, IsOpen
<1>4. CASE last /\ ~IsOpen(stream)
  <2>1. /\ listened' = listened \ {q}
        /\ stream' = stream
        /\ online' = IF listened = {q} THEN UpdateState("Unknown")
                     ELSE online
    BY <1>4 DEF RemoveQueryListener, StopListening, RemoveAndCleanupTarget
  <2>2. online' \in OnlineType /\ TrackerFits(online', stream')
    BY <1>1, <2>1, UpdateStateFits
  <2> QED BY <1>1, <2>1, <2>2 DEF StreamInv, IdleIsUnwatched
<1> QED BY <1>2, <1>3, <1>4

\* A call that ends with an error is followed by a new start if anything is
\* listened to.
LEMMA CloseStream ==
    ASSUME LocalInv, CloseWithError, UNCHANGED listened
    PROVE  StreamInv'
<1> DEFINE s == Close(stream, FALSE)
           f == HandleWatchStreamFailure(online)
<1>1. /\ stream \in StreamType /\ online \in OnlineType
      /\ TrackerFits(online, stream)
  BY DEF LocalInv, StreamInv
<1>2. s \in StreamType /\ ~s.idle
  BY <1>1, StreamFits
<1>3. CASE listened # {}
  <2>1. stream' = Start(s) /\ online' = HandleWatchStreamStart(f)
    BY <1>3 DEF CloseWithError, SetAndBroadcast
  <2> HIDE DEF s
  <2>2. stream' \in StreamType /\ IsStarted(stream') /\ ~stream'.idle
    BY <1>2, <2>1, StreamFits
  <2>3. f \in OnlineType /\ TrackerFits(f, stream') /\ f.state # "Online"
    BY <1>1, <2>2, FailureFits
  <2> HIDE DEF f
  <2>4. online' \in OnlineType /\ TrackerFits(online', stream')
    BY <2>1, <2>2, <2>3, StartFits
  <2> QED BY <2>2, <2>4 DEF StreamInv, IdleIsUnwatched
<1>4. CASE listened = {}
  <2>1. stream' = s /\ online' = UpdateState("Unknown")
    BY <1>4 DEF CloseWithError, SetAndBroadcast
  <2> HIDE DEF s
  <2>2. online' \in OnlineType /\ TrackerFits(online', stream')
    BY <2>1, UpdateStateFits
  <2> QED BY <1>2, <1>4, <2>1, <2>2 DEF StreamInv, IdleIsUnwatched
<1> QED BY <1>3, <1>4

\* Restarting the network starts the stream again if anything is listened to.
LEMMA RestartStream ==
    ASSUME LocalInv, RestartNetwork
    PROVE  StreamInv'
<1> DEFINE c == Close(stream, TRUE)
           s == InhibitBackoff(c)
           o == UpdateState("Unknown")
<1>1. /\ stream \in StreamType /\ IdleIsUnwatched
      /\ listened' = listened
  BY DEF LocalInv, StreamInv, RestartNetwork
<1>2. c \in StreamType /\ ~c.idle
  <2>1. c \in StreamType /\ (c.idle => stream.idle /\ ~IsStarted(stream))
    BY <1>1, StreamFits
  <2> QED BY <1>1, <2>1 DEF IdleIsUnwatched, IsOpen, IsStarted
<1> HIDE DEF c
<1>3. s \in StreamType /\ ~s.idle
  BY <1>2, StreamFits
<1>4. o \in OnlineType /\ TrackerFits(o, s) /\ o.state # "Online"
  BY UpdateStateFits
<1>5. CASE listened # {}
  <2>1. stream' = Start(s) /\ online' = HandleWatchStreamStart(o)
    BY <1>5 DEF RestartNetwork, SetAndBroadcast, c
  <2> HIDE DEF s, o
  <2>2. stream' \in StreamType /\ IsStarted(stream') /\ ~stream'.idle
    BY <1>3, <2>1, StreamFits
  <2>3. online' \in OnlineType /\ TrackerFits(online', stream')
    BY <1>4, <2>1, <2>2, StartFits
  <2> QED BY <2>2, <2>3 DEF StreamInv, IdleIsUnwatched
<1>6. CASE listened = {}
  <2>1. stream' = s /\ online' = o
    BY <1>6 DEF RestartNetwork, SetAndBroadcast, c
  <2> HIDE DEF s, o
  <2> QED BY <1>1, <1>3, <1>4, <1>6, <2>1 DEF StreamInv, IdleIsUnwatched
<1> QED BY <1>5, <1>6

\* The idle timer fires only when nothing is listened to.
LEMMA TimerStream ==
    ASSUME LocalInv, IdleTimeout \/ OnlineStateTimeout
    PROVE  StreamInv'
<1>1. /\ stream \in StreamType /\ online \in OnlineType
      /\ TrackerFits(online, stream) /\ IdleIsUnwatched
      /\ listened # {} => IsStarted(stream)
  BY DEF LocalInv, StreamInv
<1>2. CASE IdleTimeout
  <2>1. /\ stream.idle /\ stream' = Close(stream, TRUE)
        /\ online' = UpdateState("Unknown") /\ listened' = listened
    BY <1>2 DEF IdleTimeout, SetAndBroadcast
  <2>2. IsStarted(stream) /\ listened = {}
    BY <1>1, <2>1 DEF IdleIsUnwatched, IsOpen, IsStarted
  <2>3. stream' \in StreamType /\ ~stream'.idle
    BY <1>1, <2>1, <2>2, StreamFits
  <2>4. online' \in OnlineType /\ TrackerFits(online', stream')
    BY <2>1, UpdateStateFits
  <2> QED BY <2>1, <2>2, <2>3, <2>4 DEF StreamInv, IdleIsUnwatched
<1>3. CASE OnlineStateTimeout
  <2>1. /\ online' = [online EXCEPT !.state = "Offline", !.timer = FALSE]
        /\ stream' = stream /\ listened' = listened
    BY <1>3 DEF OnlineStateTimeout, SetAndBroadcast
  <2>2. online' \in OnlineType /\ TrackerFits(online', stream')
    BY <1>1, <2>1 DEF OnlineType, TrackerFits
  <2> QED BY <1>1, <2>1, <2>2 DEF StreamInv, IdleIsUnwatched
<1> QED BY <1>2, <1>3

\* A stream that opens or leaves its backoff is still started.
LEMMA StartingStream ==
    ASSUME LocalInv, OnWatchStreamOpen \/ BackoffElapsed
    PROVE  StreamInv'
<1>1. /\ stream \in StreamType /\ online \in OnlineType
      /\ TrackerFits(online, stream) /\ IdleIsUnwatched
  BY DEF LocalInv, StreamInv
<1>2. /\ stream.state \in {"Starting", "Backoff"}
      /\ UNCHANGED <<online, listened>>
      /\ stream' = [stream EXCEPT !.state = "Open"]
           \/ stream' = Start(InhibitBackoff(stream))
  BY DEF OnWatchStreamOpen, BackoffElapsed
<1>3. ~stream.idle
  BY <1>1, <1>2 DEF IdleIsUnwatched, IsOpen
<1>4. stream' \in StreamType /\ IsStarted(stream') /\ ~stream'.idle
  <2>1. CASE stream' = [stream EXCEPT !.state = "Open"]
    BY <1>1, <1>3, <2>1 DEF StreamType, StreamStates, IsStarted
  <2>2. CASE stream' = Start(InhibitBackoff(stream))
    <3>1. InhibitBackoff(stream) \in StreamType
          /\ ~InhibitBackoff(stream).idle
      BY <1>1, <1>3, StreamFits
    <3> QED BY <2>2, <3>1, StreamFits
  <2> QED BY <1>2, <2>1, <2>2
<1>5. TrackerFits(online', stream')
  BY <1>1, <1>2, <1>4 DEF TrackerFits, IsOpen
<1> QED BY <1>1, <1>2, <1>4, <1>5 DEF StreamInv, IdleIsUnwatched

\* A change that is read comes through an open stream, so Online fits it.
LEMMA ReadingStream ==
    ASSUME LocalInv, answers # <<>>, online' = UpdateState("Online"),
           UNCHANGED stream, listened' \subseteq listened
    PROVE  StreamInv'
<1>1. IsOpen(stream)
  BY DEF LocalInv, CallInv, NoCallUnlessOpen
<1>2. online' \in OnlineType /\ TrackerFits(online', stream')
  BY <1>1, UpdateStateFits
<1> QED BY <1>1, <1>2 DEF LocalInv, StreamInv, IdleIsUnwatched

\* What does not touch the stream, its tracker or its targets keeps StreamInv.
LEMMA QuietStream ==
    ASSUME LocalInv, UNCHANGED <<stream, online, listened>>
    PROVE  StreamInv'
BY DEF LocalInv, StreamInv, IdleIsUnwatched

\* Every step keeps StreamInv.
LEMMA NextStream ==
    ASSUME LocalInv, [Next]_vars
    PROVE  StreamInv'
<1>1. ASSUME NEW g \in Gets, NEW q \in Queries, AddQueryListener(g, q)
      PROVE  StreamInv'
  BY <1>1, AddStream
<1>2. ASSUME NEW g \in Gets, RemoveQueryListener(g) PROVE StreamInv'
  BY <1>2, RemoveStream
<1>3. CASE OnWatchStreamOpen \/ BackoffElapsed
  BY <1>3, StartingStream
<1>4. CASE OnStreamFinish
  BY <1>4, CloseStream DEF OnStreamFinish
<1>5. CASE IdleTimeout \/ OnlineStateTimeout
  BY <1>5, TimerStream
<1>6. CASE RestartNetwork
  BY <1>6, RestartStream
<1>7. CASE OnWatchStreamChange
  <2>1. /\ answers # <<>> /\ online' = UpdateState("Online")
        /\ UNCHANGED stream
    BY <1>7 DEF OnWatchStreamChange, OnTargetAdded, OnTargetRemoved,
                OnTargetCurrent, OnSnapshot, OnTargetRejected, Reads
  <2>2. listened' \subseteq listened
    BY <1>7 DEF OnWatchStreamChange, OnTargetAdded, OnTargetRemoved,
                OnTargetCurrent, OnSnapshot, OnTargetRejected,
                RemoveAndCleanupTarget
  <2> QED BY <2>1, <2>2, ReadingStream
<1>8. CASE Server
  BY <1>8, QuietStream
     DEF Server, ServerAdds, ServerRejects, ServerRemoves, ServerIsCurrent,
         ServerSnapshot, Serve, clientVars
<1>9. ASSUME NEW q \in Queries, RemoteWrite(q) PROVE StreamInv'
  BY <1>9, QuietStream DEF RemoteWrite, clientVars
<1>10. CASE UNCHANGED vars
  BY <1>10, QuietStream DEF vars, clientVars
<1> QED BY <1>1, <1>2, <1>3, <1>4, <1>5, <1>6, <1>7, <1>8, <1>9, <1>10
        DEF Next

-----------------------------------------------------------------------------
(* The call *)

\* Finitely many get() calls listen to finitely many targets.
LEMMA ListenedIsFinite ==
    ASSUME ListenersInv
    PROVE  IsFiniteSet(listened)
<1> DEFINE T == {gets[g].q : g \in Gets}
           f == [g \in Gets |-> gets[g].q]
<1>1. f \in Surjection(Gets, T)
  BY DEF Surjection
<1>2. IsFiniteSet(T)
  BY <1>1, FS_Surjection, WatchAssumption
<1>3. listened \in SUBSET T
  BY DEF ListenersInv
<1> HIDE DEF T
<1> QED BY <1>2, <1>3, FS_Subset

\* SetToSeq lists a finite set, every element once.
LEMMA SetToSeqFits ==
    ASSUME NEW S, IsFiniteSet(S)
    PROVE  /\ SetToSeq(S) \in Seq(S)
           /\ IsInjective(SetToSeq(S))
           /\ \A x \in S : \E i \in DOMAIN SetToSeq(S) : SetToSeq(S)[i] = x
<1> DEFINE n == Cardinality(S)
           f == SetToSeq(S)
<1>1. n \in Nat /\ ExistsBijection(1 .. n, S)
  BY FS_CardinalityType
<1>2. \E g \in [1 .. n -> S] : IsInjective(g)
  BY <1>1 DEF ExistsBijection, Bijection, Injection, IsInjective
<1>3. f \in [1 .. n -> S] /\ IsInjective(f)
  BY <1>2 DEF SetToSeq
<1>4. f \in Injection(1 .. n, S)
  BY <1>3 DEF Injection, IsInjective
<1>5. Cardinality(1 .. n) = n
  BY <1>1, FS_Interval
<1>6. f \in Surjection(1 .. n, S)
  <2> HIDE DEF f
  <2> QED BY <1>4, <1>5, FS_Injection
<1>7. f \in Seq(S)
  BY <1>1, <1>3, SeqDef
<1> QED BY <1>3, <1>6, <1>7 DEF Surjection

\* The head and the tail of a sequence have its type.
LEMMA HeadTailType ==
    ASSUME NEW T, NEW s \in Seq(T), s # <<>>
    PROVE  Head(s) \in T /\ Tail(s) \in Seq(T)
BY HeadTailProperties

\* Appending keeps the type of a sequence.
LEMMA AppendType ==
    ASSUME NEW T, NEW s \in Seq(T), NEW e \in T
    PROVE  Append(s, e) \in Seq(T)
BY AppendProperties

\* What an acknowledgement changes in a target.
LEMMA AddedFits ==
    ASSUME NEW t \in TargetType, NEW n \in Int, NEW b \in BOOLEAN
    PROVE  LET r == [t EXCEPT !.pending = n, !.changed = b]
           IN  /\ r \in TargetType
               /\ r.pending = n /\ r.changed = b
               /\ r.current = t.current /\ r.v = t.v
<1> DEFINE r == [t EXCEPT !.pending = n, !.changed = b]
<1>1. r \in TargetType
  BY DEF TargetType
<1>2. r.pending = n /\ r.changed = b /\ r.current = t.current /\ r.v = t.v
  BY DEF TargetType
<1> QED BY <1>1, <1>2

\* A stream without a call has an empty call.
LEMMA NoCallFits ==
    ASSUME NoCall
    PROVE  CallInv'
<1>1. requests' \in Seq(RequestType)
  BY DEF NoCall
<1>2. answers' \in Seq(AnswerType)
  BY DEF NoCall
<1> QED BY <1>1, <1>2, TargetFits DEF NoCall, CallInv, NoCallUnlessOpen

\* RecordPendingTargetRequest counts one more response for q, and nothing else.
LEMMA PendingFits ==
    ASSUME NEW t \in [Queries -> TargetType], NEW q \in Queries
    PROVE  /\ Pending(t, q) \in [Queries -> TargetType]
           /\ Pending(t, q)[q].pending = t[q].pending + 1
           /\ Pending(t, q)[q].current = t[q].current
           /\ Pending(t, q)[q].changed = t[q].changed
           /\ Pending(t, q)[q].v = t[q].v
           /\ \A p \in Queries \ {q} : Pending(t, q)[p] = t[p]
<1> DEFINE r == [t[q] EXCEPT !.pending = @ + 1]
<1>1. t[q] \in TargetType
  OBVIOUS
<1>2. /\ r \in TargetType
      /\ r.pending = t[q].pending + 1
      /\ r.current = t[q].current
      /\ r.changed = t[q].changed
      /\ r.v = t[q].v
  BY <1>1 DEF TargetType
<1>3. Pending(t, q) = [t EXCEPT ![q] = r]
  BY DEF Pending
<1> HIDE DEF r
<1> QED BY <1>2, <1>3

\* Sending a request keeps the call well formed.
LEMMA SendFits ==
    ASSUME LocalInv, NEW kind \in {"watch", "unwatch"}, NEW q \in Queries,
           Send(kind, q), UNCHANGED <<answers, served>>,
           IsOpen(stream)', IsOpen(stream)
    PROVE  CallInv'
<1>1. Message(kind, q, 0) \in RequestType
  BY DEF Message, RequestType
<1>2. requests' \in Seq(RequestType)
  BY <1>1, AppendType DEF Send, LocalInv, CallInv
<1>3. target' \in [Queries -> TargetType]
  BY PendingFits DEF Send, LocalInv, CallInv
<1> QED BY <1>2, <1>3 DEF LocalInv, CallInv, NoCallUnlessOpen

\* What leaves the call alone keeps CallInv while the stream stays open.
LEMMA QuietCall ==
    ASSUME LocalInv, UNCHANGED <<requests, answers, served, target>>,
           IsOpen(stream) => IsOpen(stream)'
    PROVE  CallInv'
BY DEF LocalInv, CallInv, NoCallUnlessOpen

\* A get() that is called sends at most one watch.
LEMMA AddCall ==
    ASSUME LocalInv, NEW g \in Gets, NEW q \in Queries, AddQueryListener(g, q)
    PROVE  CallInv'
<1>1. UNCHANGED <<answers, served>>
  BY DEF AddQueryListener
<1>2. CASE q \in listened \/ ~IsOpen(stream)
  <2>1. /\ UNCHANGED <<requests, target>>
        /\ IsOpen(stream) => stream' = stream
    BY <1>2 DEF AddQueryListener, Listen
  <2> QED BY <1>1, <2>1, QuietCall
<1>3. CASE q \notin listened /\ IsOpen(stream)
  <2>1. Send("watch", q) /\ stream' = CancelIdleCheck(stream)
    BY <1>3 DEF AddQueryListener, Listen, IsStarted, IsOpen
  <2>2. IsOpen(stream)'
    BY <1>3, <2>1, StreamFits DEF LocalInv, StreamInv, IsOpen
  <2> QED BY <1>1, <1>3, <2>1, <2>2, SendFits
<1> QED BY <1>2, <1>3

\* A get() that returns sends at most one unwatch.
LEMMA RemoveCall ==
    ASSUME LocalInv, NEW g \in Gets, RemoveQueryListener(g)
    PROVE  CallInv'
<1> DEFINE q == gets[g].q
           last == \A h \in Gets \ {g} : gets[h].q # q
<1>1. UNCHANGED <<answers, served>>
  BY DEF RemoveQueryListener
<1>2. CASE ~last \/ ~IsOpen(stream)
  <2>1. UNCHANGED <<requests, target, stream>>
    BY <1>2 DEF RemoveQueryListener, StopListening
  <2> QED BY <1>1, <2>1, QuietCall
<1>3. CASE last /\ IsOpen(stream)
  <2> DEFINE c == CancelIdleCheck(stream)
  <2>1. /\ Send("unwatch", q)
        /\ stream' = IF listened = {q} THEN MarkIdle(c) ELSE c
        /\ gets[g].state = "raised"
    BY <1>3 DEF RemoveQueryListener, StopListening
  <2>2. c \in StreamType /\ c.state = stream.state
    BY StreamFits DEF LocalInv, StreamInv
  <2> HIDE DEF c
  <2>3. IsOpen(stream)'
    BY <1>3, <2>1, <2>2, StreamFits DEF IsOpen
  <2>4. q \in Queries
    BY <2>1 DEF LocalInv, ListenersInv, GetsFit, GetType
  <2> QED BY <1>1, <1>3, <2>1, <2>3, <2>4, SendFits
<1> QED BY <1>2, <1>3

\* A stream that opens watches all that is listened to.
LEMMA OpenCall ==
    ASSUME LocalInv, OnWatchStreamOpen
    PROVE  CallInv'
<1> DEFINE qs == SetToSeq(listened)
<1>1. qs \in Seq(listened) /\ listened \subseteq Queries
  BY SetToSeqFits, ListenedIsFinite DEF LocalInv, ListenersInv
<1>2. /\ requests' = [i \in DOMAIN qs |-> Message("watch", qs[i], 0)]
      /\ target' = [q \in Queries |->
             IF q \in listened THEN [NewTarget EXCEPT !.pending = 1]
             ELSE NewTarget]
      /\ stream' = [stream EXCEPT !.state = "Open"]
      /\ UNCHANGED <<answers, served>>
  BY DEF OnWatchStreamOpen
<1> HIDE DEF qs
<1>3. requests' \in Seq(RequestType)
  <2>1. \A i \in DOMAIN qs : Message("watch", qs[i], 0) \in RequestType
    BY <1>1 DEF Message, RequestType
  <2>2. Len(qs) \in Nat /\ DOMAIN qs = 1 .. Len(qs)
    BY <1>1
  <2> QED BY <1>2, <2>1, <2>2, SeqDef
<1>4. target' \in [Queries -> TargetType]
  <2>1. [NewTarget EXCEPT !.pending = 1] \in TargetType
    BY TargetFits DEF TargetType
  <2> QED BY <1>2, <2>1, TargetFits
<1>5. IsOpen(stream)'
  BY <1>2 DEF LocalInv, StreamInv, StreamType, IsOpen
<1> QED BY <1>2, <1>3, <1>4, <1>5 DEF LocalInv, CallInv, NoCallUnlessOpen

\* What reading a change does to the call.
LEMMA ReadsCall ==
    ASSUME LocalInv, NEW kind, Reads(kind), target' \in [Queries -> TargetType]
    PROVE  CallInv'
<1>1. IsOpen(stream) /\ stream' = stream
  BY DEF Reads, LocalInv, CallInv, NoCallUnlessOpen
<1>2. answers' \in Seq(AnswerType)
  BY HeadTailType DEF Reads, LocalInv, CallInv
<1> QED BY <1>1, <1>2 DEF Reads, LocalInv, CallInv, NoCallUnlessOpen

\* The answer that is read next.
LEMMA HeadFits ==
    ASSUME LocalInv, answers # <<>>
    PROVE  /\ Head(answers) \in AnswerType
           /\ Head(answers).kind # "snapshot" => Head(answers).q \in Queries
           /\ Head(answers).v \in Versions
<1>1. Head(answers) \in AnswerType
  BY HeadTailType DEF LocalInv, CallInv
<1> QED BY <1>1, ZeroVersion DEF AnswerType

\* Every change that is read leaves a well-formed call.
LEMMA ChangeCall ==
    ASSUME LocalInv, OnWatchStreamChange
    PROVE  CallInv'
<1> DEFINE q == Head(answers).q
           t == target[q]
<1>1. target \in [Queries -> TargetType]
  BY DEF LocalInv, CallInv
<1>2. CASE OnTargetAdded
  <2>1. Reads("added") /\ q \in Queries
    BY <1>2, HeadFits DEF OnTargetAdded, Reads
  <2> DEFINE b == t.changed /\ t.pending # 1
             r == [t EXCEPT !.pending = t.pending - 1, !.changed = b]
  <2>2. target' = [target EXCEPT ![q] = r]
    BY <1>2 DEF OnTargetAdded
  <2>3. t \in TargetType
    BY <1>1, <2>1
  <2>4. r \in TargetType
    <3>1. t.changed \in BOOLEAN
      BY <2>3 DEF TargetType
    <3> HIDE DEF t
    <3>2. b \in BOOLEAN
      <4>1. CASE t.pending = 1
        BY <4>1
      <4>2. CASE t.pending # 1
        BY <3>1, <4>2
      <4> HIDE DEF b
      <4> QED BY <4>1, <4>2
    <3>3. t.pending - 1 \in Int
      BY <2>3 DEF TargetType
    <3> HIDE DEF b
    <3> QED BY <2>3, <3>2, <3>3, AddedFits
  <2> HIDE DEF q, r
  <2>5. target' \in [Queries -> TargetType]
    BY <1>1, <2>1, <2>2, <2>4
  <2> QED BY <2>1, <2>5, ReadsCall
<1>3. CASE OnTargetRemoved
  <2> DEFINE r == IF t.pending = 1 THEN NewTarget
                  ELSE [t EXCEPT !.pending = t.pending - 1]
  <2>1. Reads("removed") /\ q \in Queries
    BY <1>3, HeadFits DEF OnTargetRemoved, Reads
  <2>2. target' = [target EXCEPT ![q] = r]
    BY <1>3, <1>1, <2>1 DEF OnTargetRemoved
  <2>3. t \in TargetType
    BY <1>1, <2>1
  <2>4. r \in TargetType
    BY <2>3, TargetFits DEF TargetType
  <2> HIDE DEF q, r
  <2>5. target' \in [Queries -> TargetType]
    BY <1>1, <2>1, <2>2, <2>4
  <2> QED BY <2>1, <2>5, ReadsCall
<1>4. CASE OnTargetCurrent
  <2> DEFINE r == [t EXCEPT !.current = TRUE, !.changed = TRUE,
                            !.v = Head(answers).v]
  <2>1. Reads("current") /\ q \in Queries /\ Head(answers).v \in Versions
    BY <1>4, HeadFits DEF OnTargetCurrent, Reads
  <2>2. target' = target \/ target' = [target EXCEPT ![q] = r]
    BY <1>4 DEF OnTargetCurrent
  <2>3. t \in TargetType
    BY <1>1, <2>1
  <2>4. r \in TargetType
    BY <2>1, <2>3 DEF TargetType
  <2> HIDE DEF q, r
  <2>5. target' \in [Queries -> TargetType]
    BY <1>1, <2>1, <2>2, <2>4
  <2> QED BY <2>1, <2>5, ReadsCall
<1>5. CASE OnSnapshot
  <2> DEFINE qs == {p \in Queries : IsActiveTarget(target, p)
                                      /\ target[p].changed}
  <2>1. /\ Reads("snapshot")
        /\ target' = [p \in Queries |->
               IF p \in qs THEN [target[p] EXCEPT !.changed = FALSE]
               ELSE target[p]]
    BY <1>5 DEF OnSnapshot
  <2> HIDE DEF qs
  <2>2. target' \in [Queries -> TargetType]
    BY <1>1, <2>1 DEF TargetType
  <2> QED BY <2>1, <2>2, ReadsCall
<1>6. CASE OnTargetRejected
  <2>1. Reads("rejected")
    BY <1>6 DEF OnTargetRejected
  <2>2. target' = target \/ target' = [target EXCEPT ![q] = NewTarget]
    BY <1>6 DEF OnTargetRejected
  <2>3. target' \in [Queries -> TargetType]
    BY <1>1, <2>2, TargetFits
  <2> QED BY <2>1, <2>3, ReadsCall
<1> QED BY <1>2, <1>3, <1>4, <1>5, <1>6 DEF OnWatchStreamChange

\* The backend touches only the call.
LEMMA ServerCall ==
    ASSUME LocalInv, Server
    PROVE  /\ CallInv'
           /\ UNCHANGED <<clientVars, docs, since, faults>>
<1> DEFINE q == Head(requests).q
<1>1. UNCHANGED <<clientVars, docs, since, faults>>
  BY DEF Server, ServerAdds, ServerRejects, ServerRemoves, ServerIsCurrent,
         ServerSnapshot, Serve
<1>2. IsOpen(stream) /\ stream' = stream /\ target' = target
  <2>1. requests # <<>> \/ \E p \in Queries : served[p] # "none"
    BY DEF Server, ServerAdds, ServerRejects, ServerRemoves, ServerIsCurrent,
           ServerSnapshot, Serve
  <2> QED BY <1>1, <2>1
          DEF clientVars, LocalInv, CallInv, NoCallUnlessOpen, NotServed
<1>3. requests' \in Seq(RequestType) /\ (requests # <<>> => q \in Queries)
  <2>1. \/ requests' = requests
        \/ requests # <<>> /\ requests' = Tail(requests)
    BY DEF Server, ServerAdds, ServerRejects, ServerRemoves, ServerIsCurrent,
           ServerSnapshot, Serve
  <2>2. requests # <<>> => Head(requests) \in RequestType
    BY HeadTailType DEF LocalInv, CallInv
  <2>3. requests # <<>> => q \in Queries
    BY <2>2 DEF RequestType
  <2>4. requests # <<>> => Tail(requests) \in Seq(RequestType)
    BY HeadTailType DEF LocalInv, CallInv
  <2> QED BY <2>1, <2>3, <2>4 DEF LocalInv, CallInv
<1>4. answers' \in Seq(AnswerType)
  <2>1. \/ answers' = answers
        \/ \E kind \in {"added", "removed", "rejected"} :
              requests # <<>> /\ answers' = Append(answers, Message(kind, q, 0))
        \/ \E p \in Queries :
              answers' = Append(answers, Message("current", p, docs[p]))
        \/ answers' = Append(answers, Message("snapshot", NoQuery, 0))
    BY DEF Server, ServerAdds, ServerRejects, ServerRemoves, ServerIsCurrent,
           ServerSnapshot, Serve
  <2>2. ASSUME NEW kind \in {"added", "removed", "rejected"}, requests # <<>>
        PROVE  Message(kind, q, 0) \in AnswerType
    BY <1>3, <2>2 DEF Message, AnswerType
  <2>3. ASSUME NEW p \in Queries
        PROVE  Message("current", p, docs[p]) \in AnswerType
    BY <2>3 DEF Message, AnswerType, LocalInv, VersionsInv
  <2>4. Message("snapshot", NoQuery, 0) \in AnswerType
    BY DEF Message, AnswerType
  <2> QED BY <2>1, <2>2, <2>3, <2>4, AppendType DEF LocalInv, CallInv
<1>5. served' \in [Queries -> {"none", "added", "current", "settled"}]
  BY <1>3 DEF Server, ServerAdds, ServerRejects, ServerRemoves,
         ServerIsCurrent, ServerSnapshot, Serve, LocalInv, CallInv
<1> QED BY <1>1, <1>2, <1>3, <1>4, <1>5
        DEF LocalInv, CallInv, NoCallUnlessOpen

\* Every step keeps CallInv.
LEMMA NextCall ==
    ASSUME LocalInv, [Next]_vars
    PROVE  CallInv'
<1>1. ASSUME NEW g \in Gets, NEW q \in Queries, AddQueryListener(g, q)
      PROVE  CallInv'
  BY <1>1, AddCall
<1>2. ASSUME NEW g \in Gets, RemoveQueryListener(g) PROVE CallInv'
  BY <1>2, RemoveCall
<1>3. CASE OnWatchStreamOpen
  BY <1>3, OpenCall
<1>4. CASE OnStreamFinish \/ IdleTimeout \/ RestartNetwork
  BY <1>4, NoCallFits
     DEF OnStreamFinish, CloseWithError, IdleTimeout, RestartNetwork
<1>5. CASE BackoffElapsed
  BY <1>5, QuietCall DEF BackoffElapsed, callVars, IsOpen
<1>6. CASE OnlineStateTimeout
  BY <1>6, QuietCall DEF OnlineStateTimeout, callVars
<1>7. CASE OnWatchStreamChange
  BY <1>7, ChangeCall
<1>8. CASE Server
  BY <1>8, ServerCall
<1>9. ASSUME NEW q \in Queries, RemoteWrite(q) PROVE CallInv'
  BY <1>9, QuietCall DEF RemoteWrite, clientVars, callVars
<1>10. CASE UNCHANGED vars
  BY <1>10, QuietCall DEF vars, clientVars, callVars
<1> QED BY <1>1, <1>2, <1>3, <1>4, <1>5, <1>6, <1>7, <1>8, <1>9, <1>10
        DEF Next

-----------------------------------------------------------------------------
(* The documents *)

\* Every step keeps VersionsInv: what a listener began with is no newer than
\* what is stored.
LEMMA NextVersions ==
    ASSUME LocalInv, [Next]_vars
    PROVE  VersionsInv'
<1> USE Assumptions DEF LocalInv, VersionsInv, Versions
<1>1. ASSUME NEW g \in Gets, NEW q \in Queries, AddQueryListener(g, q)
      PROVE  VersionsInv'
  <2>1. /\ UNCHANGED <<cache, docs, faults>>
        /\ since' = since \/ since' = [since EXCEPT ![q] = docs[q]]
    BY <1>1 DEF AddQueryListener, Listen
  <2> QED BY <2>1
<1>2. ASSUME NEW g \in Gets, RemoveQueryListener(g) PROVE VersionsInv'
  BY <1>2 DEF RemoveQueryListener
<1>3. CASE OnWatchStreamOpen \/ BackoffElapsed \/ IdleTimeout
             \/ OnlineStateTimeout
  BY <1>3 DEF OnWatchStreamOpen, BackoffElapsed, IdleTimeout,
              OnlineStateTimeout
<1>4. CASE OnStreamFinish \/ RestartNetwork
  <2>1. /\ UNCHANGED <<cache, docs, since>>
        /\ faults < MaxFaults /\ faults' = faults + 1
    BY <1>4 DEF OnStreamFinish, RestartNetwork
  <2> QED BY <2>1
<1>5. CASE OnWatchStreamChange
  <2>1. UNCHANGED <<docs, since, faults>>
    BY <1>5 DEF OnWatchStreamChange, OnTargetAdded, OnTargetRemoved,
                OnTargetCurrent, OnSnapshot, OnTargetRejected, Reads
  <2>2. cache' \in [Queries -> Versions]
    <3>1. CASE OnSnapshot
      <4> DEFINE qs == {q \in Queries : IsActiveTarget(target, q)
                                          /\ target[q].changed}
      <4>1. cache' = [q \in Queries |->
                IF q \in qs THEN Max({cache[q], target[q].v}) ELSE cache[q]]
        BY <3>1 DEF OnSnapshot
      <4> HIDE DEF qs
      <4>2. ASSUME NEW q \in Queries
            PROVE  Max({cache[q], target[q].v}) \in Versions
        <5>1. cache[q] \in Versions /\ target[q].v \in Versions
          BY <4>2 DEF CallInv, TargetType
        <5> QED BY <5>1, MaxPair
      <4> QED BY <4>1, <4>2
    <3>2. CASE ~OnSnapshot
      BY <1>5, <3>2 DEF OnWatchStreamChange, OnTargetAdded, OnTargetRemoved,
                  OnTargetCurrent, OnTargetRejected
    <3> QED BY <3>1, <3>2
  <2> QED BY <2>1, <2>2
<1>6. CASE Server
  BY <1>6, ServerCall DEF clientVars
<1>7. ASSUME NEW q \in Queries, RemoteWrite(q) PROVE VersionsInv'
  <2>1. /\ UNCHANGED <<cache, since, faults>>
        /\ docs[q] < MaxVersion /\ docs' = [docs EXCEPT ![q] = docs[q] + 1]
    BY <1>7 DEF RemoteWrite, clientVars
  <2>2. docs[q] \in Nat /\ docs[q] + 1 \in Versions
    BY <2>1
  <2>3. docs' \in [Queries -> Versions] /\ docs'[q] = docs[q] + 1
        /\ \A p \in Queries \ {q} : docs'[p] = docs[p]
    BY <2>1, <2>2
  <2>4. \A p \in Queries : since[p] \in Nat /\ docs[p] \in Nat
    OBVIOUS
  <2> QED BY <2>1, <2>2, <2>3, <2>4
<1>8. CASE UNCHANGED vars
  BY <1>8 DEF vars, clientVars
<1> QED BY <1>1, <1>2, <1>3, <1>4, <1>5, <1>6, <1>7, <1>8 DEF Next

-----------------------------------------------------------------------------

\* LocalInv holds initially.
LEMMA InitLocal == Init => LocalInv
<1> SUFFICES ASSUME Init PROVE LocalInv
  OBVIOUS
<1>1. ListenersInv
  BY DEF Init, ListenersInv, Idle, GetType, GetsFit, OfflineAnswersAll
<1>2. StreamInv
  BY UpdateStateFits DEF Init, StreamInv, InitialStream, StreamType,
     StreamStates, IdleIsUnwatched
<1>3. CallInv
  <2>1. requests \in Seq(RequestType)
    BY DEF Init
  <2>2. answers \in Seq(AnswerType)
    BY DEF Init
  <2> QED BY <2>1, <2>2, TargetFits DEF Init, CallInv, NoCallUnlessOpen
<1>4. VersionsInv
  BY ZeroVersion, Assumptions DEF Init, VersionsInv
<1> QED BY <1>1, <1>2, <1>3, <1>4 DEF LocalInv

\* Every step keeps LocalInv.
LEMMA NextLocal == LocalInv /\ [Next]_vars => LocalInv'
BY NextListeners, NextStream, NextCall, NextVersions DEF LocalInv

\* LocalInv always holds: the inductive invariant of RemoteStore, its watch
\* stream, the OnlineStateTracker and the get() calls of the app.
THEOREM WatchIsConsistent == Spec => []LocalInv
BY InitLocal, NextLocal, PTL DEF Spec

\* The variables have their types, the counts of WatchChangeAggregator, the
\* attempts of the tracker and the versions included.
THEOREM WatchTypeCorrect == Spec => []TypeOK
<1>1. LocalInv => TypeOK
  BY DEF LocalInv, ListenersInv, StreamInv, CallInv, VersionsInv, TypeOK,
         GetType, OnlineType, StreamType, TargetType
<1> QED BY <1>1, WatchIsConsistent, PTL

\* RemoteStore's ListenToTarget, OnWatchStreamClose and RestartNetwork leave no
\* target that is listened to without a started stream.
THEOREM AlwaysWatchedWhileListened == Spec => []WatchedWhileListened
<1>1. LocalInv => WatchedWhileListened
  BY DEF LocalInv, ListenersInv, StreamInv, WatchedWhileListened
<1> QED BY <1>1, WatchIsConsistent, PTL

\* The idle timer that StopListening sets never runs while a target is listened
\* to: Listen cancels it before it can close a call in use.
THEOREM IdleIsAlwaysUnwatched == Spec => []IdleIsUnwatched
<1>1. LocalInv => IdleIsUnwatched
  BY DEF LocalInv, StreamInv
<1> QED BY <1>1, WatchIsConsistent, PTL

\* The two assertions of OnlineStateTracker never fail, with the one attempt
\* that the source's kMaxWatchStreamFailures allows to fail.
THEOREM TrackerNeverAsserts ==
    ASSUME kMaxWatchStreamFailures = 1
    PROVE  Spec => []TrackerAssertions
<1>1. LocalInv => TrackerAssertions
  BY DEF LocalInv, StreamInv, OnlineType, TrackerFits, TrackerAssertions
<1> QED BY <1>1, WatchIsConsistent, PTL

\* HandleOnlineStateChange leaves no get() waiting once the client is Offline,
\* and a get() called later is answered at once.
THEOREM OfflineAlwaysAnswersAll == Spec => []OfflineAnswersAll
<1>1. LocalInv => OfflineAnswersAll
  BY DEF LocalInv, ListenersInv
<1> QED BY <1>1, WatchIsConsistent, PTL

-----------------------------------------------------------------------------
(* The protocol of a call: the invariant *)

\* The positions of the requests about q.
RequestsOf(rs, q) == {i \in DOMAIN rs : rs[i].q = q}

\* The positions of the answers that the aggregator counts for q.
RepliesOf(as, q) ==
    {i \in DOMAIN as : as[i].q = q /\ as[i].kind \in {"added", "removed"}}

\* What a client may ask for of a target.
Kinds == {"watch", "unwatch"}

\* The request that the server expects for a target it is so far with.
Expects(sv) == IF sv = "none" THEN "watch" ELSE "unwatch"

\* The request about q that the client will send next when it listens to ls.
Sends(q, ls) == IF q \in ls THEN "unwatch" ELSE "watch"

\* The requests about q in rs are in turn watches and unwatches: the first one
\* is a first, and the one that would follow them a next.
Alternates(rs, q, first, next) ==
    LET I == RequestsOf(rs, q)
    IN  /\ I = {} => first = next
        /\ \A i \in I : (\A j \in I : i <= j) => rs[i].kind = first
        /\ \A i \in I : (\A j \in I : j <= i) => rs[i].kind # next
        /\ \A i, j \in I :
              i < j /\ (\A k \in I : k <= i \/ j <= k) => rs[i].kind # rs[j].kind

\* When no request about q is unhandled, the version that follows its last
\* reply is at least b.
FreshAnswers(rs, as, q, b) ==
    RequestsOf(rs, q) = {} =>
        \A i \in DOMAIN as :
            /\ as[i].q = q /\ as[i].kind = "current"
            /\ \A j \in RepliesOf(as, q) : j <= i
            => as[i].v >= b

\* What the client knows of an accepted target, t, agrees with the call.
QueryFits(q, rs, as, t, sv, ls, b) ==
    /\ t.pending = Cardinality(RequestsOf(rs, q)) + Cardinality(RepliesOf(as, q))
    /\ Alternates(rs, q, Expects(sv), Sends(q, ls))
    /\ q \in ls => FreshAnswers(rs, as, q, b)
    /\ q \in ls /\ t.pending = 0 /\ t.current /\ t.changed => t.v >= b

\* QueryFits in the current state.
Fits(q) ==
    QueryFits(q, requests, answers, target[q], served[q], listened, since[q])

\* While a call is open, every target that the rules accept fits it.
QueriesFit == IsOpen(stream) => \A q \in Queries \ Restricted : Fits(q)

\* A target that the rules refuse is answered by rejections only.
RefusedFits ==
    /\ \A q \in Restricted : served[q] = "none" /\ ~target[q].current
    /\ \A i \in DOMAIN answers :
          answers[i].q \in Restricted <=> answers[i].kind = "rejected"

\* What the two ends of a call know of each other.
ProtocolInv == QueriesFit /\ RefusedFits /\ SyncedIsFresh

-----------------------------------------------------------------------------
(* Positions of messages *)

\* The positions S in a sequence, seen from its tail.
Shift(S) == {i \in Nat \ {0} : i + 1 \in S}

\* Seen from the tail a set of positions loses one when the head is in it.
LEMMA ShiftCardinality ==
    ASSUME NEW n \in Nat, NEW S \in SUBSET (1 .. n)
    PROVE  /\ IsFiniteSet(S) /\ IsFiniteSet(Shift(S))
           /\ Cardinality(S) \in Nat
           /\ Cardinality(Shift(S)) =
                IF 1 \in S THEN Cardinality(S) - 1 ELSE Cardinality(S)
<1> DEFINE f == [i \in Shift(S) |-> i + 1]
<1>1. IsFiniteSet(1 .. n)
  BY FS_Interval
<1>2. IsFiniteSet(S) /\ Cardinality(S) \in Nat
  BY <1>1, FS_Subset, FS_CardinalityType
<1>3. Shift(S) \in SUBSET (1 .. n)
  BY DEF Shift
<1>4. IsFiniteSet(Shift(S))
  BY <1>1, <1>3, FS_Subset
<1>5. f \in Bijection(Shift(S), S \ {1})
  <2>1. f \in [Shift(S) -> S \ {1}]
    BY DEF Shift
  <2>2. ASSUME NEW i \in Shift(S), NEW j \in Shift(S), f[i] = f[j]
        PROVE  i = j
    BY <2>2 DEF Shift
  <2>3. ASSUME NEW x \in S \ {1} PROVE \E i \in Shift(S) : f[i] = x
    <3>1. x \in 1 .. n /\ x - 1 \in Nat \ {0} /\ (x - 1) + 1 = x
      OBVIOUS
    <3>2. x - 1 \in Shift(S)
      BY <3>1 DEF Shift
    <3> QED BY <3>1, <3>2
  <2> QED BY <2>1, <2>2, <2>3
          DEF Bijection, Injection, Surjection, IsInjective
<1>6. Cardinality(Shift(S)) = Cardinality(S \ {1})
  <2>1. ExistsBijection(Shift(S), S \ {1})
    BY <1>5 DEF ExistsBijection
  <2> QED BY <1>4, <2>1, FS_Bijection
<1> QED BY <1>2, <1>4, <1>6, FS_RemoveElement

\* A position after all others is one more.
LEMMA AddCardinality ==
    ASSUME NEW n \in Nat, NEW S \in SUBSET (1 .. n)
    PROVE  /\ Cardinality(S \cup {n + 1}) = Cardinality(S) + 1
           /\ Cardinality(S) \in Nat
           /\ Cardinality(S) = 0 <=> S = {}
<1>1. IsFiniteSet(1 .. n)
  BY FS_Interval
<1>2. IsFiniteSet(S) /\ Cardinality(S) \in Nat
  BY <1>1, FS_Subset, FS_CardinalityType
<1>3. n + 1 \notin S
  OBVIOUS
<1> QED BY <1>2, <1>3, FS_AddElement, FS_EmptySet

\* The positions of a sequence with one more element.
LEMMA OneLonger ==
    ASSUME NEW n \in Nat
    PROVE  1 .. (n + 1) = (1 .. n) \cup {n + 1}
OBVIOUS

\* The positions of a sequence without its first element.
LEMMA OneShorter ==
    ASSUME NEW n \in Nat, n > 0
    PROVE  /\ 1 \in 1 .. n
           /\ \A i \in 1 .. (n - 1) : i \in Nat \ {0} /\ i + 1 \in 1 .. n
           /\ \A i \in Nat \ {0} : i + 1 \in 1 .. n <=> i \in 1 .. (n - 1)
OBVIOUS

\* The tail of a sequence, position by position.
LEMMA TailPositions ==
    ASSUME NEW T, NEW s \in Seq(T), s # <<>>
    PROVE  /\ Len(s) \in Nat /\ Len(s) > 0 /\ DOMAIN s = 1 .. Len(s)
           /\ DOMAIN Tail(s) = 1 .. (Len(s) - 1)
           /\ \A i \in 1 .. (Len(s) - 1) : Tail(s)[i] = s[i + 1]
           /\ Head(s) = s[1]
<1>1. Len(s) \in Nat \ {0} /\ DOMAIN s = 1 .. Len(s)
  BY EmptySeq, LenProperties
<1>2. /\ Tail(s) \in Seq(T) /\ Len(Tail(s)) = Len(s) - 1
      /\ \A i \in 1 .. Len(Tail(s)) : Tail(s)[i] = s[i + 1]
  BY HeadTailProperties
<1>3. DOMAIN Tail(s) = 1 .. Len(Tail(s))
  BY <1>2, LenProperties
<1>4. Head(s) = s[1]
  OBVIOUS
<1>5. Len(s) > 0
  BY <1>1
<1> QED BY <1>1, <1>2, <1>3, <1>4, <1>5

\* The positions of the requests about q are positions, of requests.
LEMMA RequestPositions ==
    ASSUME NEW rs \in Seq(RequestType), NEW q
    PROVE  /\ Len(rs) \in Nat /\ DOMAIN rs = 1 .. Len(rs)
           /\ RequestsOf(rs, q) \in SUBSET (1 .. Len(rs))
           /\ \A i \in RequestsOf(rs, q) : rs[i].kind \in Kinds
<1>1. Len(rs) \in Nat /\ DOMAIN rs = 1 .. Len(rs)
  OBVIOUS
<1>2. RequestsOf(rs, q) \in SUBSET (1 .. Len(rs))
  BY <1>1 DEF RequestsOf
<1>3. ASSUME NEW i \in RequestsOf(rs, q) PROVE rs[i].kind \in Kinds
  <2>1. rs[i] \in RequestType
    BY <1>1, <1>2, <1>3, ElementOfSeq
  <2> QED BY <2>1 DEF RequestType, Kinds
<1> QED BY <1>1, <1>2, <1>3

\* The requests about q after one more request.
LEMMA RequestAppended ==
    ASSUME NEW rs \in Seq(RequestType), NEW m \in RequestType, NEW q
    PROVE  LET n == Len(rs) + 1
           IN  /\ RequestsOf(Append(rs, m), q) =
                    IF m.q = q THEN RequestsOf(rs, q) \cup {n}
                    ELSE RequestsOf(rs, q)
               /\ Append(rs, m)[n] = m
               /\ \A i \in RequestsOf(rs, q) : Append(rs, m)[i] = rs[i]
<1>1. /\ Len(rs) \in Nat /\ DOMAIN rs = 1 .. Len(rs)
      /\ DOMAIN Append(rs, m) = 1 .. (Len(rs) + 1)
      /\ Append(rs, m)[Len(rs) + 1] = m
      /\ \A i \in 1 .. Len(rs) : Append(rs, m)[i] = rs[i]
  BY AppendProperties
<1> QED BY <1>1 DEF RequestsOf

\* The requests about q after the first one is handled.
LEMMA RequestTaken ==
    ASSUME NEW rs \in Seq(RequestType), rs # <<>>, NEW q
    PROVE  /\ RequestsOf(Tail(rs), q) = Shift(RequestsOf(rs, q))
           /\ 1 \in RequestsOf(rs, q) <=> Head(rs).q = q
           /\ rs[1] = Head(rs)
           /\ \A i \in Shift(RequestsOf(rs, q)) : Tail(rs)[i] = rs[i + 1]
<1>1. /\ Len(rs) \in Nat /\ Len(rs) > 0 /\ DOMAIN rs = 1 .. Len(rs)
      /\ DOMAIN Tail(rs) = 1 .. (Len(rs) - 1)
      /\ \A i \in 1 .. (Len(rs) - 1) : Tail(rs)[i] = rs[i + 1]
      /\ Head(rs) = rs[1]
  BY TailPositions
<1>2. \A i \in Nat \ {0} : i + 1 \in 1 .. Len(rs) <=> i \in 1 .. (Len(rs) - 1)
  BY <1>1
<1> QED BY <1>1, <1>2 DEF RequestsOf, Shift

\* The positions of the replies about q are positions.
LEMMA ReplyPositions ==
    ASSUME NEW as \in Seq(AnswerType), NEW q
    PROVE  /\ Len(as) \in Nat /\ DOMAIN as = 1 .. Len(as)
           /\ RepliesOf(as, q) \in SUBSET (1 .. Len(as))
<1>1. Len(as) \in Nat /\ DOMAIN as = 1 .. Len(as)
  OBVIOUS
<1> QED BY <1>1 DEF RepliesOf

\* a is the sequence s, which has n elements, with m after it.
Appended(a, s, m, n) ==
    /\ DOMAIN a = (1 .. n) \cup {n + 1}
    /\ a[n + 1] = m
    /\ \A i \in 1 .. n : a[i] = s[i]

\* Append, position by position.
LEMMA AnswerAppended ==
    ASSUME NEW T, NEW as \in Seq(T), NEW m \in T
    PROVE  Appended(Append(as, m), as, m, Len(as))
<1>1. Append(as, m) \in Seq(T)
  BY AppendProperties
<1>2. Len(Append(as, m)) = Len(as) + 1
  BY AppendProperties
<1>3. \A i \in 1 .. Len(as) : Append(as, m)[i] = as[i]
  BY AppendProperties
<1>4. Append(as, m)[Len(as) + 1] = m
  BY AppendProperties
<1>5. DOMAIN Append(as, m) = 1 .. (Len(as) + 1)
  BY <1>1, <1>2, LenProperties
<1>6. 1 .. (Len(as) + 1) = (1 .. Len(as)) \cup {Len(as) + 1}
  BY OneLonger, LenProperties
<1> QED BY <1>3, <1>4, <1>5, <1>6 DEF Appended

\* The replies about q after one more answer.
LEMMA ReplyAppended ==
    ASSUME NEW as \in Seq(AnswerType), NEW m \in AnswerType, NEW q
    PROVE  RepliesOf(Append(as, m), q) =
             IF m.q = q /\ m.kind \in {"added", "removed"}
             THEN RepliesOf(as, q) \cup {Len(as) + 1} ELSE RepliesOf(as, q)
<1> DEFINE n == Len(as)
           a == Append(as, m)
<1>1. n \in Nat /\ DOMAIN as = 1 .. n
  BY ReplyPositions
<1>2. Appended(a, as, m, n)
  BY AnswerAppended
<1> HIDE DEF n, a
<1>3. RepliesOf(a, q) = IF m.q = q /\ m.kind \in {"added", "removed"}
                        THEN RepliesOf(as, q) \cup {n + 1}
                        ELSE RepliesOf(as, q)
  BY <1>1, <1>2 DEF RepliesOf, Appended
<1> QED BY <1>3 DEF a, n

\* The replies about q after the first answer is read.
LEMMA ReplyTaken ==
    ASSUME NEW as \in Seq(AnswerType), as # <<>>, NEW q
    PROVE  /\ RepliesOf(Tail(as), q) = Shift(RepliesOf(as, q))
           /\ 1 \in RepliesOf(as, q) <=>
                Head(as).q = q /\ Head(as).kind \in {"added", "removed"}
           /\ as[1] = Head(as) /\ 1 \in DOMAIN as
           /\ \A i \in DOMAIN Tail(as) :
                 /\ i \in Nat \ {0} /\ i + 1 \in DOMAIN as
                 /\ Tail(as)[i] = as[i + 1]
<1> DEFINE n == Len(as)
           t == Tail(as)
<1>1. /\ n \in Nat /\ n > 0 /\ DOMAIN as = 1 .. n
      /\ DOMAIN t = 1 .. (n - 1)
      /\ \A i \in 1 .. (n - 1) : t[i] = as[i + 1]
      /\ Head(as) = as[1]
  BY TailPositions
<1> HIDE DEF n, t
<1>2. /\ 1 \in 1 .. n
      /\ \A i \in 1 .. (n - 1) : i \in Nat \ {0} /\ i + 1 \in 1 .. n
      /\ \A i \in Nat \ {0} : i + 1 \in 1 .. n <=> i \in 1 .. (n - 1)
  BY <1>1, OneShorter
<1>3. RepliesOf(t, q) = Shift(RepliesOf(as, q))
  BY <1>1, <1>2 DEF RepliesOf, Shift
<1>4. 1 \in RepliesOf(as, q) <=>
        Head(as).q = q /\ Head(as).kind \in {"added", "removed"}
  BY <1>1, <1>2 DEF RepliesOf
<1>5. \A i \in DOMAIN t : /\ i \in Nat \ {0} /\ i + 1 \in DOMAIN as
                          /\ t[i] = as[i + 1]
  BY <1>1, <1>2
<1> QED BY <1>1, <1>2, <1>3, <1>4, <1>5 DEF t

-----------------------------------------------------------------------------
(* Watches and unwatches alternate *)

\* A request in its turn keeps the alternation.
LEMMA AlternatesAppended ==
    ASSUME NEW rs \in Seq(RequestType), NEW m \in RequestType, NEW q,
           NEW first \in Kinds, NEW last \in Kinds, NEW next \in Kinds,
           Alternates(rs, q, first, last),
           m.q = q, m.kind = last, next # last
    PROVE  Alternates(Append(rs, m), q, first, next)
<1> DEFINE I == RequestsOf(rs, q)
           n == Len(rs)
           a == Append(rs, m)
<1>1. n \in Nat /\ I \in SUBSET (1 .. n)
  BY RequestPositions
<1>2. /\ RequestsOf(a, q) = I \cup {n + 1}
      /\ a[n + 1] = m
      /\ \A i \in I : a[i] = rs[i]
  BY RequestAppended
<1>3. /\ I = {} => first = last
      /\ \A i \in I : (\A j \in I : i <= j) => rs[i].kind = first
      /\ \A i \in I : (\A j \in I : j <= i) => rs[i].kind # last
      /\ \A i, j \in I : i < j /\ (\A k \in I : k <= i \/ j <= k)
                           => rs[i].kind # rs[j].kind
  BY DEF Alternates
<1>4. \A i \in I : i \in Nat /\ i < n + 1
  BY <1>1
<1> HIDE DEF I, n, a
<1> DEFINE J == I \cup {n + 1}
<1>5. n + 1 \in Nat
  BY <1>1
<1>6. ASSUME NEW i \in J, \A j \in J : i <= j PROVE a[i].kind = first
  <2>1. CASE i \in I
    BY <1>2, <1>3, <1>6, <2>1
  <2>2. CASE i = n + 1
    <3>1. I = {}
      BY <1>4, <1>5, <1>6, <2>2
    <3> QED BY <1>2, <1>3, <2>2, <3>1
  <2> QED BY <2>1, <2>2
<1>7. ASSUME NEW i \in J, \A j \in J : j <= i PROVE a[i].kind # next
  <2>1. i = n + 1
    BY <1>4, <1>5, <1>7
  <2> QED BY <1>2, <2>1
<1>8. ASSUME NEW i \in J, NEW j \in J, i < j, \A k \in J : k <= i \/ j <= k
      PROVE  a[i].kind # a[j].kind
  <2>1. i \in I
    BY <1>4, <1>5, <1>8
  <2>2. CASE j \in I
    BY <1>2, <1>3, <1>8, <2>1, <2>2
  <2>3. CASE j = n + 1
    <3>1. \A k \in I : k <= i
      BY <1>4, <1>5, <1>8, <2>3
    <3> QED BY <1>2, <1>3, <2>1, <2>3, <3>1
  <2> QED BY <2>2, <2>3
<1> QED BY <1>2, <1>6, <1>7, <1>8 DEF Alternates, a

\* The first request is the expected one, and the next is of the other kind.
LEMMA AlternatesTaken ==
    ASSUME NEW rs \in Seq(RequestType), rs # <<>>, NEW q,
           NEW first \in Kinds, NEW second \in Kinds, NEW next \in Kinds,
           Alternates(rs, q, first, next), Head(rs).q = q, second # first
    PROVE  /\ Head(rs).kind = first
           /\ Alternates(Tail(rs), q, second, next)
<1> DEFINE I == RequestsOf(rs, q)
           t == Tail(rs)
<1>1. I \in SUBSET (1 .. Len(rs)) /\ \A i \in I : rs[i].kind \in Kinds
  BY RequestPositions
<1>2. /\ RequestsOf(t, q) = Shift(I)
      /\ 1 \in I /\ rs[1] = Head(rs)
      /\ \A i \in Shift(I) : t[i] = rs[i + 1]
  BY RequestTaken
<1>3. /\ \A i \in I : (\A j \in I : i <= j) => rs[i].kind = first
      /\ \A i \in I : (\A j \in I : j <= i) => rs[i].kind # next
      /\ \A i, j \in I : i < j /\ (\A k \in I : k <= i \/ j <= k)
                           => rs[i].kind # rs[j].kind
  BY DEF Alternates
<1>4. \A i \in I : i \in Nat /\ 1 <= i
  BY <1>1
<1> HIDE DEF I, t
<1>5. rs[1].kind = first
  BY <1>2, <1>3, <1>4
<1>6. \A i \in Shift(I) : i \in Nat /\ i > 0 /\ i + 1 \in I
  BY DEF Shift
<1>7. \A k \in I : k = 1 \/ \E i \in Shift(I) : k = i + 1
  <2> SUFFICES ASSUME NEW k \in I, k # 1 PROVE \E i \in Shift(I) : k = i + 1
    OBVIOUS
  <2>1. k - 1 \in Nat \ {0} /\ (k - 1) + 1 = k
    BY <1>4
  <2> QED BY <2>1 DEF Shift
<1>8. Shift(I) = {} => second = next
  <2> SUFFICES ASSUME Shift(I) = {} PROVE second = next
    OBVIOUS
  <2>1. \A j \in I : j <= 1
    BY <1>7
  <2>2. rs[1].kind # next
    BY <1>2, <1>3, <2>1
  <2> QED BY <1>5, <2>2 DEF Kinds
<1>9. ASSUME NEW i \in Shift(I), \A j \in Shift(I) : i <= j
      PROVE  t[i].kind = second
  <2>1. 1 < i + 1 /\ i + 1 \in I
    BY <1>6
  <2>2. \A k \in I : k <= 1 \/ i + 1 <= k
    BY <1>6, <1>7, <1>9
  <2>3. rs[i + 1].kind # first
    BY <1>2, <1>3, <1>5, <2>1, <2>2
  <2> QED BY <1>1, <1>2, <2>1, <2>3 DEF Kinds
<1>10. ASSUME NEW i \in Shift(I), \A j \in Shift(I) : j <= i
       PROVE  t[i].kind # next
  <2>1. \A k \in I : k <= i + 1
    BY <1>6, <1>7, <1>10
  <2> QED BY <1>2, <1>3, <1>6, <2>1
<1>11. ASSUME NEW i \in Shift(I), NEW j \in Shift(I), i < j,
              \A k \in Shift(I) : k <= i \/ j <= k
       PROVE  t[i].kind # t[j].kind
  <2>1. i + 1 < j + 1 /\ i + 1 \in I /\ j + 1 \in I
    BY <1>6, <1>11
  <2>2. \A k \in I : k <= i + 1 \/ j + 1 <= k
    BY <1>6, <1>7, <1>11
  <2>3. rs[i + 1].kind # rs[j + 1].kind
    BY <1>3, <2>1, <2>2
  <2> QED BY <1>2, <2>3
<1>12. Alternates(t, q, second, next)
  BY <1>2, <1>8, <1>9, <1>10, <1>11 DEF Alternates
<1> QED BY <1>2, <1>5, <1>12 DEF t

\* Requests about other targets do not disturb the alternation.
LEMMA AlternatesOther ==
    ASSUME NEW rs \in Seq(RequestType), NEW q, NEW first, NEW next,
           Alternates(rs, q, first, next)
    PROVE  /\ \A m \in RequestType :
                 m.q # q => Alternates(Append(rs, m), q, first, next)
           /\ rs # <<>> /\ Head(rs).q # q
                => Alternates(Tail(rs), q, first, next)
<1> DEFINE I == RequestsOf(rs, q)
<1>1. /\ I = {} => first = next
      /\ \A i \in I : (\A j \in I : i <= j) => rs[i].kind = first
      /\ \A i \in I : (\A j \in I : j <= i) => rs[i].kind # next
      /\ \A i, j \in I : i < j /\ (\A k \in I : k <= i \/ j <= k)
                           => rs[i].kind # rs[j].kind
  BY DEF Alternates
<1>2. I \in SUBSET (1 .. Len(rs))
  BY RequestPositions
<1> HIDE DEF I
<1>3. ASSUME NEW m \in RequestType, m.q # q
      PROVE  Alternates(Append(rs, m), q, first, next)
  <2> DEFINE a == Append(rs, m)
  <2>1. RequestsOf(a, q) = I /\ \A i \in I : a[i] = rs[i]
    <3>1. RequestsOf(a, q) = IF m.q = q THEN I \cup {Len(rs) + 1} ELSE I
      BY RequestAppended DEF I
    <3>2. \A i \in 1 .. Len(rs) : a[i] = rs[i]
      BY AppendProperties
    <3> HIDE DEF a
    <3> QED BY <1>2, <1>3, <3>1, <3>2
  <2> HIDE DEF a
  <2>2. Alternates(a, q, first, next)
    BY <1>1, <2>1 DEF Alternates
  <2> QED BY <2>2 DEF a
<1>4. ASSUME rs # <<>>, Head(rs).q # q
      PROVE  Alternates(Tail(rs), q, first, next)
  <2> DEFINE t == Tail(rs)
  <2>1. /\ RequestsOf(t, q) = Shift(I) /\ 1 \notin I
        /\ \A i \in Shift(I) : t[i] = rs[i + 1]
    BY <1>4, RequestTaken DEF I
  <2>2. \A i \in I : i \in Nat /\ 1 <= i
    BY <1>2
  <2> HIDE DEF t
  <2>3. \A i \in Shift(I) : i \in Nat /\ i > 0 /\ i + 1 \in I
    BY DEF Shift
  <2>4. \A k \in I : \E i \in Shift(I) : k = i + 1
    <3> SUFFICES ASSUME NEW k \in I PROVE \E i \in Shift(I) : k = i + 1
      OBVIOUS
    <3>1. k - 1 \in Nat \ {0} /\ (k - 1) + 1 = k
      BY <2>1, <2>2
    <3> QED BY <3>1 DEF Shift
  <2>5. Shift(I) = {} => first = next
    BY <1>1, <2>4
  <2>6. ASSUME NEW i \in Shift(I), \A j \in Shift(I) : i <= j
        PROVE  t[i].kind = first
    <3>1. \A k \in I : i + 1 <= k
      BY <2>3, <2>4, <2>6
    <3> QED BY <1>1, <2>1, <2>3, <3>1
  <2>7. ASSUME NEW i \in Shift(I), \A j \in Shift(I) : j <= i
        PROVE  t[i].kind # next
    <3>1. \A k \in I : k <= i + 1
      BY <2>3, <2>4, <2>7
    <3> QED BY <1>1, <2>1, <2>3, <3>1
  <2>8. ASSUME NEW i \in Shift(I), NEW j \in Shift(I), i < j,
               \A k \in Shift(I) : k <= i \/ j <= k
        PROVE  t[i].kind # t[j].kind
    <3>1. i + 1 < j + 1 /\ i + 1 \in I /\ j + 1 \in I
      BY <2>3, <2>8
    <3>2. \A k \in I : k <= i + 1 \/ j + 1 <= k
      BY <2>3, <2>4, <2>8
    <3>3. rs[i + 1].kind # rs[j + 1].kind
      BY <1>1, <3>1, <3>2
    <3> QED BY <2>1, <3>3
  <2>9. Alternates(t, q, first, next)
    BY <2>1, <2>5, <2>6, <2>7, <2>8 DEF Alternates
  <2> QED BY <2>9 DEF t
<1> QED BY <1>3, <1>4

-----------------------------------------------------------------------------
(* Requests and replies are counted *)

\* The requests about q can be counted.
LEMMA RequestCount ==
    ASSUME NEW rs \in Seq(RequestType), NEW q
    PROVE  /\ Cardinality(RequestsOf(rs, q)) \in Nat
           /\ Cardinality(RequestsOf(rs, q)) = 0 <=> RequestsOf(rs, q) = {}
BY RequestPositions, AddCardinality

\* One more request about q is one more.
LEMMA RequestCountAppended ==
    ASSUME NEW rs \in Seq(RequestType), NEW q, NEW m \in RequestType
    PROVE  Cardinality(RequestsOf(Append(rs, m), q)) =
             IF m.q = q THEN Cardinality(RequestsOf(rs, q)) + 1
             ELSE Cardinality(RequestsOf(rs, q))
<1> DEFINE n == Len(rs)
           I == RequestsOf(rs, q)
<1>1. n \in Nat /\ I \in SUBSET (1 .. n)
  BY RequestPositions
<1>2. RequestsOf(Append(rs, m), q) = IF m.q = q THEN I \cup {n + 1} ELSE I
  BY RequestAppended
<1> HIDE DEF n, I
<1>3. Cardinality(I \cup {n + 1}) = Cardinality(I) + 1
  BY <1>1, AddCardinality
<1>4. Cardinality(RequestsOf(Append(rs, m), q)) =
        IF m.q = q THEN Cardinality(I) + 1 ELSE Cardinality(I)
  BY <1>2, <1>3
<1> QED BY <1>4 DEF I

\* One request about q that is handled is one less.
LEMMA RequestCountTaken ==
    ASSUME NEW rs \in Seq(RequestType), NEW q, rs # <<>>
    PROVE  Cardinality(RequestsOf(Tail(rs), q)) =
             IF Head(rs).q = q THEN Cardinality(RequestsOf(rs, q)) - 1
             ELSE Cardinality(RequestsOf(rs, q))
<1> DEFINE n == Len(rs)
           I == RequestsOf(rs, q)
<1>1. n \in Nat /\ I \in SUBSET (1 .. n)
  BY RequestPositions
<1>2. /\ RequestsOf(Tail(rs), q) = Shift(I)
      /\ 1 \in I <=> Head(rs).q = q
  BY RequestTaken
<1> HIDE DEF n, I
<1>3. Cardinality(Shift(I)) =
        IF 1 \in I THEN Cardinality(I) - 1 ELSE Cardinality(I)
  BY <1>1, ShiftCardinality
<1> QED BY <1>2, <1>3 DEF I

\* The replies about q can be counted.
LEMMA ReplyCount ==
    ASSUME NEW as \in Seq(AnswerType), NEW q
    PROVE  /\ Cardinality(RepliesOf(as, q)) \in Nat
           /\ Cardinality(RepliesOf(as, q)) = 0 <=> RepliesOf(as, q) = {}
BY ReplyPositions, AddCardinality

\* One more reply about q is one more.
LEMMA ReplyCountAppended ==
    ASSUME NEW as \in Seq(AnswerType), NEW q, NEW m \in AnswerType
    PROVE  Cardinality(RepliesOf(Append(as, m), q)) =
             IF m.q = q /\ m.kind \in {"added", "removed"}
             THEN Cardinality(RepliesOf(as, q)) + 1
             ELSE Cardinality(RepliesOf(as, q))
<1> DEFINE n == Len(as)
           I == RepliesOf(as, q)
<1>1. n \in Nat /\ I \in SUBSET (1 .. n)
  BY ReplyPositions
<1>2. RepliesOf(Append(as, m), q) =
        IF m.q = q /\ m.kind \in {"added", "removed"}
        THEN I \cup {n + 1} ELSE I
  BY ReplyAppended
<1> HIDE DEF n, I
<1>3. Cardinality(I \cup {n + 1}) = Cardinality(I) + 1
  BY <1>1, AddCardinality
<1>4. Cardinality(RepliesOf(Append(as, m), q)) =
        IF m.q = q /\ m.kind \in {"added", "removed"}
        THEN Cardinality(I) + 1 ELSE Cardinality(I)
  BY <1>2, <1>3
<1> QED BY <1>4 DEF I

\* One reply about q that is read is one less.
LEMMA ReplyCountTaken ==
    ASSUME NEW as \in Seq(AnswerType), NEW q, as # <<>>
    PROVE  Cardinality(RepliesOf(Tail(as), q)) =
             IF Head(as).q = q /\ Head(as).kind \in {"added", "removed"}
             THEN Cardinality(RepliesOf(as, q)) - 1
             ELSE Cardinality(RepliesOf(as, q))
<1> DEFINE n == Len(as)
           I == RepliesOf(as, q)
<1>1. n \in Nat /\ I \in SUBSET (1 .. n)
  BY ReplyPositions
<1>2. /\ RepliesOf(Tail(as), q) = Shift(I)
      /\ 1 \in I <=> Head(as).q = q /\ Head(as).kind \in {"added", "removed"}
  BY ReplyTaken
<1> HIDE DEF n, I
<1>3. Cardinality(Shift(I)) =
        IF 1 \in I THEN Cardinality(I) - 1 ELSE Cardinality(I)
  BY <1>1, ShiftCardinality
<1> QED BY <1>2, <1>3 DEF I

-----------------------------------------------------------------------------
(* Versions that follow the last reply are fresh *)

\* A reply makes the versions before it irrelevant, and a version that is fresh
\* may follow.
LEMMA FreshAppended ==
    ASSUME NEW as \in Seq(AnswerType), NEW m \in AnswerType, NEW q, NEW b,
           NEW rs, NEW rest,
           \/ m.q = q /\ m.kind \in {"added", "removed"}
           \/ /\ FreshAnswers(rs, as, q, b)
              /\ RequestsOf(rest, q) = {} => RequestsOf(rs, q) = {}
              /\ m.q = q /\ m.kind = "current" => m.v >= b
    PROVE  FreshAnswers(rest, Append(as, m), q, b)
<1> DEFINE n == Len(as)
           a == Append(as, m)
           R == RepliesOf(as, q)
           reply == m.q = q /\ m.kind \in {"added", "removed"}
<1>1. n \in Nat /\ DOMAIN as = 1 .. n /\ R \in SUBSET (1 .. n)
  BY ReplyPositions
<1>2. Appended(a, as, m, n)
  BY AnswerAppended
<1>3. RepliesOf(a, q) = IF reply THEN R \cup {n + 1} ELSE R
  BY ReplyAppended
<1> HIDE DEF n, a, R
<1>4. /\ DOMAIN a = (1 .. n) \cup {n + 1}
      /\ RepliesOf(a, q) = IF reply THEN R \cup {n + 1} ELSE R
      /\ a[n + 1] = m
      /\ \A i \in 1 .. n : a[i] = as[i]
  BY <1>2, <1>3 DEF Appended
<1> SUFFICES ASSUME RequestsOf(rest, q) = {},
                    NEW i \in DOMAIN a, a[i].q = q, a[i].kind = "current",
                    \A j \in RepliesOf(a, q) : j <= i
             PROVE  a[i].v >= b
  BY DEF FreshAnswers, a
<1>5. CASE i = n + 1
  BY <1>4, <1>5
<1>6. CASE i \in 1 .. n
  <2>1. ~reply
    <3> SUFFICES ASSUME reply PROVE FALSE
      OBVIOUS
    <3>1. n + 1 \in RepliesOf(a, q)
      BY <1>4
    <3>2. n + 1 <= i
      BY <3>1
    <3> QED BY <1>1, <1>6, <3>2
  <2>2. \A j \in R : j <= i
    BY <1>4, <2>1
  <2>3. FreshAnswers(rs, as, q, b) /\ RequestsOf(rs, q) = {}
    BY <2>1
  <2>4. as[i].q = q /\ as[i].kind = "current" /\ a[i] = as[i]
    BY <1>4, <1>6
  <2> QED BY <1>1, <1>6, <2>2, <2>3, <2>4 DEF FreshAnswers, R
<1> QED BY <1>4, <1>5, <1>6

\* Reading an answer keeps the later ones fresh, and a version that follows
\* every reply is fresh.
LEMMA FreshTaken ==
    ASSUME NEW as \in Seq(AnswerType), as # <<>>, NEW q, NEW b, NEW rs,
           FreshAnswers(rs, as, q, b)
    PROVE  /\ FreshAnswers(rs, Tail(as), q, b)
           /\ /\ RequestsOf(rs, q) = {} /\ RepliesOf(as, q) = {}
              /\ Head(as).q = q /\ Head(as).kind = "current"
              => Head(as).v >= b
<1> DEFINE t == Tail(as)
           R == RepliesOf(as, q)
<1>1. /\ RepliesOf(t, q) = Shift(R)
      /\ as[1] = Head(as) /\ 1 \in DOMAIN as
      /\ \A i \in DOMAIN t : /\ i \in Nat \ {0} /\ i + 1 \in DOMAIN as
                             /\ t[i] = as[i + 1]
  BY ReplyTaken
<1>2. \A j \in R : j \in Nat /\ j >= 1
  <2> DEFINE n == Len(as)
  <2>1. n \in Nat /\ R \in SUBSET (1 .. n)
    BY ReplyPositions
  <2> HIDE DEF n, R
  <2> QED BY <2>1
<1>3. /\ RequestsOf(rs, q) = {} /\ RepliesOf(as, q) = {}
      /\ Head(as).q = q /\ Head(as).kind = "current"
      => Head(as).v >= b
  BY <1>1 DEF FreshAnswers
<1> HIDE DEF t, R
<1>4. ASSUME RequestsOf(rs, q) = {},
             NEW i \in DOMAIN t, t[i].q = q, t[i].kind = "current",
             \A j \in RepliesOf(t, q) : j <= i
      PROVE  t[i].v >= b
  <2>1. ASSUME NEW j \in R PROVE j <= i + 1
    <3>1. CASE j = 1
      BY <1>1, <3>1
    <3>2. CASE j # 1
      <4>1. j - 1 \in Nat \ {0} /\ (j - 1) + 1 = j
        BY <1>2, <2>1, <3>2
      <4>2. j - 1 \in Shift(R)
        BY <2>1, <4>1 DEF Shift
      <4>3. j - 1 <= i
        BY <1>1, <1>4, <4>2
      <4> QED BY <1>1, <1>2, <2>1, <4>3
    <3> QED BY <3>1, <3>2
  <2>2. as[i + 1].q = q /\ as[i + 1].kind = "current" /\ t[i] = as[i + 1]
        /\ i + 1 \in DOMAIN as
    BY <1>1, <1>4
  <2> QED BY <1>4, <2>1, <2>2 DEF FreshAnswers, R
<1>5. FreshAnswers(rs, t, q, b)
  BY <1>4 DEF FreshAnswers
<1> QED BY <1>3, <1>5 DEF t

-----------------------------------------------------------------------------
(* One target: the messages about it *)

\* Both ends expect a watch or an unwatch.
LEMMA KindsOf ==
    ASSUME NEW sv, NEW q, NEW ls
    PROVE  Expects(sv) \in Kinds /\ Sends(q, ls) \in Kinds
BY DEF Expects, Sends, Kinds

\* What is left of QueryFits when nothing is outstanding.
LEMMA NothingOutstanding ==
    ASSUME NEW rs \in Seq(RequestType), NEW as \in Seq(AnswerType), NEW q,
           Cardinality(RequestsOf(rs, q)) + Cardinality(RepliesOf(as, q)) = 0
    PROVE  RequestsOf(rs, q) = {} /\ RepliesOf(as, q) = {}
<1> DEFINE x == Cardinality(RequestsOf(rs, q))
           y == Cardinality(RepliesOf(as, q))
<1>1. /\ x \in Nat /\ y \in Nat /\ x + y = 0
      /\ x = 0 <=> RequestsOf(rs, q) = {}
      /\ y = 0 <=> RepliesOf(as, q) = {}
  BY RequestCount, ReplyCount
<1> HIDE DEF x, y
<1>2. x = 0 /\ y = 0
  BY <1>1
<1> QED BY <1>1, <1>2

\* The client sends the request about q that is its turn.
LEMMA SendQuery ==
    ASSUME NEW rs \in Seq(RequestType), NEW as \in Seq(AnswerType), NEW q,
           NEW t \in TargetType, NEW u \in TargetType, NEW sv,
           NEW ls, NEW ms, NEW b, NEW c, NEW m \in RequestType,
           QueryFits(q, rs, as, t, sv, ls, b),
           m.q = q, m.kind = Sends(q, ls), Sends(q, ms) # Sends(q, ls),
           u.pending = t.pending + 1
    PROVE  QueryFits(q, Append(rs, m), as, u, sv, ms, c)
<1> DEFINE x == Cardinality(RequestsOf(rs, q))
           y == Cardinality(RepliesOf(as, q))
           z == Cardinality(RequestsOf(Append(rs, m), q))
<1>1. x \in Nat /\ y \in Nat
  BY RequestCount, ReplyCount
<1>2. z = x + 1
  BY RequestCountAppended
<1>3. t.pending = x + y
  BY DEF QueryFits
<1>4. Alternates(Append(rs, m), q, Expects(sv), Sends(q, ms))
  <2>1. Alternates(rs, q, Expects(sv), Sends(q, ls))
    BY DEF QueryFits
  <2> QED BY <2>1, KindsOf, AlternatesAppended
<1>5. RequestsOf(Append(rs, m), q) # {}
  <2>1. RequestsOf(Append(rs, m), q) = RequestsOf(rs, q) \cup {Len(rs) + 1}
    BY RequestAppended
  <2> QED BY <2>1
<1>6. FreshAnswers(Append(rs, m), as, q, c)
  BY <1>5 DEF FreshAnswers
<1> HIDE DEF x, y, z
<1>7. u.pending = z + y /\ u.pending # 0
  BY <1>1, <1>2, <1>3
<1> QED BY <1>4, <1>6, <1>7 DEF QueryFits, y, z

\* A request about another target is sent.
LEMMA SendOther ==
    ASSUME NEW rs \in Seq(RequestType), NEW as \in Seq(AnswerType), NEW q,
           NEW t, NEW sv, NEW ls, NEW ms, NEW b, NEW m \in RequestType,
           QueryFits(q, rs, as, t, sv, ls, b),
           m.q # q, q \in ms <=> q \in ls
    PROVE  QueryFits(q, Append(rs, m), as, t, sv, ms, b)
<1>1. RequestsOf(Append(rs, m), q) = RequestsOf(rs, q)
  BY RequestAppended
<1>2. Alternates(Append(rs, m), q, Expects(sv), Sends(q, ms))
  <2>1. Sends(q, ms) = Sends(q, ls)
    BY DEF Sends
  <2>2. Alternates(rs, q, Expects(sv), Sends(q, ls))
    BY DEF QueryFits
  <2> QED BY <2>1, <2>2, AlternatesOther
<1> QED BY <1>1, <1>2 DEF QueryFits, FreshAnswers

\* The request about q that the server handles next is the one it expects.
LEMMA HandleTurn ==
    ASSUME NEW rs \in Seq(RequestType), NEW as, NEW q,
           NEW t, NEW sv, NEW ls, NEW b,
           QueryFits(q, rs, as, t, sv, ls, b), rs # <<>>, Head(rs).q = q
    PROVE  Head(rs).kind = Expects(sv)
<1>1. Expects(sv) \in Kinds /\ Sends(q, ls) \in Kinds
  BY KindsOf
<1>2. PICK k \in Kinds : k # Expects(sv)
  BY DEF Kinds
<1>3. Alternates(rs, q, Expects(sv), Sends(q, ls))
  BY DEF QueryFits
<1> QED BY <1>1, <1>2, <1>3, AlternatesTaken

\* The server handles a request about q and replies.
LEMMA HandleQuery ==
    ASSUME NEW rs \in Seq(RequestType), NEW as \in Seq(AnswerType), NEW q,
           NEW t, NEW sv, NEW sw, NEW ls, NEW b, NEW m \in AnswerType,
           QueryFits(q, rs, as, t, sv, ls, b),
           rs # <<>>, Head(rs).q = q, Expects(sw) # Expects(sv),
           m.q = q, m.kind \in {"added", "removed"}
    PROVE  QueryFits(q, Tail(rs), Append(as, m), t, sw, ls, b)
<1> DEFINE x == Cardinality(RequestsOf(rs, q))
           y == Cardinality(RepliesOf(as, q))
           v == Cardinality(RequestsOf(Tail(rs), q))
           w == Cardinality(RepliesOf(Append(as, m), q))
<1>1. x \in Nat /\ y \in Nat
  BY RequestCount, ReplyCount
<1>2. v = x - 1
  BY RequestCountTaken
<1>3. w = y + 1
  BY ReplyCountAppended
<1>4. t.pending = x + y
  BY DEF QueryFits
<1>5. Alternates(Tail(rs), q, Expects(sw), Sends(q, ls))
  <2>1. Alternates(rs, q, Expects(sv), Sends(q, ls))
    BY DEF QueryFits
  <2> QED BY <2>1, KindsOf, AlternatesTaken
<1>6. FreshAnswers(Tail(rs), Append(as, m), q, b)
  BY FreshAppended
<1> HIDE DEF x, y, v, w
<1>7. t.pending = v + w
  BY <1>1, <1>2, <1>3, <1>4
<1> QED BY <1>5, <1>6, <1>7 DEF QueryFits, v, w

\* The server handles a request about another target, and may answer it.
LEMMA HandleOther ==
    ASSUME NEW rs \in Seq(RequestType), NEW as \in Seq(AnswerType), NEW q,
           NEW t, NEW sv, NEW ls, NEW b, NEW m \in AnswerType,
           QueryFits(q, rs, as, t, sv, ls, b),
           rs # <<>>, Head(rs).q # q, m.q # q
    PROVE  /\ QueryFits(q, Tail(rs), as, t, sv, ls, b)
           /\ QueryFits(q, Tail(rs), Append(as, m), t, sv, ls, b)
<1> DEFINE x == Cardinality(RequestsOf(rs, q))
           v == Cardinality(RequestsOf(Tail(rs), q))
           w == Cardinality(RepliesOf(Append(as, m), q))
<1>1. v = x
  BY RequestCountTaken
<1>2. w = Cardinality(RepliesOf(as, q))
  BY ReplyCountAppended
<1>3. Alternates(Tail(rs), q, Expects(sv), Sends(q, ls))
  <2>1. Alternates(rs, q, Expects(sv), Sends(q, ls))
    BY DEF QueryFits
  <2> QED BY <2>1, AlternatesOther
<1>4. RequestsOf(Tail(rs), q) = {} => RequestsOf(rs, q) = {}
  <2>1. Tail(rs) \in Seq(RequestType)
    BY HeadTailType
  <2> QED BY <1>1, <2>1, RequestCount
<1>5. q \in ls => FreshAnswers(Tail(rs), as, q, b)
  BY <1>4 DEF QueryFits, FreshAnswers
<1>6. q \in ls => FreshAnswers(Tail(rs), Append(as, m), q, b)
  <2> SUFFICES ASSUME q \in ls
               PROVE  FreshAnswers(Tail(rs), Append(as, m), q, b)
    OBVIOUS
  <2>1. FreshAnswers(rs, as, q, b)
    BY DEF QueryFits
  <2> QED BY <1>4, <2>1, FreshAppended
<1> HIDE DEF x, v, w
<1> QED BY <1>1, <1>2, <1>3, <1>5, <1>6 DEF QueryFits, x, v, w

\* The server sends an answer that is no reply to a request about q.
LEMMA AnswerQuery ==
    ASSUME NEW rs \in Seq(RequestType), NEW as \in Seq(AnswerType), NEW q,
           NEW t, NEW sv, NEW sw, NEW ls, NEW b, NEW m \in AnswerType,
           QueryFits(q, rs, as, t, sv, ls, b),
           Expects(sw) = Expects(sv),
           m.q # q \/ (m.kind = "current" /\ m.v >= b)
    PROVE  QueryFits(q, rs, Append(as, m), t, sw, ls, b)
<1>1. Cardinality(RepliesOf(Append(as, m), q)) = Cardinality(RepliesOf(as, q))
  BY ReplyCountAppended
<1>2. q \in ls => FreshAnswers(rs, Append(as, m), q, b)
  <2> SUFFICES ASSUME q \in ls PROVE FreshAnswers(rs, Append(as, m), q, b)
    OBVIOUS
  <2>1. FreshAnswers(rs, as, q, b)
    BY DEF QueryFits
  <2> QED BY <2>1, FreshAppended
<1> QED BY <1>1, <1>2 DEF QueryFits

\* The client reads an answer that is no reply to a request about q.
LEMMA ReadOther ==
    ASSUME NEW rs \in Seq(RequestType), NEW as \in Seq(AnswerType), NEW q,
           NEW t, NEW u, NEW sv, NEW ls, NEW ms, NEW b,
           QueryFits(q, rs, as, t, sv, ls, b), as # <<>>,
           Head(as).q # q \/ Head(as).kind = "current",
           q \in ms <=> q \in ls,
           u.pending = t.pending,
           q \in ls /\ u.pending = 0 /\ u.current /\ u.changed => u.v >= b
    PROVE  QueryFits(q, rs, Tail(as), u, sv, ms, b)
<1>1. Cardinality(RepliesOf(Tail(as), q)) = Cardinality(RepliesOf(as, q))
  BY ReplyCountTaken
<1>2. q \in ls => FreshAnswers(rs, Tail(as), q, b)
  BY FreshTaken DEF QueryFits
<1>3. Sends(q, ms) = Sends(q, ls)
  BY DEF Sends
<1> QED BY <1>1, <1>2, <1>3 DEF QueryFits

\* The client reads a reply to a request about q.
LEMMA ReadReply ==
    ASSUME NEW rs \in Seq(RequestType), NEW as \in Seq(AnswerType), NEW q,
           NEW t \in TargetType, NEW u \in TargetType, NEW sv, NEW ls, NEW b,
           QueryFits(q, rs, as, t, sv, ls, b), as # <<>>,
           Head(as).q = q, Head(as).kind \in {"added", "removed"},
           u.pending = t.pending - 1,
           u.pending = 0 => ~u.changed \/ ~u.current
    PROVE  QueryFits(q, rs, Tail(as), u, sv, ls, b)
<1> DEFINE x == Cardinality(RequestsOf(rs, q))
           y == Cardinality(RepliesOf(as, q))
           w == Cardinality(RepliesOf(Tail(as), q))
<1>1. x \in Nat /\ y \in Nat
  BY RequestCount, ReplyCount
<1>2. w = y - 1
  BY ReplyCountTaken
<1>3. t.pending = x + y
  BY DEF QueryFits
<1>4. q \in ls => FreshAnswers(rs, Tail(as), q, b)
  BY FreshTaken DEF QueryFits
<1> HIDE DEF x, y, w
<1>5. u.pending = x + w
  BY <1>1, <1>2, <1>3
<1> QED BY <1>4, <1>5 DEF QueryFits, x, w

\* The version read for q when nothing is outstanding is fresh.
LEMMA ReadCurrent ==
    ASSUME NEW rs \in Seq(RequestType), NEW as \in Seq(AnswerType), NEW q,
           NEW t, NEW sv, NEW ls, NEW b,
           QueryFits(q, rs, as, t, sv, ls, b), as # <<>>, q \in ls,
           Head(as).q = q, Head(as).kind = "current", t.pending = 0
    PROVE  Head(as).v >= b
<1>1. RequestsOf(rs, q) = {} /\ RepliesOf(as, q) = {}
  BY NothingOutstanding DEF QueryFits
<1>2. FreshAnswers(rs, as, q, b)
  BY DEF QueryFits
<1> QED BY <1>1, <1>2, FreshTaken

\* The requests of a new call.
LEMMA OpenQuery ==
    ASSUME NEW S \in SUBSET Queries, IsFiniteSet(S), NEW q \in Queries,
           NEW t \in TargetType, NEW b, ~t.current,
           t.pending = IF q \in S THEN 1 ELSE 0
    PROVE  LET qs == SetToSeq(S)
           IN  QueryFits(q, [i \in DOMAIN qs |-> Message("watch", qs[i], 0)],
                         <<>>, t, "none", S, b)
<1> DEFINE qs == SetToSeq(S)
           rs == [i \in DOMAIN qs |-> Message("watch", qs[i], 0)]
           I == RequestsOf(rs, q)
<1>1. /\ qs \in Seq(S)
      /\ \A i, j \in DOMAIN qs : qs[i] = qs[j] => i = j
      /\ \A x \in S : \E i \in DOMAIN qs : qs[i] = x
  BY SetToSeqFits DEF IsInjective
<1>2. \A i \in DOMAIN qs : qs[i] \in S
  BY <1>1
<1> HIDE DEF qs
<1>3. /\ DOMAIN rs = DOMAIN qs
      /\ \A i \in DOMAIN rs : rs[i].q = qs[i] /\ rs[i].kind = "watch"
  BY DEF Message
<1>4. I = {i \in DOMAIN qs : qs[i] = q} /\ \A i \in I : rs[i].kind = "watch"
  BY <1>3 DEF RequestsOf
<1> HIDE DEF I, rs
<1>5. IF q \in S THEN \E x : I = {x} ELSE I = {}
  <2>1. CASE q \in S
    <3>1. PICK x \in DOMAIN qs : qs[x] = q
      BY <1>1, <2>1
    <3>2. I = {x}
      BY <1>1, <1>4, <3>1
    <3> QED BY <2>1, <3>2
  <2>2. CASE q \notin S
    BY <1>2, <1>4, <2>2
  <2> QED BY <2>1, <2>2
<1>6. Cardinality(I) = t.pending
  BY <1>5, FS_Singleton, FS_EmptySet
<1>7. RepliesOf(<<>>, q) = {}
  BY DEF RepliesOf
<1>8. Cardinality(RepliesOf(<<>>, q)) = 0
  BY <1>7, FS_EmptySet
<1>9. t.pending = Cardinality(I) + Cardinality(RepliesOf(<<>>, q))
  BY <1>6, <1>8 DEF TargetType
<1>10. Alternates(rs, q, Expects("none"), Sends(q, S))
  <2>1. \A i, j \in I : i = j
    BY <1>5
  <2>2. I \subseteq Nat
    BY <1>1, <1>4
  <2>3. \A i, j \in I : ~(i < j)
    BY <2>1, <2>2
  <2> QED BY <1>4, <1>5, <2>3 DEF Alternates, Expects, Sends, I
<1>11. FreshAnswers(rs, <<>>, q, b)
  BY DEF FreshAnswers
<1>12. QueryFits(q, rs, <<>>, t, "none", S, b)
  BY <1>9, <1>10, <1>11 DEF QueryFits, I
<1> QED BY <1>12 DEF rs, qs

-----------------------------------------------------------------------------
(* The actions *)

\* What leaves the call and the targets alone keeps Fits.
LEMMA QuietFits ==
    ASSUME NEW q, Fits(q),
           UNCHANGED <<requests, answers, target, served, listened, since>>
    PROVE  Fits(q)'
BY DEF Fits

\* A client that sends the request whose turn it is keeps Fits for every
\* target.
LEMMA SendStep ==
    ASSUME LocalInv, NEW p \in Queries, NEW kind \in {"watch", "unwatch"},
           Send(kind, p), kind = Sends(p, listened),
           UNCHANGED <<answers, served>>,
           \A q \in Queries \ {p} :
              (q \in listened' <=> q \in listened) /\ since'[q] = since[q],
           p \in listened' <=> p \notin listened,
           NEW q \in Queries, Fits(q)
    PROVE  Fits(q)'
<1> DEFINE m == Message(kind, p, 0)
<1>1. m \in RequestType /\ m.q = p /\ m.kind = kind
  BY DEF Message, RequestType
<1>2. requests' = Append(requests, m) /\ target' = Pending(target, p)
  BY DEF Send
<1> HIDE DEF m
<1>3. /\ requests \in Seq(RequestType) /\ answers \in Seq(AnswerType)
      /\ target \in [Queries -> TargetType]
  BY DEF LocalInv, CallInv
<1>4. /\ target' \in [Queries -> TargetType]
      /\ target'[p].pending = target[p].pending + 1
      /\ \A r \in Queries \ {p} : target'[r] = target[r]
  BY <1>2, <1>3, PendingFits
<1>5. QueryFits(q, requests, answers, target[q], served[q], listened, since[q])
  BY DEF Fits
<1>6. CASE q = p
  <2>1. Sends(q, listened') # Sends(q, listened)
    BY <1>6 DEF Sends
  <2>2. target[q] \in TargetType /\ target'[q] \in TargetType
    BY <1>3, <1>4
  <2>3. QueryFits(q, Append(requests, m), answers, target'[q], served[q],
                  listened', since'[q])
    BY <1>1, <1>3, <1>4, <1>5, <1>6, <2>1, <2>2, SendQuery
  <2> QED BY <1>2, <2>3 DEF Fits
<1>7. CASE q # p
  <2>1. QueryFits(q, Append(requests, m), answers, target[q], served[q],
                  listened', since[q])
    BY <1>1, <1>3, <1>5, <1>7, SendOther
  <2> QED BY <1>2, <1>4, <1>7, <2>1 DEF Fits
<1> QED BY <1>6, <1>7

\* A get() that is called keeps Fits.
LEMMA AddFits ==
    ASSUME LocalInv, QueriesFit, IsOpen(stream)',
           NEW g \in Gets, NEW p \in Queries, AddQueryListener(g, p),
           NEW q \in Queries \ Restricted
    PROVE  Fits(q)'
<1>1. UNCHANGED <<answers, served>>
  BY DEF AddQueryListener
<1>2. CASE p \in listened
  <2>1. UNCHANGED <<listened, since, stream, requests, target>>
    BY <1>2 DEF AddQueryListener
  <2>2. Fits(q)
    BY <2>1 DEF QueriesFit
  <2> QED BY <1>1, <2>1, <2>2, QuietFits
<1>3. CASE p \notin listened
  <2>1. Listen(p)
    BY <1>3 DEF AddQueryListener
  <2>2. stream \in StreamType
    BY DEF LocalInv, StreamInv
  <2>3. IsOpen(stream)
    BY <2>1, <2>2, StreamFits DEF Listen, IsOpen
  <2>4. Send("watch", p) /\ Sends(p, listened) = "watch"
    BY <1>3, <2>1, <2>3 DEF Listen, Sends
  <2>5. /\ listened' = listened \cup {p}
        /\ since' = [since EXCEPT ![p] = docs[p]]
    BY <2>1 DEF Listen
  <2>6. \A r \in Queries \ {p} :
           (r \in listened' <=> r \in listened) /\ since'[r] = since[r]
    BY <2>5 DEF LocalInv, VersionsInv
  <2>7. Fits(q)
    BY <2>3 DEF QueriesFit
  <2> QED BY <1>1, <1>3, <2>4, <2>5, <2>6, <2>7, SendStep
<1> QED BY <1>2, <1>3

\* A get() that returns keeps Fits.
LEMMA RemoveFits ==
    ASSUME LocalInv, QueriesFit, IsOpen(stream)',
           NEW g \in Gets, RemoveQueryListener(g),
           NEW q \in Queries \ Restricted
    PROVE  Fits(q)'
<1> DEFINE p == gets[g].q
           last == \A h \in Gets \ {g} : gets[h].q # p
<1>1. UNCHANGED <<answers, served, since>> /\ gets[g].state = "raised"
  BY DEF RemoveQueryListener
<1>2. CASE ~last
  <2>1. UNCHANGED <<listened, stream, requests, target>>
    BY <1>2 DEF RemoveQueryListener
  <2>2. Fits(q)
    BY <2>1 DEF QueriesFit
  <2> QED BY <1>1, <2>1, <2>2, QuietFits
<1>3. CASE last
  <2>1. StopListening(p) /\ listened' = listened \ {p}
    BY <1>3 DEF RemoveQueryListener, RemoveAndCleanupTarget
  <2>2. IsOpen(stream)
    BY <2>1 DEF StopListening
  <2>3. Send("unwatch", p)
    BY <2>1, <2>2 DEF StopListening
  <2>4. p \in Queries /\ p \in listened
    BY <1>1, Assumptions DEF LocalInv, ListenersInv, GetsFit, GetType
  <2>5. Sends(p, listened) = "unwatch"
    BY <2>4 DEF Sends
  <2>6. Fits(q)
    BY <2>2 DEF QueriesFit
  <2> HIDE DEF p
  <2>7. \A r \in Queries \ {p} :
           (r \in listened' <=> r \in listened) /\ since'[r] = since[r]
    BY <1>1, <2>1
  <2> QED BY <1>1, <2>1, <2>3, <2>4, <2>5, <2>6, <2>7, SendStep
<1> QED BY <1>2, <1>3

\* A new call starts with one watch for each target listened to.
LEMMA OpenFits ==
    ASSUME LocalInv, OnWatchStreamOpen, NEW q \in Queries \ Restricted
    PROVE  Fits(q)'
<1> DEFINE qs == SetToSeq(listened)
           rs == [i \in DOMAIN qs |-> Message("watch", qs[i], 0)]
<1>1. /\ requests' = rs
      /\ target' = [p \in Queries |->
             IF p \in listened THEN [NewTarget EXCEPT !.pending = 1]
             ELSE NewTarget]
      /\ UNCHANGED <<listened, answers, served, since>>
      /\ stream.state = "Starting"
  BY DEF OnWatchStreamOpen
<1>2. answers = <<>> /\ served[q] = "none"
  BY <1>1 DEF LocalInv, CallInv, NoCallUnlessOpen, NotServed, IsOpen
<1>3. listened \in SUBSET Queries /\ IsFiniteSet(listened)
  BY ListenedIsFinite DEF LocalInv, ListenersInv
<1>4. /\ target'[q] \in TargetType
      /\ ~target'[q].current
      /\ target'[q].pending = IF q \in listened THEN 1 ELSE 0
  <2>1. NewTarget \in TargetType
    BY TargetFits
  <2>2. target'[q] = IF q \in listened THEN [NewTarget EXCEPT !.pending = 1]
                     ELSE NewTarget
    BY <1>1
  <2>3. ~NewTarget.current /\ NewTarget.pending = 0
    BY DEF NewTarget
  <2> QED BY <2>1, <2>2, <2>3 DEF TargetType
<1>5. QueryFits(q, rs, <<>>, target'[q], "none", listened, since[q])
  BY <1>3, <1>4, OpenQuery
<1> HIDE DEF rs
<1> QED BY <1>1, <1>2, <1>5 DEF Fits

\* The backend keeps Fits, whatever it handles or sends.
LEMMA ServerFits ==
    ASSUME LocalInv, QueriesFit, RefusedFits, Server,
           NEW q \in Queries \ Restricted
    PROVE  Fits(q)'
<1> DEFINE p == Head(requests).q
<1>1. UNCHANGED <<clientVars, since>>
  BY ServerCall
<1>2. IsOpen(stream)
  <2>1. requests # <<>> \/ \E r \in Queries : served[r] # "none"
    BY DEF Server, ServerAdds, ServerRejects, ServerRemoves, ServerIsCurrent,
           ServerSnapshot, Serve
  <2> QED BY <2>1 DEF LocalInv, CallInv, NoCallUnlessOpen, NotServed
<1>3. QueryFits(q, requests, answers, target[q], served[q], listened, since[q])
  BY <1>2 DEF QueriesFit, Fits
<1>4. /\ requests \in Seq(RequestType) /\ answers \in Seq(AnswerType)
      /\ served \in [Queries -> {"none", "added", "current", "settled"}]
  BY DEF LocalInv, CallInv
<1>5. requests # <<>> => Head(requests) \in RequestType /\ p \in Queries
  <2>1. requests # <<>> => Head(requests) \in RequestType
    BY <1>4, HeadTailType
  <2> QED BY <2>1 DEF RequestType
<1>6. UNCHANGED <<listened, target>>
  BY <1>1 DEF clientVars
<1>7. ASSUME QueryFits(q, requests', answers', target[q], served'[q],
                       listened, since[q])
      PROVE  Fits(q)'
  BY <1>1, <1>6, <1>7 DEF Fits
<1>8. ASSUME NEW kind \in {"added", "removed", "rejected"}, requests # <<>>
      PROVE  /\ Message(kind, p, 0) \in AnswerType
             /\ Message(kind, p, 0).q = p /\ Message(kind, p, 0).kind = kind
  BY <1>5, <1>8 DEF Message, AnswerType
<1>9. CASE ServerAdds
  <2> DEFINE m == Message("added", p, 0)
  <2>1. /\ requests # <<>> /\ requests' = Tail(requests)
        /\ Head(requests).kind = "watch"
        /\ answers' = Append(answers, m)
        /\ served' = [served EXCEPT ![p] = "added"]
    BY <1>9 DEF ServerAdds, Serve
  <2>2. m \in AnswerType /\ m.q = p /\ m.kind = "added"
    BY <1>8, <2>1
  <2> HIDE DEF m
  <2>3. CASE p = q
    <3>1. Head(requests).kind = Expects(served[q])
      <4>1. requests # <<>> /\ Head(requests).q = q
        BY <2>1, <2>3
      <4>2. requests \in Seq(RequestType)
        BY <1>4
      <4> QED BY <1>3, <4>1, <4>2, HandleTurn
    <3>2. Expects(served'[q]) # Expects(served[q])
      BY <1>4, <2>1, <2>3, <3>1 DEF Expects
    <3>3. QueryFits(q, Tail(requests), Append(answers, m), target[q],
                    served'[q], listened, since[q])
      BY <1>3, <1>4, <2>1, <2>2, <2>3, <3>2, HandleQuery
    <3> QED BY <1>7, <2>1, <3>3
  <2>4. CASE p # q
    <3>1. served'[q] = served[q]
      BY <1>4, <2>1, <2>4
    <3>2. QueryFits(q, Tail(requests), Append(answers, m), target[q],
                    served[q], listened, since[q])
      BY <1>3, <1>4, <2>1, <2>2, <2>4, HandleOther
    <3> QED BY <1>7, <2>1, <3>1, <3>2
  <2> QED BY <2>3, <2>4
<1>10. CASE ServerRejects
  <2> DEFINE m == Message("rejected", p, 0)
  <2>1. /\ requests # <<>> /\ requests' = Tail(requests)
        /\ p \in Restricted
        /\ answers' = Append(answers, m)
        /\ served' = served
    BY <1>10 DEF ServerRejects, Serve
  <2>2. m \in AnswerType /\ m.q = p
    BY <1>8, <2>1
  <2> HIDE DEF m
  <2>3. QueryFits(q, Tail(requests), Append(answers, m), target[q],
                  served[q], listened, since[q])
    BY <1>3, <1>4, <2>1, <2>2, HandleOther
  <2> QED BY <1>7, <2>1, <2>3
<1>11. CASE ServerRemoves
  <2> DEFINE m == Message("removed", p, 0)
  <2>1. /\ requests # <<>> /\ requests' = Tail(requests)
        /\ Head(requests).kind = "unwatch"
        /\ answers' = IF served[p] = "none" THEN answers
                      ELSE Append(answers, m)
        /\ served' = [served EXCEPT ![p] = "none"]
    BY <1>11 DEF ServerRemoves, Serve
  <2>2. m \in AnswerType /\ m.q = p /\ m.kind = "removed"
    BY <1>8, <2>1
  <2> HIDE DEF m
  <2>3. CASE p = q
    <3>1. Head(requests).kind = Expects(served[q])
      <4>1. requests # <<>> /\ Head(requests).q = q
        BY <2>1, <2>3
      <4>2. requests \in Seq(RequestType)
        BY <1>4
      <4> QED BY <1>3, <4>1, <4>2, HandleTurn
    <3>2. served[q] # "none" /\ Expects(served'[q]) # Expects(served[q])
      BY <1>4, <2>1, <2>3, <3>1 DEF Expects
    <3>3. QueryFits(q, Tail(requests), Append(answers, m), target[q],
                    served'[q], listened, since[q])
      BY <1>3, <1>4, <2>1, <2>2, <2>3, <3>2, HandleQuery
    <3> QED BY <1>7, <2>1, <2>3, <3>2, <3>3
  <2>4. CASE p # q
    <3>1. served'[q] = served[q]
      BY <1>4, <2>1, <2>4
    <3>2. /\ QueryFits(q, Tail(requests), Append(answers, m), target[q],
                       served[q], listened, since[q])
          /\ QueryFits(q, Tail(requests), answers, target[q],
                       served[q], listened, since[q])
      BY <1>3, <1>4, <2>1, <2>2, <2>4, HandleOther
    <3> QED BY <1>7, <2>1, <3>1, <3>2
  <2> QED BY <2>3, <2>4
<1>12. ASSUME NEW r \in Queries, ServerIsCurrent(r) PROVE Fits(q)'
  <2> DEFINE m == Message("current", r, docs[r])
  <2>1. /\ requests' = requests /\ answers' = Append(answers, m)
        /\ served[r] = "added" /\ served' = [served EXCEPT ![r] = "current"]
    BY <1>12 DEF ServerIsCurrent
  <2>2. m \in AnswerType /\ m.q = r /\ m.kind = "current" /\ m.v = docs[r]
    BY DEF Message, AnswerType, LocalInv, VersionsInv
  <2> HIDE DEF m
  <2>3. Expects(served'[q]) = Expects(served[q])
    BY <1>4, <2>1 DEF Expects
  <2>4. r = q => m.v >= since[q]
    <3>1. since[q] \in Int /\ docs[q] \in Int /\ since[q] <= docs[q]
      BY DEF LocalInv, VersionsInv, Versions
    <3> QED BY <2>2, <3>1
  <2>5. QueryFits(q, requests, Append(answers, m), target[q],
                  served'[q], listened, since[q])
    BY <1>3, <1>4, <2>2, <2>3, <2>4, AnswerQuery
  <2> QED BY <1>7, <2>1, <2>5
<1>13. CASE ServerSnapshot
  <2> DEFINE m == Message("snapshot", NoQuery, 0)
  <2>1. /\ requests' = requests /\ answers' = Append(answers, m)
        /\ served' = [r \in Queries |->
               IF served[r] = "current" THEN "settled" ELSE served[r]]
    BY <1>13 DEF ServerSnapshot
  <2>2. m \in AnswerType /\ m.q = NoQuery
    BY DEF Message, AnswerType
  <2> HIDE DEF m
  <2>3. Expects(served'[q]) = Expects(served[q])
    BY <1>4, <2>1 DEF Expects
  <2>4. QueryFits(q, requests, Append(answers, m), target[q],
                  served'[q], listened, since[q])
    BY <1>3, <1>4, <2>2, <2>3, AnswerQuery, Assumptions
  <2> QED BY <1>7, <2>1, <2>4
<1> QED BY <1>9, <1>10, <1>11, <1>12, <1>13 DEF Server

\* Every change that the client reads keeps Fits.
LEMMA ChangeFits ==
    ASSUME LocalInv, QueriesFit, RefusedFits, OnWatchStreamChange,
           NEW q \in Queries \ Restricted
    PROVE  Fits(q)'
<1> DEFINE a == Head(answers)
           p == a.q
<1>1. /\ answers # <<>> /\ answers' = Tail(answers)
      /\ UNCHANGED <<stream, requests, served, since>>
  BY DEF OnWatchStreamChange, OnTargetAdded, OnTargetRemoved,
         OnTargetCurrent, OnSnapshot, OnTargetRejected, Reads
<1>2. IsOpen(stream)
  BY <1>1 DEF LocalInv, CallInv, NoCallUnlessOpen
<1>3. QueryFits(q, requests, answers, target[q], served[q], listened, since[q])
  BY <1>2 DEF QueriesFit, Fits
<1>4. /\ requests \in Seq(RequestType) /\ answers \in Seq(AnswerType)
      /\ target \in [Queries -> TargetType] /\ target[q] \in TargetType
  BY DEF LocalInv, CallInv
<1>5. a \in AnswerType /\ (a.kind # "snapshot" => p \in Queries)
  BY <1>1, HeadFits
<1>6. p \in Restricted <=> a.kind = "rejected"
  <2>1. 1 \in DOMAIN answers /\ answers[1] = a
    BY <1>1, <1>4, ReplyTaken
  <2> QED BY <2>1 DEF RefusedFits
<1> HIDE DEF a
<1>7. ASSUME QueryFits(q, requests, Tail(answers), target'[q], served[q],
                       listened', since[q])
      PROVE  Fits(q)'
  BY <1>1, <1>7 DEF Fits
<1>8. ASSUME p # q \/ a.kind = "current", target'[q].pending = target[q].pending,
             q \in listened' <=> q \in listened,
             /\ q \in listened /\ target'[q].pending = 0
             /\ target'[q].current /\ target'[q].changed
             => target'[q].v >= since[q]
      PROVE  Fits(q)'
  <2>1. QueryFits(q, requests, Tail(answers), target'[q], served[q],
                  listened', since[q])
    BY <1>1, <1>3, <1>4, <1>8, ReadOther DEF a
  <2> QED BY <1>7, <2>1
<1>9. /\ q \in listened /\ target[q].pending = 0
      /\ target[q].current /\ target[q].changed
      => target[q].v >= since[q]
  BY <1>3 DEF QueryFits
<1>10. ASSUME p # q, target'[q] = target[q], q \in listened' <=> q \in listened
       PROVE  Fits(q)'
  BY <1>8, <1>9, <1>10
<1>11. CASE OnTargetAdded
  <2> DEFINE t == target[p]
             b == t.changed /\ t.pending # 1
             r == [t EXCEPT !.pending = t.pending - 1, !.changed = b]
  <2>1. /\ a.kind = "added" /\ listened' = listened
        /\ target' = [target EXCEPT ![p] = r]
    BY <1>11 DEF OnTargetAdded, Reads, a
  <2>2. CASE p # q
    BY <1>4, <1>10, <2>1, <2>2
  <2>3. CASE p = q
    <3>1. t \in TargetType
      BY <1>4, <2>3
    <3>2. t.changed \in BOOLEAN /\ t.pending - 1 \in Int /\ t.pending \in Int
      BY <3>1 DEF TargetType
    <3>3. b \in BOOLEAN /\ (b => t.pending # 1)
      <4>1. CASE t.pending = 1
        BY <4>1
      <4>2. CASE t.pending # 1
        BY <3>2, <4>2
      <4> HIDE DEF b
      <4> QED BY <4>1, <4>2
    <3> HIDE DEF t, b
    <3>4. r \in TargetType /\ r.pending = t.pending - 1 /\ r.changed = b
      <4>1. r \in TargetType
        <5>1. b \in BOOLEAN
          BY <3>3
        <5> QED BY <3>1, <3>2, <5>1, AddedFits
      <4>2. r.pending = t.pending - 1
        BY <3>1 DEF TargetType
      <4>3. r.changed = b
        BY <3>1 DEF TargetType
      <4> QED BY <4>1, <4>2, <4>3
    <3> HIDE DEF r
    <3>5. r.pending = 0 => ~r.changed \/ ~r.current
      BY <3>2, <3>3, <3>4
    <3>6. target'[q] = r /\ t = target[q]
      BY <1>4, <2>1, <2>3 DEF t
    <3>7. QueryFits(q, requests, Tail(answers), r, served[q], listened,
                    since[q])
      BY <1>1, <1>3, <1>4, <2>1, <2>3, <3>4, <3>5, <3>6, ReadReply DEF a
    <3> QED BY <1>7, <2>1, <3>6, <3>7
  <2> QED BY <2>2, <2>3
<1>12. CASE OnTargetRemoved
  <2> DEFINE t == target[p]
             r == IF t.pending = 1 THEN NewTarget
                  ELSE [t EXCEPT !.pending = t.pending - 1]
  <2>1. /\ a.kind = "removed" /\ listened' = listened
        /\ target' = [target EXCEPT ![p] = r]
    BY <1>4, <1>5, <1>12 DEF OnTargetRemoved, Reads, a
  <2>2. CASE p # q
    <3> HIDE DEF r
    <3> QED BY <1>4, <1>10, <2>1, <2>2
  <2>3. CASE p = q
    <3>1. t \in TargetType
      BY <1>4, <2>3
    <3> HIDE DEF t
    <3>2. /\ r \in TargetType
          /\ r.pending = t.pending - 1
          /\ r.pending = 0 => ~r.current
      <4>1. CASE t.pending = 1
        BY <4>1, TargetFits DEF NewTarget
      <4>2. CASE t.pending # 1
        BY <3>1, <4>2 DEF TargetType
      <4> QED BY <4>1, <4>2
    <3> HIDE DEF r
    <3>3. target'[q] = r /\ t = target[q]
      BY <1>4, <2>1, <2>3 DEF t
    <3>4. QueryFits(q, requests, Tail(answers), r, served[q], listened,
                    since[q])
      BY <1>1, <1>3, <1>4, <2>1, <2>3, <3>2, <3>3, ReadReply DEF a
    <3> QED BY <1>7, <2>1, <3>3, <3>4
  <2> QED BY <2>2, <2>3
<1>13. CASE OnTargetCurrent
  <2> DEFINE t == target[p]
             r == [t EXCEPT !.current = TRUE, !.changed = TRUE, !.v = a.v]
  <2>1. /\ a.kind = "current" /\ listened' = listened
        /\ target' = IF IsActiveTarget(target, p)
                     THEN [target EXCEPT ![p] = r] ELSE target
    BY <1>13 DEF OnTargetCurrent, Reads, a
  <2>2. CASE p # q
    <3> HIDE DEF r
    <3> QED BY <1>4, <1>10, <2>1, <2>2
  <2>3. CASE p = q /\ ~IsActiveTarget(target, p)
    BY <1>8, <1>9, <2>1, <2>3
  <2>4. CASE p = q /\ IsActiveTarget(target, p)
    <3>1. t.pending = 0 /\ p \in listened
      BY <2>4 DEF IsActiveTarget
    <3>2. a.v >= since[q]
      BY <1>1, <1>3, <1>4, <2>1, <2>4, <3>1, ReadCurrent DEF a
    <3>3. t \in TargetType
      BY <1>4, <2>4
    <3> HIDE DEF t
    <3>4. r.pending = t.pending /\ r.v = a.v
      BY <3>3 DEF TargetType
    <3> HIDE DEF r
    <3>5. target'[q] = r /\ t = target[q]
      BY <1>4, <2>1, <2>4 DEF t
    <3> QED BY <1>8, <2>1, <3>2, <3>4, <3>5
  <2> QED BY <2>2, <2>3, <2>4
<1>14. CASE OnSnapshot
  <2> DEFINE qs == {r \in Queries : IsActiveTarget(target, r)
                                      /\ target[r].changed}
  <2>1. /\ a.kind = "snapshot" /\ listened' = listened
        /\ target' = [r \in Queries |->
               IF r \in qs THEN [target[r] EXCEPT !.changed = FALSE]
               ELSE target[r]]
    BY <1>14 DEF OnSnapshot, Reads, a
  <2> HIDE DEF qs
  <2>2. p # q
    BY <1>5, <2>1, Assumptions DEF AnswerType
  <2>3. /\ target'[q].pending = target[q].pending
        /\ target'[q].changed => target'[q] = target[q]
    BY <1>4, <2>1 DEF TargetType
  <2> QED BY <1>8, <1>9, <2>1, <2>2, <2>3
<1>15. CASE OnTargetRejected
  <2>1. /\ a.kind = "rejected"
        /\ \/ listened' = listened /\ target' = target
           \/ /\ listened' = listened \ {p}
              /\ target' = [target EXCEPT ![p] = NewTarget]
    BY <1>15 DEF OnTargetRejected, Reads, RemoveAndCleanupTarget, a
  <2>2. p # q
    BY <1>6, <2>1
  <2>3. target'[q] = target[q] /\ (q \in listened' <=> q \in listened)
    BY <1>4, <2>1, <2>2
  <2> QED BY <1>10, <2>2, <2>3
<1> QED BY <1>11, <1>12, <1>13, <1>14, <1>15 DEF OnWatchStreamChange

\* Every step keeps QueriesFit.
LEMMA NextQueries ==
    ASSUME LocalInv, QueriesFit, RefusedFits, [Next]_vars
    PROVE  QueriesFit'
<1> SUFFICES ASSUME IsOpen(stream)', NEW q \in Queries \ Restricted
             PROVE  Fits(q)'
  BY DEF QueriesFit
<1>1. ASSUME NEW g \in Gets, NEW p \in Queries, AddQueryListener(g, p)
      PROVE  Fits(q)'
  BY <1>1, AddFits
<1>2. ASSUME NEW g \in Gets, RemoveQueryListener(g) PROVE Fits(q)'
  BY <1>2, RemoveFits
<1>3. CASE OnWatchStreamOpen
  BY <1>3, OpenFits
<1>4. CASE OnStreamFinish \/ BackoffElapsed \/ IdleTimeout \/ RestartNetwork
  <2>1. stream \in StreamType
    BY DEF LocalInv, StreamInv
  <2>2. /\ Close(stream, FALSE) \in StreamType
        /\ Close(stream, TRUE) \in StreamType
        /\ InhibitBackoff(stream) \in StreamType
        /\ ~IsOpen(Close(stream, FALSE)) /\ ~IsOpen(Close(stream, TRUE))
    BY <2>1, StreamFits
  <2>3. /\ InhibitBackoff(Close(stream, TRUE)) \in StreamType
        /\ ~IsOpen(InhibitBackoff(Close(stream, TRUE)))
    BY <2>2, StreamFits
  <2>4. /\ ~IsOpen(Start(Close(stream, FALSE)))
        /\ ~IsOpen(Start(InhibitBackoff(stream)))
        /\ ~IsOpen(Start(InhibitBackoff(Close(stream, TRUE))))
    BY <2>2, <2>3, StreamFits
  <2> QED BY <1>4, <2>2, <2>3, <2>4
          DEF OnStreamFinish, CloseWithError, BackoffElapsed, IdleTimeout,
              RestartNetwork
<1>5. CASE OnWatchStreamChange
  BY <1>5, ChangeFits
<1>6. CASE Server
  BY <1>6, ServerFits
<1>7. CASE \/ OnlineStateTimeout
           \/ \E p \in Queries : RemoteWrite(p)
           \/ UNCHANGED vars
  <2>1. UNCHANGED <<requests, answers, target, served, listened, since, stream>>
    BY <1>7 DEF OnlineStateTimeout, RemoteWrite, callVars, clientVars, vars
  <2>2. Fits(q)
    BY <2>1 DEF QueriesFit
  <2> QED BY <2>1, <2>2, QuietFits
<1> QED BY <1>1, <1>2, <1>3, <1>4, <1>5, <1>6, <1>7 DEF Next

\* The messages of a call that say whether a target is refused.
Refuses(as) ==
    \A i \in DOMAIN as : as[i].q \in Restricted <=> as[i].kind = "rejected"

\* One more answer that says it keeps Refuses.
LEMMA RefusesAppended ==
    ASSUME NEW as \in Seq(AnswerType), NEW m \in AnswerType, Refuses(as),
           m.q \in Restricted <=> m.kind = "rejected"
    PROVE  Refuses(Append(as, m))
<1> DEFINE n == Len(as)
           a == Append(as, m)
<1>1. n \in Nat /\ DOMAIN as = 1 .. n
  BY ReplyPositions
<1>2. Appended(a, as, m, n)
  BY AnswerAppended
<1> HIDE DEF n, a
<1>3. Refuses(a)
  BY <1>1, <1>2 DEF Appended, Refuses
<1> QED BY <1>3 DEF a

\* Reading an answer keeps Refuses.
LEMMA RefusesTaken ==
    ASSUME NEW as \in Seq(AnswerType), as # <<>>, Refuses(as)
    PROVE  /\ Refuses(Tail(as))
           /\ Head(as).q \in Restricted <=> Head(as).kind = "rejected"
<1>1. /\ as[1] = Head(as) /\ 1 \in DOMAIN as
      /\ \A i \in DOMAIN Tail(as) :
            i + 1 \in DOMAIN as /\ Tail(as)[i] = as[i + 1]
  BY ReplyTaken
<1> QED BY <1>1 DEF Refuses

\* Every step keeps RefusedFits.
LEMMA NextRefused ==
    ASSUME LocalInv, RefusedFits, [Next]_vars
    PROVE  RefusedFits'
<1>1. /\ Refuses(answers) /\ answers \in Seq(AnswerType)
      /\ target \in [Queries -> TargetType]
      /\ served \in [Queries -> {"none", "added", "current", "settled"}]
      /\ \A q \in Restricted : served[q] = "none" /\ ~target[q].current
  BY DEF RefusedFits, Refuses, LocalInv, CallInv
<1>2. ASSUME UNCHANGED answers,
             \A q \in Restricted : served'[q] = "none" /\ ~target'[q].current
      PROVE  RefusedFits'
  BY <1>2 DEF RefusedFits
<1>3. ASSUME Refuses(answers'),
             \A q \in Restricted : served'[q] = "none" /\ ~target'[q].current
      PROVE  RefusedFits'
  BY <1>3 DEF RefusedFits, Refuses
<1>4. ASSUME NEW p \in Queries
      PROVE  \A q \in Restricted : ~Pending(target, p)[q].current
  <2> DEFINE t == Pending(target, p)
  <2>1. /\ t[p].current = target[p].current
        /\ \A q \in Queries \ {p} : t[q] = target[q]
    BY <1>1, <1>4, PendingFits
  <2> HIDE DEF t
  <2>2. ASSUME NEW q \in Restricted PROVE ~t[q].current
    <3>1. q \in Queries /\ ~target[q].current
      BY <1>1, <2>2, Assumptions
    <3>2. t[q].current = target[q].current
      BY <2>1, <3>1
    <3> QED BY <3>1, <3>2
  <2> QED BY <2>2 DEF t
<1>5. ASSUME NEW g \in Gets, NEW p \in Queries, AddQueryListener(g, p)
      PROVE  RefusedFits'
  <2>1. /\ UNCHANGED <<answers, served>>
        /\ target' = target \/ target' = Pending(target, p)
    BY <1>5 DEF AddQueryListener, Listen, Send
  <2> QED BY <1>1, <1>2, <1>4, <2>1
<1>6. ASSUME NEW g \in Gets, RemoveQueryListener(g) PROVE RefusedFits'
  <2>1. /\ UNCHANGED <<answers, served>> /\ gets[g].state = "raised"
        /\ target' = target \/ target' = Pending(target, gets[g].q)
    BY <1>6 DEF RemoveQueryListener, StopListening, Send
  <2>2. gets[g].q \in Queries
    BY <2>1 DEF LocalInv, ListenersInv, GetsFit, GetType
  <2> QED BY <1>1, <1>2, <1>4, <2>1, <2>2
<1>7. CASE OnWatchStreamOpen
  <2>1. /\ UNCHANGED <<answers, served>>
        /\ target' = [q \in Queries |->
               IF q \in listened THEN [NewTarget EXCEPT !.pending = 1]
               ELSE NewTarget]
    BY <1>7 DEF OnWatchStreamOpen
  <2>2. /\ ~NewTarget.current /\ ~[NewTarget EXCEPT !.pending = 1].current
    BY DEF NewTarget
  <2> QED BY <1>1, <1>2, <2>1, <2>2, Assumptions
<1>8. CASE OnStreamFinish \/ IdleTimeout \/ RestartNetwork
  <2>1. answers' = <<>> /\ served' = NotServed /\ target' = NoTargets
    BY <1>8 DEF OnStreamFinish, CloseWithError, IdleTimeout, RestartNetwork,
                NoCall
  <2>2. \A q \in Restricted : served'[q] = "none" /\ ~target'[q].current
    BY <2>1, Assumptions DEF NotServed, NoTargets, NewTarget
  <2>3. Refuses(answers')
    BY <2>1 DEF Refuses
  <2> QED BY <1>3, <2>2, <2>3
<1>9. CASE OnWatchStreamChange
  <2> DEFINE a == Head(answers)
             p == a.q
  <2>1. /\ answers # <<>> /\ answers' = Tail(answers) /\ served' = served
    BY <1>9 DEF OnWatchStreamChange, OnTargetAdded, OnTargetRemoved,
                OnTargetCurrent, OnSnapshot, OnTargetRejected, Reads
  <2>2. Refuses(answers') /\ (p \in Restricted <=> a.kind = "rejected")
    BY <1>1, <2>1, RefusesTaken
  <2> HIDE DEF a
  <2>3. ASSUME NEW q \in Restricted PROVE ~target'[q].current
    <3>1. q \in Queries /\ ~target[q].current
      BY <1>1, <2>3, Assumptions
    <3>2. CASE OnTargetAdded \/ OnTargetRemoved \/ OnTargetCurrent
      <4>1. p # q
        BY <2>2, <2>3, <3>2
           DEF OnTargetAdded, OnTargetRemoved, OnTargetCurrent, Reads, a
      <4>2. target'[q] = target[q]
        BY <1>1, <3>1, <3>2, <4>1
           DEF OnTargetAdded, OnTargetRemoved, OnTargetCurrent, a
      <4> QED BY <3>1, <4>2
    <3>3. CASE OnSnapshot
      <4>1. \/ target'[q] = target[q]
            \/ target'[q] = [target[q] EXCEPT !.changed = FALSE]
        BY <3>1, <3>3 DEF OnSnapshot
      <4>2. target[q] \in TargetType
        BY <1>1, <3>1
      <4>3. [target[q] EXCEPT !.changed = FALSE].current = target[q].current
        BY <4>2 DEF TargetType
      <4> QED BY <3>1, <4>1, <4>3
    <3>4. CASE OnTargetRejected
      <4>1. target' = target \/ target' = [target EXCEPT ![p] = NewTarget]
        BY <3>4 DEF OnTargetRejected, a
      <4>2. ~NewTarget.current
        BY DEF NewTarget
      <4> QED BY <1>1, <3>1, <4>1, <4>2
    <3> QED BY <1>9, <3>2, <3>3, <3>4 DEF OnWatchStreamChange
  <2> QED BY <1>1, <1>3, <2>1, <2>2, <2>3
<1>10. CASE Server
  <2> DEFINE p == Head(requests).q
  <2>1. target' = target
    BY <1>10, ServerCall DEF clientVars
  <2>2. requests # <<>> => p \in Queries
    <3>1. requests # <<>> => Head(requests) \in RequestType
      BY HeadTailType DEF LocalInv, CallInv
    <3> QED BY <3>1 DEF RequestType
  <2> DEFINE Sound(m) == /\ m \in AnswerType
                         /\ m.q \in Restricted <=> m.kind = "rejected"
  <2>3. answers' = answers \/ \E m : Sound(m) /\ answers' = Append(answers, m)
    <3>1. CASE ServerAdds
      <4>1. /\ answers' = Append(answers, Message("added", p, 0))
            /\ p \notin Restricted /\ p \in Queries
        BY <2>2, <3>1 DEF ServerAdds, Serve
      <4>2. Sound(Message("added", p, 0))
        BY <4>1 DEF Message, AnswerType
      <4> QED BY <4>1, <4>2
    <3>2. CASE ServerRejects
      <4>1. /\ answers' = Append(answers, Message("rejected", p, 0))
            /\ p \in Restricted /\ p \in Queries
        BY <2>2, <3>2 DEF ServerRejects, Serve
      <4>2. Sound(Message("rejected", p, 0))
        BY <4>1 DEF Message, AnswerType
      <4> QED BY <4>1, <4>2
    <3>3. CASE ServerRemoves
      <4>1. /\ answers' = IF served[p] = "none" THEN answers
                          ELSE Append(answers, Message("removed", p, 0))
            /\ p \in Queries
        BY <2>2, <3>3 DEF ServerRemoves, Serve
      <4>2. CASE served[p] = "none"
        BY <4>1, <4>2
      <4>3. CASE served[p] # "none"
        <5>1. p \notin Restricted
          BY <1>1, <4>3
        <5>2. Sound(Message("removed", p, 0))
          BY <4>1, <5>1 DEF Message, AnswerType
        <5> QED BY <4>1, <4>3, <5>2
      <4> QED BY <4>2, <4>3
    <3>4. ASSUME NEW r \in Queries, ServerIsCurrent(r)
          PROVE  \E m : Sound(m) /\ answers' = Append(answers, m)
      <4>1. /\ answers' = Append(answers, Message("current", r, docs[r]))
            /\ served[r] = "added"
        BY <3>4 DEF ServerIsCurrent
      <4>2. r \notin Restricted /\ docs[r] \in Versions
        BY <1>1, <4>1 DEF LocalInv, VersionsInv
      <4>3. Sound(Message("current", r, docs[r]))
        BY <4>2 DEF Message, AnswerType
      <4> QED BY <4>1, <4>3
    <3>5. CASE ServerSnapshot
      <4>1. answers' = Append(answers, Message("snapshot", NoQuery, 0))
        BY <3>5 DEF ServerSnapshot
      <4>2. NoQuery \notin Restricted
        BY Assumptions
      <4>3. Sound(Message("snapshot", NoQuery, 0))
        BY <4>2 DEF Message, AnswerType
      <4> QED BY <4>1, <4>3
    <3> HIDE DEF Sound
    <3> QED BY <1>10, <3>1, <3>2, <3>3, <3>4, <3>5 DEF Server
  <2>4. Refuses(answers')
    BY <1>1, <2>3, RefusesAppended
  <2>5. \A q \in Restricted : served'[q] = "none"
    <3> SUFFICES ASSUME NEW q \in Restricted PROVE served'[q] = "none"
      OBVIOUS
    <3>1. served[q] = "none" /\ q \in Queries
      BY <1>1, Assumptions
    <3> QED BY <1>1, <1>10, <3>1
            DEF Server, ServerAdds, ServerRejects, ServerRemoves,
                ServerIsCurrent, ServerSnapshot
  <2> QED BY <1>1, <1>3, <2>1, <2>4, <2>5
<1>11. CASE \/ BackoffElapsed \/ OnlineStateTimeout
            \/ \E p \in Queries : RemoteWrite(p)
            \/ UNCHANGED vars
  <2>1. UNCHANGED <<answers, served, target>>
    BY <1>11 DEF BackoffElapsed, OnlineStateTimeout, RemoteWrite, callVars,
                 clientVars, vars
  <2> QED BY <1>1, <1>2, <2>1
<1> QED BY <1>5, <1>6, <1>7, <1>8, <1>9, <1>10, <1>11 DEF Next

\* Every step keeps SyncedIsFresh: only a snapshot with nothing outstanding
\* makes a target synced.
LEMMA NextSynced ==
    ASSUME LocalInv, ProtocolInv, [Next]_vars
    PROVE  SyncedIsFresh'
<1>1. /\ synced \subseteq listened /\ listened \subseteq Queries
      /\ cache \in [Queries -> Versions] /\ since \in [Queries -> Versions]
      /\ SyncedIsFresh
  BY DEF LocalInv, ListenersInv, VersionsInv, ProtocolInv
<1>2. ASSUME synced' \subseteq synced, UNCHANGED <<cache, since>>
      PROVE  SyncedIsFresh'
  BY <1>1, <1>2 DEF SyncedIsFresh
<1>3. ASSUME NEW g \in Gets, NEW p \in Queries, AddQueryListener(g, p)
      PROVE  SyncedIsFresh'
  <2>1. /\ UNCHANGED <<cache, synced>>
        /\ \/ since' = since
           \/ p \notin listened /\ since' = [since EXCEPT ![p] = docs[p]]
    BY <1>3 DEF AddQueryListener, Listen
  <2>2. \A q \in synced : since'[q] = since[q]
    BY <1>1, <2>1
  <2> QED BY <1>1, <2>1, <2>2 DEF SyncedIsFresh
<1>4. ASSUME NEW g \in Gets, RemoveQueryListener(g) PROVE SyncedIsFresh'
  BY <1>2, <1>4 DEF RemoveQueryListener, RemoveAndCleanupTarget
<1>5. CASE OnStreamFinish \/ IdleTimeout \/ OnlineStateTimeout
             \/ RestartNetwork
  <2>1. UNCHANGED <<cache, since>>
    BY <1>5 DEF OnStreamFinish, IdleTimeout, OnlineStateTimeout,
                RestartNetwork
  <2>2. synced' \subseteq synced
    BY <1>5 DEF OnStreamFinish, IdleTimeout, OnlineStateTimeout,
                RestartNetwork, CloseWithError, SetAndBroadcast
  <2> QED BY <1>2, <2>1, <2>2
<1>6. CASE OnSnapshot
  <2> DEFINE qs == {q \in Queries : IsActiveTarget(target, q)
                                      /\ target[q].changed}
             done == {q \in qs : target[q].current}
  <2>1. /\ synced' = synced \cup done /\ since' = since
        /\ cache' = [q \in Queries |->
               IF q \in qs THEN Max({cache[q], target[q].v}) ELSE cache[q]]
        /\ answers # <<>>
    BY <1>6 DEF OnSnapshot, Reads
  <2>2. IsOpen(stream)
    BY <2>1 DEF LocalInv, CallInv, NoCallUnlessOpen
  <2>3. ASSUME NEW q \in done PROVE q \in Queries /\ target[q].v >= since[q]
    <3>1. /\ q \in Queries /\ target[q].current /\ target[q].changed
          /\ target[q].pending = 0 /\ q \in listened
      BY <2>3 DEF IsActiveTarget
    <3>2. q \notin Restricted
      BY <3>1 DEF ProtocolInv, RefusedFits
    <3>3. Fits(q)
      BY <2>2, <3>1, <3>2 DEF ProtocolInv, QueriesFit
    <3> QED BY <3>1, <3>3 DEF Fits, QueryFits
  <2>4. \A q \in done : q \in qs
    OBVIOUS
  <2> HIDE DEF qs, done
  <2>5. ASSUME NEW q \in synced' PROVE cache'[q] >= since'[q]
    <3>1. q \in Queries /\ (q \in synced \/ q \in done)
      BY <1>1, <2>1, <2>3, <2>5
    <3>2. /\ cache[q] \in Int /\ since[q] \in Int /\ target[q].v \in Int
      BY <1>1, <3>1 DEF LocalInv, CallInv, TargetType, Versions
    <3>3. /\ q \in synced => cache[q] >= since[q]
          /\ q \in done => target[q].v >= since[q] /\ q \in qs
      BY <1>1, <2>3, <2>4 DEF SyncedIsFresh
    <3>4. cache'[q] = IF q \in qs
                      THEN (IF cache[q] >= target[q].v THEN cache[q]
                            ELSE target[q].v)
                      ELSE cache[q]
      BY <2>1, <3>1, <3>2, MaxPair
    <3> QED BY <2>1, <3>1, <3>2, <3>3, <3>4
  <2> QED BY <2>5 DEF SyncedIsFresh
<1>7. CASE OnTargetAdded \/ OnTargetRemoved \/ OnTargetCurrent
             \/ OnTargetRejected
  BY <1>2, <1>7 DEF OnTargetAdded, OnTargetRemoved, OnTargetCurrent,
     OnTargetRejected, RemoveAndCleanupTarget, Reads
<1>8. CASE OnWatchStreamOpen \/ BackoffElapsed
  BY <1>2, <1>8 DEF OnWatchStreamOpen, BackoffElapsed
<1>9. CASE Server
  BY <1>2, <1>9, ServerCall DEF clientVars
<1>10. CASE (\E p \in Queries : RemoteWrite(p)) \/ UNCHANGED vars
  BY <1>2, <1>10 DEF RemoteWrite, clientVars, vars
<1> QED BY <1>3, <1>4, <1>5, <1>6, <1>7, <1>8, <1>9, <1>10
        DEF Next, OnWatchStreamChange

\* ProtocolInv holds initially.
LEMMA InitProtocol == Init => ProtocolInv
<1> SUFFICES ASSUME Init PROVE ProtocolInv
  OBVIOUS
<1>1. QueriesFit
  BY DEF Init, QueriesFit, InitialStream, IsOpen
<1>2. RefusedFits
  BY Assumptions DEF Init, RefusedFits, NotServed, NoTargets, NewTarget
<1>3. SyncedIsFresh
  BY DEF Init, SyncedIsFresh
<1> QED BY <1>1, <1>2, <1>3 DEF ProtocolInv

\* ProtocolInv always holds: on every call the client and the backend agree,
\* target by target, on which request comes next, on how many replies are
\* outstanding and on which versions are answers to the current listener.
THEOREM ProtocolIsKept == Spec => [](LocalInv /\ ProtocolInv)
<1>1. Init => LocalInv /\ ProtocolInv
  BY InitLocal, InitProtocol
<1>2. LocalInv /\ ProtocolInv /\ [Next]_vars => (LocalInv /\ ProtocolInv)'
  BY NextLocal, NextQueries, NextRefused, NextSynced DEF ProtocolInv
<1> QED BY <1>1, <1>2, PTL DEF Spec

\* A view that WatchChangeAggregator declares in sync is at least as new as the
\* document was when the client began to listen, however often the target was
\* dropped and watched again on the same call.
THEOREM SyncedIsAlwaysFresh == Spec => []SyncedIsFresh
<1>1. ProtocolInv => SyncedIsFresh
  BY DEF ProtocolInv
<1> QED BY <1>1, ProtocolIsKept, PTL

\* The pending responses that WatchChangeAggregator keeps of an accepted target
\* are exactly the requests and the replies about it that are under way.
THEOREM OutstandingIsCounted == Spec => []CountsOutstanding
<1>1. LocalInv /\ ProtocolInv => CountsOutstanding
  <2> SUFFICES ASSUME LocalInv, ProtocolInv, NEW q \in Queries \ Restricted
               PROVE  target[q].pending =
                        Cardinality(RequestsOf(requests, q)) +
                        Cardinality(RepliesOf(answers, q))
    BY DEF CountsOutstanding, RequestsOf, RepliesOf
  <2>1. CASE IsOpen(stream)
    BY <2>1 DEF ProtocolInv, QueriesFit, Fits, QueryFits
  <2>2. CASE ~IsOpen(stream)
    <3>1. requests = <<>> /\ answers = <<>> /\ target = NoTargets
      BY <2>2 DEF LocalInv, CallInv, NoCallUnlessOpen
    <3>2. RequestsOf(requests, q) = {} /\ RepliesOf(answers, q) = {}
      BY <3>1 DEF RequestsOf, RepliesOf
    <3>3. target[q].pending = 0
      BY <3>1 DEF NoTargets, NewTarget
    <3> QED BY <3>2, <3>3, FS_EmptySet
  <2> QED BY <2>1, <2>2
<1> QED BY <1>1, ProtocolIsKept, PTL

=============================================================================
