------------------------- MODULE WriteQueueProofs --------------------------
(***************************************************************************)
(* Proofs about what FirestoreWrites promises the callers and the users,   *)
(* on top of the client's own consistency: whose name a write is carried   *)
(* out in, what its caller is told, and the refinement of WriteQueue.      *)
(***************************************************************************)
EXTENDS FirestoreWritesProofs

-----------------------------------------------------------------------------
(* Users and their tokens *)

\* After the notices of q are handled, a client that has user d has user u.
Notifies(q, d, u) ==
    \/ /\ u = d
       /\ \A i \in DOMAIN q : q[i].kind # "notify"
    \/ \E i \in DOMAIN q :
           /\ q[i].kind = "notify" /\ q[i].user = u
           /\ \A j \in DOMAIN q : i < j => q[j].kind # "notify"

\* No notice of q comes before position i.
First(q, i) == \A j \in DOMAIN q : j < i => q[j].kind # "notify"

\* The tokens of q that FIRAuth answered for its current user, and that come
\* before any notice, are u's, or none.
FreshFit(q, u) ==
    \A i \in DOMAIN q :
        q[i].kind = "token" /\ q[i].fresh /\ First(q, i)
            => q[i].user \in {u, NoToken}

\* So are the tokens of q that will be used.
LiveFit(q, u) ==
    \A i \in DOMAIN q :
        q[i].kind = "token" /\ q[i].live /\ First(q, i)
            => q[i].user \in {u, NoToken}

\* The user of the client, through the notices of the worker's and then the
\* main executor, becomes FIRAuth's, and the tokens follow the same way.
UsersFollow ==
    \E m \in Users :
        /\ Notifies(workerQ, user, m)
        /\ Notifies(mainQ, m, authUser)
        /\ FreshFit(mainQ, m)

\* An open call carries the token of the client's user.
TokenIsUsers == IsOpen(stream) => stream.token = user

\* The part of PromiseInv about users and their tokens.
TokenInv ==
    /\ UsersFollow
    /\ LiveFit(workerQ, user)
    /\ TokenIsUsers

\* What one more message does to the predicates above.
LEMMA AppendNotice ==
    ASSUME NEW q \in Seq(Message), NEW m \in Message, NEW d
    PROVE  LET s == Append(q, m)
           IN  /\ m.kind = "notify" => Notifies(s, d, m.user)
               /\ m.kind = "token" =>
                      \A u : Notifies(q, d, u) => Notifies(s, d, u)
               /\ \A u : m.kind = "notify" /\ FreshFit(q, u) => FreshFit(s, u)
               /\ \A u : m.kind = "notify" /\ LiveFit(q, u) => LiveFit(s, u)
               /\ \A u : /\ FreshFit(q, u)
                         /\ (\A i \in DOMAIN q : q[i].kind # "notify") =>
                                m.user \in {u, NoToken}
                         => FreshFit(s, u)
               /\ \A u : /\ LiveFit(q, u)
                         /\ (\A i \in DOMAIN q : q[i].kind # "notify") =>
                                m.user \in {u, NoToken}
                         => LiveFit(s, u)
<1> DEFINE s == Append(q, m)
           n == Len(q) + 1
<1>1. /\ s \in Seq(Message) /\ DOMAIN s = DOMAIN q \cup {n} /\ n \notin DOMAIN q
      /\ \A i \in DOMAIN q : s[i] = q[i]
      /\ s[n] = m
  BY AppendMessage
<1>2. n \in Int /\ \A i \in DOMAIN q : i \in Int /\ i < n
  OBVIOUS
<1> HIDE DEF s, n
<1>3. m.kind = "notify" => Notifies(s, d, m.user)
  <2> SUFFICES ASSUME m.kind = "notify" PROVE Notifies(s, d, m.user)
    OBVIOUS
  <2>1. n \in DOMAIN s /\ \A j \in DOMAIN s : ~(n < j)
    BY <1>1, <1>2
  <2> QED BY <1>1, <2>1 DEF Notifies
<1>4. ASSUME m.kind = "token", NEW u, Notifies(q, d, u)
      PROVE  Notifies(s, d, u)
  <2>1. CASE u = d /\ \A i \in DOMAIN q : q[i].kind # "notify"
    BY <1>1, <1>4, <2>1 DEF Notifies
  <2>2. CASE \E i \in DOMAIN q :
                 /\ q[i].kind = "notify" /\ q[i].user = u
                 /\ \A j \in DOMAIN q : i < j => q[j].kind # "notify"
    <3>1. PICK i \in DOMAIN q :
                 /\ q[i].kind = "notify" /\ q[i].user = u
                 /\ \A j \in DOMAIN q : i < j => q[j].kind # "notify"
      BY <2>2
    <3>2. \A j \in DOMAIN s : i < j => s[j].kind # "notify"
      BY <1>1, <1>4, <3>1
    <3> QED BY <1>1, <3>1, <3>2 DEF Notifies
  <2> QED BY <1>4, <2>1, <2>2 DEF Notifies
<1>5. \A i \in DOMAIN q : First(s, i) => First(q, i)
  BY <1>1 DEF First
<1>6. First(s, n) => \A i \in DOMAIN q : q[i].kind # "notify"
  BY <1>1, <1>2 DEF First
<1>7. \A u : m.kind = "notify" /\ FreshFit(q, u) => FreshFit(s, u)
  BY <1>1, <1>5 DEF FreshFit
<1>8. \A u : m.kind = "notify" /\ LiveFit(q, u) => LiveFit(s, u)
  BY <1>1, <1>5 DEF LiveFit
<1>9. \A u : /\ FreshFit(q, u)
             /\ (\A i \in DOMAIN q : q[i].kind # "notify") =>
                    m.user \in {u, NoToken}
             => FreshFit(s, u)
  BY <1>1, <1>5, <1>6 DEF FreshFit
<1>10. \A u : /\ LiveFit(q, u)
              /\ (\A i \in DOMAIN q : q[i].kind # "notify") =>
                     m.user \in {u, NoToken}
              => LiveFit(s, u)
  BY <1>1, <1>5, <1>6 DEF LiveFit
<1> QED BY <1>3, <1>4, <1>7, <1>8, <1>9, <1>10 DEF s

\* What handling a message does to them.
LEMMA TailNotice ==
    ASSUME NEW q \in Seq(Message), q # <<>>, NEW d, NEW u
    PROVE  /\ q[1].kind = "notify" /\ Notifies(q, d, u)
                  => Notifies(Tail(q), q[1].user, u)
           /\ q[1].kind = "token" /\ Notifies(q, d, u)
                  => Notifies(Tail(q), d, u)
           /\ q[1].kind = "token" /\ FreshFit(q, u) => FreshFit(Tail(q), u)
           /\ q[1].kind = "token" /\ LiveFit(q, u) => LiveFit(Tail(q), u)
           /\ First(q, 1)
<1> DEFINE t == Tail(q)
<1>1. /\ 1 \in DOMAIN q
      /\ \A i \in DOMAIN t : i + 1 \in DOMAIN q /\ t[i] = q[i + 1]
      /\ \A i \in DOMAIN q : i # 1 => i - 1 \in DOMAIN t /\ t[i - 1] = q[i]
  BY TailMessages
<1>2. (\A i \in DOMAIN q : i \in Int /\ 1 <= i) /\ (\A i \in DOMAIN t : i \in Int)
  <2>1. t \in Seq(Message)
    OBVIOUS
  <2> QED BY <2>1
<1> HIDE DEF t
<1>3. ASSUME NEW i \in DOMAIN q, q[i].kind = "notify", q[i].user = u, i # 1,
             \A j \in DOMAIN q : i < j => q[j].kind # "notify", NEW e
      PROVE  Notifies(t, e, u)
  <2>1. i - 1 \in DOMAIN t /\ t[i - 1] = q[i] /\ i \in Int
    BY <1>1, <1>2, <1>3
  <2>2. ASSUME NEW j \in DOMAIN t, i - 1 < j PROVE t[j].kind # "notify"
    <3>1. i < j + 1 /\ j + 1 \in DOMAIN q /\ t[j] = q[j + 1]
      BY <1>1, <1>2, <2>1, <2>2
    <3> QED BY <1>3, <3>1
  <2> QED BY <1>3, <2>1, <2>2 DEF Notifies
<1>4. ASSUME q[1].kind = "notify", Notifies(q, d, u)
      PROVE  Notifies(t, q[1].user, u)
  <2>1. PICK i \in DOMAIN q :
            /\ q[i].kind = "notify" /\ q[i].user = u
            /\ \A j \in DOMAIN q : i < j => q[j].kind # "notify"
    BY <1>1, <1>4 DEF Notifies
  <2>2. CASE i # 1
    BY <1>3, <2>1, <2>2
  <2>3. CASE i = 1
    <3>1. ASSUME NEW j \in DOMAIN t PROVE t[j].kind # "notify"
      <4>1. j + 1 \in DOMAIN q /\ t[j] = q[j + 1] /\ 1 <= j + 1 /\ j + 1 # 1
        <5>1. t = Tail(q) /\ j \in 1 .. Len(q) - 1
          BY DEF t
        <5> QED BY <1>1, <5>1
      <4>2. 1 < j + 1
        BY <1>2, <4>1
      <4> QED BY <2>1, <2>3, <4>1, <4>2
    <3> QED BY <2>1, <2>3, <3>1 DEF Notifies
  <2> QED BY <2>2, <2>3
<1>5. ASSUME q[1].kind = "token", Notifies(q, d, u)
      PROVE  Notifies(t, d, u)
  <2>1. CASE u = d /\ \A i \in DOMAIN q : q[i].kind # "notify"
    BY <1>1, <2>1 DEF Notifies
  <2>2. CASE \E i \in DOMAIN q :
                 /\ q[i].kind = "notify" /\ q[i].user = u
                 /\ \A j \in DOMAIN q : i < j => q[j].kind # "notify"
    <3>1. PICK i \in DOMAIN q :
                 /\ q[i].kind = "notify" /\ q[i].user = u
                 /\ \A j \in DOMAIN q : i < j => q[j].kind # "notify"
      BY <2>2
    <3>2. i # 1
      BY <1>5, <3>1
    <3> QED BY <1>3, <3>1, <3>2
  <2> QED BY <1>5, <2>1, <2>2 DEF Notifies
<1>6. ASSUME q[1].kind = "token", NEW i \in DOMAIN t, First(t, i)
      PROVE  First(q, i + 1)
  <2> SUFFICES ASSUME NEW j \in DOMAIN q, j < i + 1 PROVE q[j].kind # "notify"
    BY DEF First
  <2>1. CASE j = 1
    BY <1>6, <2>1
  <2>2. CASE j # 1
    <3>1. j - 1 \in DOMAIN t /\ t[j - 1] = q[j] /\ j - 1 < i
      BY <1>1, <1>2, <2>2
    <3> QED BY <1>6, <3>1 DEF First
  <2> QED BY <2>1, <2>2
<1>7. ASSUME q[1].kind = "token", FreshFit(q, u) PROVE FreshFit(t, u)
  BY <1>1, <1>6, <1>7 DEF FreshFit
<1>8. ASSUME q[1].kind = "token", LiveFit(q, u) PROVE LiveFit(t, u)
  BY <1>1, <1>6, <1>8 DEF LiveFit
<1>9. First(q, 1)
  <2>1. \A j \in DOMAIN q : ~(j < 1)
    BY <1>2
  <2> QED BY <2>1 DEF First
<1> QED BY <1>4, <1>5, <1>7, <1>8, <1>9 DEF t

\* Giving up requests changes no notice, and leaves no token that will be used.
LEMMA DeadNotice ==
    ASSUME NEW q \in Seq(Message), NEW d, NEW u
    PROVE  /\ Notifies(q, d, u) => Notifies(Dead(q), d, u)
           /\ FreshFit(q, u) => FreshFit(Dead(q), u)
           /\ LiveFit(Dead(q), u)
<1> DEFINE s == Dead(q)
<1>1. DOMAIN s = DOMAIN q
      /\ \A i \in DOMAIN q : /\ s[i].kind = q[i].kind /\ s[i].user = q[i].user
                             /\ s[i].fresh = q[i].fresh /\ s[i].live = FALSE
  BY DeadIs
<1> HIDE DEF s
<1>2. Notifies(q, d, u) => Notifies(s, d, u)
  BY <1>1 DEF Notifies
<1>3. \A i \in DOMAIN q : First(s, i) <=> First(q, i)
  BY <1>1 DEF First
<1>4. FreshFit(q, u) => FreshFit(s, u)
  BY <1>1, <1>3 DEF FreshFit
<1>5. LiveFit(s, u)
  BY <1>1 DEF LiveFit
<1> QED BY <1>2, <1>4, <1>5 DEF s

\* A new user changes no notice, and leaves no token that is fresh.
LEMMA StaleNotice ==
    ASSUME NEW q \in Seq(Message), NEW d, NEW u
    PROVE  /\ Notifies(q, d, u) => Notifies(Stale(q), d, u)
           /\ FreshFit(Stale(q), u)
<1> DEFINE s == Stale(q)
<1>1. DOMAIN s = DOMAIN q
      /\ \A i \in DOMAIN q : /\ s[i].kind = q[i].kind /\ s[i].user = q[i].user
                             /\ s[i].fresh = FALSE
  BY StaleIs
<1> HIDE DEF s
<1>2. Notifies(q, d, u) => Notifies(s, d, u)
  BY <1>1 DEF Notifies
<1>3. FreshFit(s, u)
  BY <1>1 DEF FreshFit
<1> QED BY <1>2, <1>3 DEF s

\* The part of TokenInv about the executors' messages.
QueuesInv == UsersFollow /\ LiveFit(workerQ, user)

\* Ending a call keeps QueuesInv.
LEMMA QueuesInvDead ==
    ASSUME ClientInv, NEW q \in Seq(Message), NEW m \in Users,
           Notifies(q, user', m), Notifies(mainQ, m, authUser),
           FreshFit(mainQ, m), authUser' = authUser,
           mainQ' = Dead(mainQ), workerQ' = Dead(q)
    PROVE  QueuesInv'
<1>1. mainQ \in Seq(Message)
  BY DEF ClientInv, TypeOK
<1>2. Notifies(workerQ', user', m) /\ LiveFit(workerQ', user')
  BY DeadNotice
<1>3. Notifies(mainQ', m, authUser') /\ FreshFit(mainQ', m)
  BY <1>1, DeadNotice
<1> QED BY <1>2, <1>3 DEF QueuesInv, UsersFollow

\* What leaves the messages alone keeps QueuesInv.
LEMMA QueuesInvKept ==
    ASSUME QueuesInv, UNCHANGED <<authUser, mainQ, workerQ, user>>
    PROVE  QueuesInv'
BY DEF QueuesInv, UsersFollow

\* Every step of FIRAuth keeps QueuesInv.
LEMMA QueuesInvAuth ==
    ASSUME ClientInv, QueuesInv, Auth
    PROVE  QueuesInv'
<1>1. /\ mainQ \in Seq(Message) /\ workerQ \in Seq(Message)
      /\ asked \subseteq Request /\ authUser \in Users /\ user \in Users
      /\ NamesUsers(mainQ)
  BY DEF ClientInv, TypeOK, NoticesNameUsers
<1>2. PICK m \in Users : /\ Notifies(workerQ, user, m)
                         /\ Notifies(mainQ, m, authUser)
                         /\ FreshFit(mainQ, m)
  BY DEF QueuesInv, UsersFollow
<1>3. user' = user
  BY DEF Auth, UpdateCurrentUser, GetTokenForcingRefresh, AuthStateDidChange,
         GetTokenCallback, clientVars
<1>4. LiveFit(workerQ, user)
  BY DEF QueuesInv
<1>5. ASSUME NEW u \in Users, UpdateCurrentUser(u) PROVE QueuesInv'
  <2> DEFINE n == [kind |-> "notify", live |-> FALSE, fresh |-> FALSE, user |-> u]
  <2>1. authUser' = u /\ mainQ' = Append(mainQ, n) /\ workerQ' = workerQ
    BY <1>5 DEF UpdateCurrentUser
  <2>2. n \in Message /\ n.user = u /\ n.kind = "notify"
    BY DEF Message
  <2> HIDE DEF n
  <2>3. Notifies(mainQ', m, authUser') /\ FreshFit(mainQ', m)
    BY <1>1, <1>2, <2>1, <2>2, AppendNotice
  <2> QED BY <1>2, <1>3, <1>4, <2>1, <2>3 DEF QueuesInv, UsersFollow
<1>6. ASSUME NEW r \in asked, NEW fails \in BOOLEAN,
             GetTokenForcingRefresh(r, fails)
      PROVE  QueuesInv'
  <2> DEFINE n == [kind |-> "token", live |-> r.live, fresh |-> r.fresh,
                   user |-> IF fails THEN NoToken ELSE authUser]
  <2>1. /\ mainQ' = Append(mainQ, n)
        /\ UNCHANGED <<authUser, workerQ>>
    BY <1>6 DEF GetTokenForcingRefresh
  <2>2. r \in Request
    BY <1>1
  <2>3. n \in Message /\ n.kind = "token" /\ n.user \in {authUser, NoToken}
    BY <1>1, <2>2 DEF Message, Request
  <2>4. (\A i \in DOMAIN mainQ : mainQ[i].kind # "notify") => authUser = m
    BY <1>2 DEF Notifies
  <2> HIDE DEF n
  <2>5. Notifies(mainQ', m, authUser)
    BY <1>1, <1>2, <2>1, <2>3, AppendNotice
  <2>6. FreshFit(mainQ', m)
    BY <1>1, <1>2, <2>1, <2>3, <2>4, AppendNotice
  <2> QED BY <1>2, <1>3, <1>4, <2>1, <2>5, <2>6 DEF QueuesInv, UsersFollow
<1>7. CASE AuthStateDidChange
  <2> DEFINE h == Head(mainQ)
             t == Tail(mainQ)
  <2>1. /\ mainQ # <<>> /\ h.kind = "notify" /\ mainQ' = Stale(t)
        /\ workerQ' = Append(workerQ, h) /\ authUser' = authUser
    BY <1>7 DEF AuthStateDidChange, Stale
  <2>2. /\ h = mainQ[1] /\ h \in Message /\ 1 \in DOMAIN mainQ
        /\ t \in Seq(Message)
    BY <1>1, <2>1, TailMessages
  <2>3. h.user \in Users
    BY <1>1, <2>1, <2>2 DEF NamesUsers
  <2>4. Notifies(t, h.user, authUser)
    BY <1>1, <1>2, <2>1, <2>2, TailNotice
  <2> HIDE DEF h, t
  <2>5. Notifies(mainQ', h.user, authUser) /\ FreshFit(mainQ', h.user)
    BY <2>1, <2>2, <2>4, StaleNotice
  <2>6. Notifies(workerQ', user, h.user) /\ LiveFit(workerQ', user)
    BY <1>1, <1>4, <2>1, <2>2, AppendNotice
  <2> QED BY <1>3, <2>1, <2>3, <2>5, <2>6 DEF QueuesInv, UsersFollow
<1>8. CASE GetTokenCallback
  <2> DEFINE h == Head(mainQ)
  <2>1. /\ mainQ # <<>> /\ h.kind = "token" /\ mainQ' = Tail(mainQ)
        /\ \/ workerQ' = Append(workerQ, h) /\ h.fresh
           \/ workerQ' = workerQ
        /\ authUser' = authUser
    BY <1>8 DEF GetTokenCallback
  <2>2. /\ h = mainQ[1] /\ h \in Message /\ 1 \in DOMAIN mainQ
    BY <1>1, <2>1, TailMessages
  <2>3. Notifies(mainQ', m, authUser') /\ FreshFit(mainQ', m) /\ First(mainQ, 1)
    BY <1>1, <1>2, <2>1, <2>2, TailNotice
  <2> HIDE DEF h
  <2>4. CASE workerQ' = Append(workerQ, h) /\ h.fresh
    <3>1. h.user \in {m, NoToken}
      BY <1>2, <2>1, <2>2, <2>3, <2>4 DEF FreshFit
    <3>2. (\A i \in DOMAIN workerQ : workerQ[i].kind # "notify") => m = user
      BY <1>2 DEF Notifies
    <3>3. LiveFit(workerQ', user)
      BY <1>1, <1>4, <2>2, <2>4, <3>1, <3>2, AppendNotice
    <3>4. Notifies(workerQ', user, m)
      BY <1>1, <1>2, <2>1, <2>2, <2>4, AppendNotice
    <3> QED BY <1>3, <2>3, <3>3, <3>4 DEF QueuesInv, UsersFollow
  <2>5. CASE workerQ' = workerQ
    BY <1>2, <1>3, <1>4, <2>3, <2>5 DEF QueuesInv, UsersFollow
  <2> QED BY <2>1, <2>4, <2>5
<1> QED BY <1>5, <1>6, <1>7, <1>8 DEF Auth

\* Every step keeps QueuesInv.
LEMMA QueuesStep ==
    ASSUME ClientInv, QueuesInv, Next
    PROVE  QueuesInv'
<1>1. /\ mainQ \in Seq(Message) /\ workerQ \in Seq(Message)
      /\ authUser \in Users /\ user \in Users
  BY DEF ClientInv, TypeOK
<1>2. PICK m \in Users : /\ Notifies(workerQ, user, m)
                         /\ Notifies(mainQ, m, authUser)
                         /\ FreshFit(mainQ, m)
  BY DEF QueuesInv, UsersFollow
<1>3. LiveFit(workerQ, user)
  BY DEF QueuesInv
<1>4. workerQ # <<>> =>
          Head(workerQ) = workerQ[1] /\ Tail(workerQ) \in Seq(Message)
  BY <1>1, TailMessages
<1>5. CASE Auth
  BY <1>5, QueuesInvAuth
<1>6. CASE HandleCredentialChange
  <2>1. /\ user' = workerQ[1].user /\ workerQ # <<>>
        /\ workerQ[1].kind = "notify"
    BY <1>6, CredentialChangeIs
  <2>2. /\ workerQ' = Dead(Tail(workerQ)) /\ mainQ' = Dead(mainQ)
        /\ authUser' = authUser
    BY <1>6 DEF HandleCredentialChange
  <2>3. Notifies(Tail(workerQ), user', m)
    BY <1>1, <1>2, <2>1, TailNotice
  <2> QED BY <1>2, <1>4, <2>1, <2>2, <2>3, QueuesInvDead
<1>7. CASE ResumeStartWithCredentials
  <2>1. /\ workerQ # <<>> /\ Head(workerQ).kind = "token"
        /\ UNCHANGED <<authUser, user>>
        /\ \/ workerQ' = Tail(workerQ) /\ mainQ' = mainQ
           \/ workerQ' = Dead(Tail(workerQ)) /\ CloseWithError(FALSE)
    BY <1>7 DEF ResumeStartWithCredentials
  <2>2. Notifies(Tail(workerQ), user, m) /\ LiveFit(Tail(workerQ), user)
    BY <1>1, <1>2, <1>3, <1>4, <2>1, TailNotice
  <2>3. CASE workerQ' = Tail(workerQ) /\ mainQ' = mainQ
    BY <1>2, <2>1, <2>2, <2>3 DEF QueuesInv, UsersFollow
  <2>4. CASE workerQ' = Dead(Tail(workerQ)) /\ CloseWithError(FALSE)
    <3>1. mainQ' = Dead(mainQ)
      BY <2>4 DEF CloseWithError
    <3> QED BY <1>2, <1>4, <2>1, <2>2, <2>4, <3>1, QueuesInvDead
  <2> QED BY <2>1, <2>3, <2>4
<1>8. CASE OnStreamFinish \/ \E a \in BOOLEAN : ConnectivityChanged(a)
  <2>1. /\ workerQ' = Dead(workerQ) /\ mainQ' = Dead(mainQ)
        /\ UNCHANGED <<authUser, user>>
    BY <1>8 DEF OnStreamFinish, ConnectivityChanged, CloseWithError
  <2> QED BY <1>1, <1>2, <2>1, QueuesInvDead
<1>9. CASE Crash \/ CrashAcknowledging \/ CrashRejecting
  <2>1. /\ user' = authUser /\ authUser' = authUser
        /\ mainQ' = <<>> /\ workerQ' = <<>>
    BY <1>9, CrashIs
  <2>2. Notifies(<<>>, authUser, authUser) /\ FreshFit(<<>>, authUser)
        /\ LiveFit(<<>>, authUser)
    BY DEF Notifies, FreshFit, LiveFit
  <2> QED BY <1>1, <2>1, <2>2 DEF QueuesInv, UsersFollow
<1>10. CASE UNCHANGED <<authUser, mainQ, workerQ, user>>
  BY <1>10, QueuesInvKept
<1> QED
  BY <1>5, <1>6, <1>7, <1>8, <1>9, <1>10
     DEF Next, Worker, Environment, WriteMutations, BackoffElapsed, IdleTimeout,
         OnWriteStreamHandshakeComplete, OnWriteStreamMutationResult,
         ServerShakesHands, ServerApplies, ServerRefuses, ConnectionBreaks,
         authVars, clientVars

\* A stream that restarts or fails has no call.
LEMMA NotOpen ==
    /\ \A q, rs : Restarts(q, rs) => ~IsOpen(stream') /\ ~stream'.handshake
    /\ Fails => ~IsOpen(stream') /\ ~stream'.handshake
<1>1. "Starting" \in StreamStates /\ "Backoff" \in StreamStates
      /\ "Error" \in StreamStates
  BY DEF StreamStates
<1>2. /\ StreamIn("Starting").state = "Starting"
      /\ ~StreamIn("Starting").handshake
      /\ StreamIn("Backoff").state = "Backoff"
      /\ ~StreamIn("Backoff").handshake
      /\ StreamIn("Error").state = "Error"
      /\ ~StreamIn("Error").handshake
      /\ InitialStream.state = "Initial" /\ ~InitialStream.handshake
  BY <1>1, StreamInIs, InitialStreamIs
<1> HIDE DEF InitialStream
<1>3. ASSUME NEW q, NEW rs, Restarts(q, rs)
      PROVE  ~IsOpen(stream') /\ ~stream'.handshake
  BY <1>2, <1>3 DEF Restarts, IsOpen
<1>4. ASSUME Fails PROVE ~IsOpen(stream') /\ ~stream'.handshake
  <2>1. stream' = StreamIn("Backoff") \/ stream' = StreamIn("Error")
    BY <1>4 DEF Fails
  <2> QED BY <1>2, <2>1 DEF IsOpen
<1> QED BY <1>3, <1>4

\* A call that ends with an error is closed.
LEMMA ClosesCall ==
    ASSUME ClientInv, NEW permanent \in BOOLEAN, CloseWithError(permanent)
    PROVE  ~IsOpen(stream') /\ ~stream'.handshake
BY CloseWithErrorIs, NotOpen

\* A stream that leaves its backoff has no call yet.
LEMMA Backs ==
    ASSUME ClientInv, BackoffElapsed
    PROVE  /\ stream' \in Stream /\ ~IsOpen(stream') /\ ~stream'.handshake
           /\ ~stream.handshake
<1>1. stream \in Stream /\ stream.state = "Backoff"
  BY DEF ClientInv, TypeOK, Stream, BackoffElapsed
<1>2. ~stream.handshake
  BY <1>1 DEF ClientInv, CallNeedsStream, IsOpen
<1> DEFINE s == [stream EXCEPT !.state = "Initial"]
<1>3. s \in Stream /\ s.state = "Initial" /\ s.handshake = stream.handshake
  BY <1>1 DEF Stream, StreamStates
<1>4. stream' = Start(s)
  BY DEF BackoffElapsed, InhibitBackoff
<1> HIDE DEF s
<1>5. stream' = [s EXCEPT !.state = "Starting"]
  BY <1>3, <1>4 DEF Start
<1> QED BY <1>2, <1>3, <1>5 DEF Stream, StreamStates, IsOpen

\* The idle timer closes the call.
LEMMA Idles ==
    ASSUME ClientInv, IdleTimeout
    PROVE  ~IsOpen(stream') /\ ~stream'.handshake
<1>1. stream \in Stream /\ stream.idle
  BY DEF ClientInv, TypeOK, Stream, IdleTimeout
<1>2. stream.state = "Open"
  BY <1>1 DEF ClientInv, CallNeedsStream, IsOpen
<1> DEFINE s == [stream EXCEPT !.state = "Initial", !.idle = FALSE]
<1>3. s \in Stream /\ s.state = "Initial"
  BY <1>1 DEF Stream, StreamStates
<1>4. stream' = [s EXCEPT !.handshake = FALSE, !.token = NoToken]
  BY <1>2 DEF IdleTimeout, Closed, Close, IsStarted
<1> HIDE DEF s
<1> QED BY <1>3, <1>4 DEF Stream, IsOpen

\* Every step keeps TokenInv.
LEMMA TokenStep ==
    ASSUME ClientInv, TokenInv, Next
    PROVE  TokenInv'
<1>1. QueuesInv'
  BY QueuesStep DEF TokenInv, QueuesInv
<1> SUFFICES TokenIsUsers'
  BY <1>1 DEF TokenInv, QueuesInv
<1>2. stream \in Stream /\ user \in Users
  BY DEF ClientInv, TypeOK, Stream
<1>3. CASE ~IsOpen(stream')
  BY <1>3 DEF TokenIsUsers
<1>4. CASE stream'.state = stream.state /\ stream'.token = stream.token
           /\ user' = user
  BY <1>4 DEF TokenInv, TokenIsUsers, IsOpen
<1>5. CASE Auth
  <2>1. UNCHANGED <<stream, user>>
    BY <1>5 DEF Auth, UpdateCurrentUser, GetTokenForcingRefresh,
                AuthStateDidChange, GetTokenCallback, clientVars
  <2> QED BY <1>4, <2>1
<1>6. CASE HandleCredentialChange
  BY <1>3, <1>6, CredentialChangeIs, NotOpen
<1>7. CASE ResumeStartWithCredentials
  <2>1. CASE CloseWithError(FALSE)
    BY <1>3, <2>1, ClosesCall
  <2>2. CASE stream' = stream
    BY <1>4, <1>7, <2>2 DEF ResumeStartWithCredentials
  <2>3. CASE /\ Head(workerQ).live /\ Head(workerQ).user # NoToken
             /\ stream' = [stream EXCEPT !.state = "Open",
                                         !.token = Head(workerQ).user]
    <3>1. /\ workerQ # <<>> /\ Head(workerQ).kind = "token" /\ user' = user
          /\ workerQ \in Seq(Message)
      BY <1>7 DEF ResumeStartWithCredentials, ClientInv, TypeOK
    <3>2. Head(workerQ) = workerQ[1] /\ 1 \in DOMAIN workerQ
      BY <3>1, TailMessages
    <3>3. First(workerQ, 1)
      BY <3>1, TailNotice
    <3>4. Head(workerQ).user \in {user, NoToken}
      BY <2>3, <3>1, <3>2, <3>3 DEF TokenInv, LiveFit
    <3>5. Head(workerQ).user = user
      BY <2>3, <3>4
    <3>6. stream' = [stream EXCEPT !.state = "Open", !.token = user]
      BY <2>3, <3>5
    <3>7. stream'.token = user
      BY <1>2, <3>6 DEF Stream
    <3> QED BY <3>1, <3>7 DEF TokenIsUsers
  <2> QED BY <1>7, <2>1, <2>2, <2>3 DEF ResumeStartWithCredentials
<1>8. CASE WriteMutations
  <2>1. user' = user
    BY <1>8 DEF WriteMutations
  <2>2. CASE ~IsStarted(stream) /\ stream' = Start(stream)
    <3>1. ~IsOpen(stream')
      BY <1>2, <2>2 DEF Start, IsOpen, Stream
    <3> QED BY <1>3, <3>1
  <2>3. CASE stream'.state = stream.state /\ stream'.token = stream.token
    BY <1>4, <2>1, <2>3
  <2> QED BY <1>8, <2>2, <2>3, WriteMutationsIs
<1>9. CASE OnWriteStreamMutationResult
  <2>1. user' = user
    BY <1>9 DEF OnWriteStreamMutationResult
  <2> QED BY <1>4, <1>9, <2>1, MutationResultIs
<1>10. CASE OnWriteStreamHandshakeComplete
  <2> DEFINE b == stream.idle /\ pipeline = <<>>
  <2>1. /\ stream' = [stream EXCEPT !.handshake = TRUE, !.idle = b]
        /\ user' = user
    BY <1>10 DEF OnWriteStreamHandshakeComplete, clientVars
  <2> HIDE DEF b
  <2>2. stream'.state = stream.state /\ stream'.token = stream.token
    BY <1>2, <2>1 DEF Stream
  <2> QED BY <1>4, <2>1, <2>2
<1>11. CASE OnStreamFinish
  <2>1. (verdict = "permanent") \in BOOLEAN
    OBVIOUS
  <2> QED BY <1>3, <1>11, <2>1, ClosesCall DEF OnStreamFinish
<1>12. CASE BackoffElapsed
  BY <1>3, <1>12, Backs
<1>13. CASE IdleTimeout
  BY <1>3, <1>13, Idles
<1>14. ASSUME NEW a \in BOOLEAN, ConnectivityChanged(a) PROVE TokenIsUsers'
  <2>1. RestartNetwork(queue[user], asked) \/ CloseWithError(FALSE)
    BY <1>14 DEF ConnectivityChanged
  <2>2. CASE RestartNetwork(queue[user], asked)
    BY <1>2, <1>3, <2>2, RestartNetworkIs, NotOpen
  <2>3. CASE CloseWithError(FALSE)
    BY <1>3, <2>3, ClosesCall
  <2> QED BY <2>1, <2>2, <2>3
<1>15. CASE Crash \/ CrashAcknowledging \/ CrashRejecting
  BY <1>3, <1>15, CrashIs, NotOpen
<1>16. CASE ServerShakesHands \/ ServerApplies \/ ServerRefuses
            \/ ConnectionBreaks
  <2>1. UNCHANGED <<stream, user>>
    BY <1>16 DEF ServerShakesHands, ServerApplies, ServerRefuses,
                 ConnectionBreaks, clientVars
  <2> QED BY <1>4, <2>1
<1> QED
  BY <1>5, <1>6, <1>7, <1>8, <1>9, <1>10, <1>11, <1>12, <1>13, <1>14, <1>15,
     <1>16 DEF Next, Worker, Environment

-----------------------------------------------------------------------------
(* The kinds of steps *)

\* The call is over, with what was under way on it.
CallEnds == answers' = <<>> /\ verdict' = "none" /\ ~stream'.handshake

\* The client sends something, or nothing.
WireGrows ==
    wire' = wire \/ \E new \in Seq(Nat) : wire' = wire \o new

\* A step that leaves the queues and the call alone.
KeepsCall ==
    /\ UNCHANGED <<user, queue, writer, told, serverVars, callVars>>
    /\ stream'.handshake = stream.handshake

\* A step that ends the call, or begins one, and settles nothing.
GivesUp ==
    /\ UNCHANGED <<queue, writer, told, serverVars>>
    /\ wire' \in {<<>>, <<Handshake>>}
    /\ CallEnds

\* A crash that hits after the caller was told and before the queue was
\* written.
TellsHead ==
    /\ stream.handshake /\ answers # <<>> /\ pipeline # <<>>
    /\ told' \in {told, [told EXCEPT ![Head(queue[user]).w] = "ok"]}
    /\ UNCHANGED <<queue, writer, serverVars>>
    /\ CallEnds

\* A permanent error removes the head of the queue.
DropsHead ==
    /\ verdict = "permanent"
    /\ stream.handshake /\ pipeline # <<>>
    /\ queue' = [queue EXCEPT ![user] = Tail(@)]
    /\ told' \in {told, [told EXCEPT ![Head(queue[user]).w] = "error"]}
    /\ UNCHANGED <<writer, serverVars>>
    /\ CallEnds

\* The app issues a write.
IssuesWrite ==
    /\ Len(writer) < MaxWrites
    /\ queue' = [queue EXCEPT ![user] = Append(@, NewBatch)]
    /\ writer' = Append(writer, user)
    /\ told' = Append(told, "waiting")
    /\ stream'.handshake = stream.handshake
    /\ UNCHANGED <<user, serverVars, answers, verdict>>
    /\ WireGrows

\* An answer settles the head of the queue.
SettlesAnswered ==
    /\ stream.handshake /\ answers # <<>> /\ pipeline # <<>>
    /\ answers' = Tail(answers)
    /\ queue' = [queue EXCEPT ![user] = Tail(@)]
    /\ told' \in {told, [told EXCEPT ![Head(queue[user]).w] = "ok"]}
    /\ stream'.handshake
    /\ UNCHANGED <<user, writer, serverVars, verdict>>
    /\ WireGrows

\* The handshake is complete.
ShakesHands ==
    /\ ~stream.handshake /\ stream'.handshake
    /\ answers # <<>> /\ answers' = <<>>
    /\ wire = <<>>
    /\ UNCHANGED <<user, queue, writer, told, serverVars, verdict>>

\* Filling the pipeline only adds to the wire.
LEMMA GrowsByRefill ==
    ASSUME NEW q, NEW p, Refills(q, p)
    PROVE  WireGrows
<1>1. PICK new \in Seq(Batch) :
          wire' = IF Ready(stream) THEN wire \o Payload(new) ELSE wire
  BY DEF Refills
<1>2. Payload(new) \in Seq(Nat)
  BY PayloadIsNat
<1> QED BY <1>1, <1>2 DEF WireGrows

\* Failing the stream settles nothing.
LEMMA GivesUpWhenFails ==
    ASSUME Fails, answers' = <<>>, verdict' = "none", UNCHANGED <<writer, serverVars>>
    PROVE  GivesUp
BY NotOpen DEF Fails, GivesUp, CallEnds

\* Every step is one of the kinds above, or one of the backend's.
LEMMA StepKinds ==
    ASSUME ClientInv, Next
    PROVE  \/ KeepsCall \/ GivesUp \/ TellsHead \/ DropsHead \/ IssuesWrite
           \/ SettlesAnswered \/ ShakesHands \/ ServerShakesHands
           \/ ServerApplies \/ ServerRefuses \/ ConnectionBreaks
<1>1. stream \in Stream /\ user \in Users
  BY DEF ClientInv, TypeOK, Stream
<1>2. ASSUME NEW permanent \in BOOLEAN, CloseWithError(permanent),
             UNCHANGED <<writer, serverVars>>,
             permanent => verdict = "permanent"
      PROVE  GivesUp \/ DropsHead
  <2>1. /\ answers' = <<>> /\ verdict' = "none"
        /\ \/ /\ permanent /\ Ready(stream) /\ SettlesHead("error")
              /\ Restarts(Tail(queue[user]), DeadRequests(asked))
           \/ Fails
    BY <1>2, CloseWithErrorIs
  <2>2. CASE Fails
    BY <1>2, <2>1, <2>2, GivesUpWhenFails
  <2>3. CASE /\ permanent /\ Ready(stream) /\ SettlesHead("error")
             /\ Restarts(Tail(queue[user]), DeadRequests(asked))
    <3>1. CallEnds
      BY <2>1, <2>3, NotOpen DEF CallEnds
    <3> QED BY <1>2, <2>3, <3>1 DEF DropsHead, SettlesHead, Ready
  <2> QED BY <2>1, <2>2, <2>3
<1>3. CASE Auth
  BY <1>3 DEF Auth, UpdateCurrentUser, GetTokenForcingRefresh,
         AuthStateDidChange, GetTokenCallback, KeepsCall, clientVars, history
<1>4. CASE HandleCredentialChange
  <2>1. /\ answers' = <<>> /\ verdict' = "none"
        /\ Restarts(queue[user'], DeadRequests(asked))
    BY <1>4, CredentialChangeIs
  <2>2. UNCHANGED <<queue, writer, told, serverVars>>
    BY <1>4 DEF HandleCredentialChange, history
  <2>3. wire' = <<>> /\ ~stream'.handshake
    BY <2>1, NotOpen DEF Restarts
  <2> QED BY <2>1, <2>2, <2>3 DEF GivesUp, CallEnds
<1>5. CASE ResumeStartWithCredentials
  <2>1. UNCHANGED <<user, writer, serverVars>>
    BY <1>5 DEF ResumeStartWithCredentials
  <2>2. CASE UNCHANGED <<queue, stream, callVars, told>>
    BY <2>1, <2>2 DEF KeepsCall
  <2>3. CASE CloseWithError(FALSE)
    BY <1>2, <2>1, <2>3
  <2>4. CASE /\ Head(workerQ).live /\ Head(workerQ).user # NoToken
    <3>1. /\ stream' = [stream EXCEPT !.state = "Open",
                                      !.token = Head(workerQ).user]
          /\ wire' = <<Handshake>> /\ UNCHANGED <<queue, answers, verdict, told>>
          /\ Head(workerQ).kind = "token" /\ workerQ # <<>>
      BY <1>5, <2>4 DEF ResumeStartWithCredentials
    <3>2. workerQ \in Seq(Message)
      BY DEF ClientInv, TypeOK
    <3>3. LiveToken(workerQ[1]) /\ 1 \in DOMAIN workerQ
      BY <2>4, <3>1, <3>2, TailMessages DEF LiveToken
    <3>4. stream.state = "Starting"
      BY <3>3 DEF ClientInv, LiveRequests, NoneLive
    <3>5. ~stream.handshake /\ answers = <<>> /\ verdict = "none"
      BY <3>4 DEF ClientInv, CallNeedsStream, IsOpen
    <3>6. stream'.handshake = stream.handshake
      BY <1>1, <3>1 DEF Stream
    <3> QED BY <2>1, <3>1, <3>5, <3>6 DEF GivesUp, CallEnds
  <2> QED BY <1>5, <2>2, <2>3, <2>4 DEF ResumeStartWithCredentials
<1>6. CASE WriteMutations
  <2>1. /\ Len(writer) < MaxWrites
        /\ writer' = Append(writer, user)
        /\ told' = Append(told, "waiting")
        /\ UNCHANGED <<user, serverVars, answers, verdict>>
    BY <1>6 DEF WriteMutations
  <2>2. /\ queue' = [queue EXCEPT ![user] = Append(queue[user], NewBatch)]
        /\ Refills(Append(queue[user], NewBatch), pipeline)
        /\ \/ stream'.handshake = stream.handshake
           \/ stream' = Start(stream)
    BY <1>6, WriteMutationsIs
  <2>3. stream'.handshake = stream.handshake
    BY <1>1, <2>2 DEF Start, Stream
  <2>4. WireGrows
    BY <2>2, GrowsByRefill
  <2> QED BY <2>1, <2>2, <2>3, <2>4 DEF IssuesWrite
<1>7. CASE OnWriteStreamMutationResult
  <2>1. /\ stream.handshake /\ answers # <<>> /\ pipeline # <<>>
        /\ answers' = Tail(answers)
        /\ UNCHANGED <<user, writer, serverVars, verdict>>
    BY <1>7 DEF OnWriteStreamMutationResult
  <2>2. /\ SettlesHead("ok") /\ Refills(Tail(queue[user]), Tail(pipeline))
        /\ stream'.handshake = stream.handshake
    BY <1>7, MutationResultIs
  <2>3. WireGrows
    BY <2>2, GrowsByRefill
  <2> QED BY <2>1, <2>2, <2>3 DEF SettlesAnswered, SettlesHead
<1>8. CASE OnWriteStreamHandshakeComplete
  <2> DEFINE b == stream.idle /\ pipeline = <<>>
  <2>1. /\ stream' = [stream EXCEPT !.handshake = TRUE, !.idle = b]
        /\ ~stream.handshake /\ answers # <<>>
        /\ UNCHANGED <<user, queue, writer, told, serverVars, verdict>>
    BY <1>8 DEF OnWriteStreamHandshakeComplete, clientVars, history
  <2>2. answers' = <<>>
    BY <1>8, CallInvShaken
  <2>3. IsOpen(stream) /\ verdict # "transient"
    BY <2>1 DEF ClientInv, CallNeedsStream
  <2>4. /\ answers \o wire = <<Handshake>>
        /\ answers \in Seq(Nat) /\ wire \in Seq(Nat)
    BY <2>1, <2>3 DEF ClientInv, CallMatchesPipeline, TypeOK
  <2>5. wire = <<>>
    BY <2>1, <2>4, OneMessage
  <2> HIDE DEF b
  <2>6. stream'.handshake
    BY <1>1, <2>1 DEF Stream
  <2> QED BY <2>1, <2>2, <2>5, <2>6 DEF ShakesHands
<1>9. CASE OnStreamFinish
  <2>1. /\ CloseWithError(verdict = "permanent")
        /\ UNCHANGED <<writer, serverVars>>
        /\ (verdict = "permanent") \in BOOLEAN
    BY <1>9 DEF OnStreamFinish
  <2> QED BY <1>2, <2>1
<1>10. CASE BackoffElapsed
  <2>1. UNCHANGED <<user, queue, writer, told, serverVars, callVars>>
    BY <1>10 DEF BackoffElapsed, clientVars, history
  <2>2. stream'.handshake = FALSE /\ stream.handshake = FALSE
    BY <1>1, <1>10, Backs DEF Stream
  <2> QED BY <2>1, <2>2 DEF KeepsCall
<1>11. CASE IdleTimeout
  BY <1>11, Idles DEF IdleTimeout, GivesUp, CallEnds, CallIsOver, clientVars,
                      history
<1>12. ASSUME NEW a \in BOOLEAN, ConnectivityChanged(a)
       PROVE  GivesUp \/ DropsHead
  <2>1. UNCHANGED <<writer, serverVars>>
    BY <1>12 DEF ConnectivityChanged
  <2>2. CASE RestartNetwork(queue[user], asked) /\ UNCHANGED <<queue, told>>
    <3>1. /\ answers' = <<>> /\ verdict' = "none"
          /\ Restarts(queue[user], DeadRequests(asked))
      BY <1>1, <2>2, RestartNetworkIs
    <3>2. wire' = <<>> /\ ~stream'.handshake
      BY <3>1, NotOpen DEF Restarts
    <3> QED BY <2>1, <2>2, <3>1, <3>2 DEF GivesUp, CallEnds
  <2>3. CASE CloseWithError(FALSE)
    BY <1>2, <2>1, <2>3
  <2> QED BY <1>12, <2>2, <2>3 DEF ConnectivityChanged
<1>13. CASE Crash \/ CrashAcknowledging \/ CrashRejecting
  <2>1. /\ UNCHANGED <<serverVars, writer>>
        /\ answers' = <<>> /\ verdict' = "none"
        /\ Restarts(queue'[user'], {})
    BY <1>13, CrashIs
  <2>2. wire' = <<>> /\ CallEnds
    BY <2>1, NotOpen DEF Restarts, CallEnds
  <2>3. CASE Crash
    BY <2>1, <2>2, <2>3 DEF Crash, Restarted, GivesUp
  <2>4. CASE CrashAcknowledging
    <3>1. /\ stream.handshake /\ answers # <<>> /\ pipeline # <<>>
          /\ queue' = queue /\ told' = Notified(Head(pipeline), "ok")
      BY <2>4 DEF CrashAcknowledging, Restarted
    <3>2. told' \in {told, [told EXCEPT ![Head(queue[user]).w] = "ok"]}
      BY <3>1, NotifiedIs DEF ClientInv
    <3> QED BY <2>1, <2>2, <3>1, <3>2 DEF TellsHead
  <2>5. CASE CrashRejecting
    <3>1. /\ verdict = "permanent"
          /\ stream.handshake /\ pipeline # <<>> /\ told' = told
          /\ queue' = [queue EXCEPT ![user] =
                           RemoveMutationBatch(queue[user], Head(pipeline))]
      BY <2>5 DEF CrashRejecting, Restarted
    <3>2. RemoveMutationBatch(queue[user], Head(pipeline)) = Tail(queue[user])
      BY <3>1, PipelineHead DEF ClientInv
    <3> QED BY <2>1, <2>2, <3>1, <3>2 DEF DropsHead
  <2> QED BY <1>13, <2>3, <2>4, <2>5
<1> QED BY <1>3, <1>4, <1>5, <1>6, <1>7, <1>8, <1>9, <1>10, <1>11, <1>12,
           <1>13 DEF Next, Worker, Environment

-----------------------------------------------------------------------------
(* What the callers are told *)

\* The write at the head of the current user's queue.
HeadWrite == Head(queue[user]).w

\* It was issued by that user, and before the others of the queue.
LEMMA HeadWriteIs ==
    ASSUME ClientInv, pipeline # <<>>
    PROVE  /\ HeadWrite \in 1 .. Len(writer) /\ writer[HeadWrite] = user
           /\ HeadWrite \in DOMAIN told /\ HeadWrite \in Nat
           /\ pipeline[1].w = HeadWrite
           /\ queue[user] # <<>>
           /\ queue[user] \in Seq(Batch)
           /\ \A i \in DOMAIN queue[user] :
                  queue[user][i].w \in Nat /\ HeadWrite <= queue[user][i].w
<1> DEFINE q == queue[user]
           h == q[1]
<1>1. user \in Users /\ q \in Seq(Batch) /\ pipeline \in Seq(Batch)
      /\ writer \in Seq(Users) /\ Len(told) = Len(writer) /\ told \in Seq(Outcomes)
  BY DEF ClientInv, TypeOK, Outcomes
<1>2. /\ q # <<>> /\ Head(pipeline) = Head(q) /\ Head(q) = h
  BY PipelineHead DEF ClientInv
<1>3. 1 \in DOMAIN q /\ Head(pipeline) = pipeline[1]
  BY <1>1, <1>2
<1>4. h \in Batch /\ h.w <= Len(writer) /\ writer[h.w] = user
  BY <1>1, <1>3 DEF ClientInv, QueuesOrdered
<1>5. \A j \in DOMAIN q : 1 < j => h.w < q[j].w
  BY <1>1, <1>3 DEF ClientInv, QueuesOrdered
<1>6. \A j \in DOMAIN q : q[j] \in Batch /\ (j = 1 \/ 1 < j)
  BY <1>1
<1>7. \A j \in DOMAIN q : q[j].w \in Writes
  BY <1>6 DEF Batch
<1>8. Writes \subseteq Nat \ {0}
  BY WritesAssumption DEF Writes
<1>9. HeadWrite = h.w
  BY <1>2 DEF HeadWrite
<1> HIDE DEF q, h
<1>10. h.w \in Nat \ {0} /\ h = q[1]
  BY <1>3, <1>7, <1>8 DEF h
<1>11. ASSUME NEW j \in DOMAIN q PROVE q[j].w \in Nat /\ h.w <= q[j].w
  <2>1. q[j].w \in Nat
    BY <1>7, <1>8
  <2>2. CASE j = 1
    BY <1>10, <2>2
  <2>3. CASE 1 < j
    <3>1. h.w < q[j].w
      BY <1>5, <2>3
    <3> QED BY <1>10, <2>1, <3>1
  <2> QED BY <1>6, <2>1, <2>2, <2>3
<1>12. h.w \in 1 .. Len(writer)
  <2>1. h.w <= Len(writer) /\ Len(writer) \in Nat
    BY <1>1, <1>4
  <2> QED BY <1>10, <2>1
<1>13. DOMAIN told = 1 .. Len(writer)
  BY <1>1
<1> QED BY <1>1, <1>2, <1>3, <1>4, <1>9, <1>10, <1>11, <1>12,
           <1>13 DEF q, h

\* The first answer under way is about the head, the last about a later write.
LEMMA AnswerIsHeads ==
    ASSUME ClientInv, stream.handshake, answers # <<>>
    PROVE  /\ verdict # "transient" /\ pipeline # <<>>
           /\ 1 \in DOMAIN answers /\ answers[1] = HeadWrite
           /\ Len(answers) \in DOMAIN answers
           /\ answers[Len(answers)] >= HeadWrite
           /\ Len(answers) \in Nat \ {0}
<1>1. answers \in Seq(Nat) /\ pipeline \in Seq(Batch) /\ queue[user] \in Seq(Batch)
      /\ user \in Users
  BY DEF ClientInv, TypeOK
<1>2. verdict # "transient"
  BY DEF ClientInv, CallNeedsStream
<1>3. /\ Len(answers) + Len(wire) = Len(pipeline)
      /\ Len(answers) \in Nat /\ Len(wire) \in Nat
      /\ \A i \in 1 .. Len(answers) : answers[i] = pipeline[i].w
  BY <1>2, CallIndex
<1>4. /\ 1 \in 1 .. Len(answers) /\ Len(answers) \in 1 .. Len(answers)
      /\ Len(answers) # 0
  BY <1>1
<1>5. Len(pipeline) # 0 /\ Len(answers) \in 1 .. Len(pipeline)
  BY <1>3, <1>4
<1>6. pipeline # <<>>
  BY <1>5
<1>7. /\ pipeline[1].w = HeadWrite /\ HeadWrite \in Nat
      /\ \A i \in DOMAIN queue[user] :
             queue[user][i].w \in Nat /\ HeadWrite <= queue[user][i].w
  BY <1>6, HeadWriteIs
<1> DEFINE q == queue[user]
           n == Len(answers)
<1>8. /\ pipeline = SubSeq(q, 1, Room(q))
      /\ Len(pipeline) = Room(q)
      /\ \A i \in 1 .. Room(q) : pipeline[i] = q[i]
  BY <1>1, HeadOfQueue DEF ClientInv, PipelineIsHead, Room
<1>9. Room(q) \in 0 .. Len(q)
  BY <1>1, RoomIs
<1>10. n \in DOMAIN q /\ pipeline[n] = q[n]
  BY <1>1, <1>5, <1>8, <1>9
<1>11. answers[n] = q[n].w /\ q[n].w \in Nat /\ HeadWrite <= q[n].w
  BY <1>3, <1>4, <1>7, <1>10
<1>12. answers[n] >= HeadWrite
  BY <1>7, <1>11
<1>13. DOMAIN answers = 1 .. n /\ n \in Nat \ {0}
  BY <1>1, <1>3, <1>4
<1> QED BY <1>2, <1>3, <1>4, <1>6, <1>7, <1>12, <1>13

\* A permanent error is about the head once every answer was read, and about a
\* later write of the same user before that.
LEMMA RefusedIsLater ==
    ASSUME ClientInv, stream.handshake, verdict = "permanent", wire # <<>>,
           pipeline # <<>>
    PROVE  /\ Head(wire) \in 1 .. Len(writer) /\ writer[Head(wire)] = user
           /\ answers = <<>> => Head(wire) = HeadWrite
           /\ answers # <<>> => HeadWrite < Head(wire)
<1> DEFINE q == queue[user]
           n == Len(answers)
<1>1. q \in Seq(Batch) /\ answers \in Seq(Nat) /\ user \in Users
  BY DEF ClientInv, TypeOK
<1>2. /\ Head(wire) \in 1 .. Len(writer) /\ writer[Head(wire)] = user
      /\ Head(wire) = q[n + 1].w /\ n + 1 \in DOMAIN q
  BY NextMessage
<1>3. q # <<>> /\ HeadWrite = q[1].w
  BY <1>1, HeadWriteIs DEF HeadWrite
<1>4. \A i, j \in DOMAIN q : i < j => q[i].w < q[j].w
  BY <1>1 DEF ClientInv, QueuesOrdered
<1>5. 1 \in DOMAIN q
  BY <1>1, <1>3
<1>6. /\ answers = <<>> => n + 1 = 1
      /\ answers # <<>> => 1 < n + 1
  BY <1>1
<1> HIDE DEF q, n
<1> QED BY <1>2, <1>3, <1>4, <1>5, <1>6

\* What the backend applied or refused was issued.
AppliedIsIssued ==
    /\ \A a \in applied : a[1] \in DOMAIN writer
    /\ refused \subseteq DOMAIN writer

\* An answer under way is about a write that the backend applied, the last one
\* about its current value, and a permanent error about one it refused.
AnswersAreTrue ==
    /\ verdict = "permanent" => wire # <<>>
    /\ stream.handshake =>
        /\ \A i \in DOMAIN answers : <<answers[i], user>> \in applied
        /\ answers # <<>> => server[user] = answers[Len(answers)]
        /\ verdict = "permanent" => Head(wire) \in refused

\* A write whose caller was told "ok" is not behind anything that its writer's
\* queue holds.
ToldIsHead ==
    \A w \in DOMAIN told : told[w] = "ok" =>
        \A i \in DOMAIN queue[writer[w]] : queue[writer[w]][i].w >= w

\* The part of PromiseInv about what the callers are told.
TruthInv ==
    /\ AppliedIsIssued
    /\ SentAsItsWriter
    /\ AnswersAreTrue
    /\ ToldIsHead
    /\ TellsTheTruth
    /\ NeverBehindAcknowledged

\* What issuing a write changes in what the app was told.
LEMMA IssuedWriters ==
    ASSUME ClientInv, IssuesWrite
    PROVE  /\ DOMAIN writer' = DOMAIN writer \cup {Len(writer) + 1}
           /\ DOMAIN told' = DOMAIN told \cup {Len(writer) + 1}
           /\ DOMAIN told = DOMAIN writer /\ DOMAIN writer = 1 .. Len(writer)
           /\ \A w \in DOMAIN writer : writer'[w] = writer[w]
           /\ \A w \in DOMAIN told : told'[w] = told[w]
           /\ told'[Len(writer) + 1] = "waiting"
<1>1. writer \in Seq(Users) /\ told \in Seq(Outcomes) /\ Len(told) = Len(writer)
      /\ user \in Users
  BY DEF ClientInv, TypeOK, Outcomes
<1>2. writer' = Append(writer, user) /\ told' = Append(told, "waiting")
      /\ "waiting" \in Outcomes
  BY DEF IssuesWrite, Outcomes
<1>3. /\ DOMAIN writer' = 1 .. Len(writer) + 1
      /\ \A w \in 1 .. Len(writer) : writer'[w] = writer[w]
  BY <1>1, <1>2
<1>4. /\ DOMAIN told' = 1 .. Len(told) + 1
      /\ \A w \in 1 .. Len(told) : told'[w] = told[w]
      /\ told'[Len(told) + 1] = "waiting"
  BY <1>1, <1>2
<1>5. /\ Len(writer) \in Nat /\ DOMAIN writer = 1 .. Len(writer)
      /\ DOMAIN told = 1 .. Len(told)
  BY <1>1
<1>6. 1 .. Len(writer) + 1 = 1 .. Len(writer) \cup {Len(writer) + 1}
  BY <1>5
<1> QED BY <1>1, <1>3, <1>4, <1>5, <1>6

\* Every step keeps SentAsItsWriter.
LEMMA SentStep ==
    ASSUME ClientInv, TokenInv, AppliedIsIssued, SentAsItsWriter, Next
    PROVE  AppliedIsIssued' /\ SentAsItsWriter'
<1>1. CASE UNCHANGED <<applied, refused, writer>>
  BY <1>1 DEF AppliedIsIssued, SentAsItsWriter
<1>2. CASE IssuesWrite
  <2>1. applied' = applied /\ refused' = refused
    BY <1>2 DEF IssuesWrite, serverVars
  <2> QED BY <1>2, <2>1, IssuedWriters DEF AppliedIsIssued, SentAsItsWriter
<1>3. CASE ServerApplies
  <2>1. /\ verdict = "none" /\ wire # <<>> /\ Head(wire) # Handshake
        /\ applied' = applied \cup {<<Head(wire), stream.token>>}
        /\ writer' = writer /\ refused' = refused
    BY <1>3 DEF ServerApplies, history
  <2>2. /\ IsOpen(stream) /\ Head(wire) \in 1 .. Len(writer)
        /\ writer[Head(wire)] = user
    BY <2>1, NextMessage
  <2>3. stream.token = user
    BY <2>2 DEF TokenInv, TokenIsUsers
  <2>4. DOMAIN writer = 1 .. Len(writer)
    BY DEF ClientInv, TypeOK
  <2> QED BY <2>1, <2>2, <2>3, <2>4 DEF AppliedIsIssued, SentAsItsWriter
<1>4. CASE ServerRefuses
  <2>1. /\ verdict = "none" /\ wire # <<>>
        /\ refused' = refused \cup ({Head(wire)} \ {Handshake})
        /\ UNCHANGED <<applied, writer>>
    BY <1>4 DEF ServerRefuses, history
  <2>2. Head(wire) # Handshake => Head(wire) \in DOMAIN writer
    BY <2>1, NextMessage DEF ClientInv, TypeOK
  <2> QED BY <2>1, <2>2 DEF AppliedIsIssued, SentAsItsWriter
<1> QED
  BY <1>1, <1>2, <1>3, <1>4, StepKinds
     DEF KeepsCall, GivesUp, TellsHead, DropsHead, SettlesAnswered, ShakesHands,
         ServerShakesHands, ConnectionBreaks, serverVars, history

\* Sending keeps the message that the backend handles next.
LEMMA WireKeepsHead ==
    ASSUME ClientInv, WireGrows, wire # <<>>
    PROVE  wire' # <<>> /\ Head(wire') = Head(wire)
<1>1. wire \in Seq(Nat)
  BY DEF ClientInv, TypeOK
<1>2. CASE wire' = wire
  BY <1>2
<1>3. CASE \E new \in Seq(Nat) : wire' = wire \o new
  <2>1. PICK new \in Seq(Nat) : wire' = wire \o new
    BY <1>3
  <2>2. /\ Len(wire') = Len(wire) + Len(new) /\ wire' \in Seq(Nat)
        /\ 1 \in 1 .. Len(wire) /\ Len(new) \in Nat /\ Len(wire) \in Nat
        /\ \A i \in 1 .. Len(wire) + Len(new) :
               wire'[i] = IF i <= Len(wire) THEN wire[i] ELSE new[i - Len(wire)]
    BY <1>1, <2>1, ConcatProperties
  <2>3. wire'[1] = wire[1] /\ Len(wire') # 0
    BY <2>2
  <2>4. Head(wire') = wire'[1] /\ Head(wire) = wire[1]
    BY <1>1, <2>2, <2>3
  <2> QED BY <2>3, <2>4
<1> QED BY <1>2, <1>3 DEF WireGrows

\* Every step keeps AnswersAreTrue.
LEMMA AnswersStep ==
    ASSUME ClientInv, TokenInv, AnswersAreTrue, Next
    PROVE  AnswersAreTrue'
<1>1. /\ wire \in Seq(Nat) /\ answers \in Seq(Nat) /\ user \in Users
      /\ server \in [Users -> Nat]
  BY DEF ClientInv, TypeOK
<1>2. CASE KeepsCall
  BY <1>2 DEF KeepsCall, AnswersAreTrue, serverVars, callVars
<1>3. CASE CallEnds
  BY <1>3 DEF CallEnds, AnswersAreTrue
<1>4. CASE IssuesWrite
  <2>1. /\ stream'.handshake = stream.handshake
        /\ UNCHANGED <<user, server, applied, refused, answers, verdict>>
    BY <1>4 DEF IssuesWrite, serverVars
  <2>2. wire # <<>> => wire' # <<>> /\ Head(wire') = Head(wire)
    BY <1>4, WireKeepsHead DEF IssuesWrite
  <2> QED BY <2>1, <2>2 DEF AnswersAreTrue
<1>5. CASE SettlesAnswered
  <2>1. /\ stream.handshake /\ answers # <<>> /\ answers' = Tail(answers)
        /\ UNCHANGED <<user, server, applied, refused, verdict>>
    BY <1>5 DEF SettlesAnswered, serverVars
  <2>2. wire # <<>> => wire' # <<>> /\ Head(wire') = Head(wire)
    BY <1>5, WireKeepsHead DEF SettlesAnswered
  <2> DEFINE n == Len(answers)
  <2>3. /\ \A i \in DOMAIN answers' : i + 1 \in DOMAIN answers
                                     /\ answers'[i] = answers[i + 1]
        /\ answers' # <<>> => answers'[Len(answers')] = answers[n]
    <3>1. /\ answers' \in Seq(Nat) /\ Len(answers') = n - 1 /\ n \in Nat
          /\ \A i \in 1 .. n - 1 : answers'[i] = answers[i + 1]
          /\ DOMAIN answers = 1 .. n
      BY <1>1, <2>1
    <3>2. DOMAIN answers' = 1 .. n - 1
      BY <3>1
    <3>3. answers' # <<>> => Len(answers') # 0
      BY <3>1
    <3> HIDE DEF n
    <3>4. n - 1 # 0 => (n - 1 \in 1 .. n - 1 /\ (n - 1) + 1 = n) \/ n = 0
      BY <3>1
    <3>5. n # 0
      BY <1>1, <2>1 DEF n
    <3>6. answers' # <<>> => answers'[Len(answers')] = answers[n]
      BY <3>1, <3>3, <3>4, <3>5
    <3>7. \A i \in 1 .. n - 1 : i + 1 \in 1 .. n
      BY <3>1
    <3> QED BY <3>1, <3>2, <3>6, <3>7
  <2> HIDE DEF n
  <2> QED BY <2>1, <2>2, <2>3 DEF AnswersAreTrue, n
<1>6. CASE ShakesHands
  <2>1. /\ answers' = <<>> /\ wire = <<>> /\ verdict' = verdict
    BY <1>6 DEF ShakesHands
  <2>2. verdict # "permanent"
    BY <2>1 DEF AnswersAreTrue
  <2> QED BY <2>1, <2>2 DEF AnswersAreTrue
<1>7. CASE ServerShakesHands
  <2>1. /\ verdict = "none" /\ wire # <<>> /\ Head(wire) = Handshake
        /\ verdict' = "none" /\ stream' = stream
    BY <1>7 DEF ServerShakesHands
  <2>2. ~stream.handshake
    BY <2>1, NextMessage
  <2> QED BY <2>1, <2>2 DEF AnswersAreTrue
<1>8. CASE ServerApplies
  <2> DEFINE h == Head(wire)
             n == Len(answers) + 1
  <2>1. /\ verdict = "none" /\ wire # <<>> /\ h # Handshake
        /\ answers' = Append(answers, h)
        /\ server' = [server EXCEPT ![writer[h]] = h]
        /\ applied' = applied \cup {<<h, stream.token>>}
        /\ stream' = stream /\ verdict' = "none" /\ user' = user
    BY <1>8 DEF ServerApplies, clientVars
  <2>2. IsOpen(stream) /\ stream.handshake /\ writer[h] = user
    BY <2>1, NextMessage
  <2>3. stream.token = user
    BY <2>2 DEF TokenInv, TokenIsUsers
  <2>4. h \in Nat
    BY <1>1, <2>1
  <2> HIDE DEF h
  <2>5. /\ DOMAIN answers' = DOMAIN answers \cup {n}
        /\ \A i \in DOMAIN answers : answers'[i] = answers[i]
        /\ answers'[n] = h /\ Len(answers') = n
    BY <1>1, <2>1, <2>4
  <2> HIDE DEF n
  <2>6. server'[user] = h
    BY <1>1, <2>1, <2>2
  <2> QED BY <2>1, <2>2, <2>3, <2>5, <2>6 DEF AnswersAreTrue
<1>9. CASE ServerRefuses
  <2>1. /\ verdict = "none" /\ wire # <<>>
        /\ refused' = refused \cup ({Head(wire)} \ {Handshake})
        /\ UNCHANGED <<stream, wire, answers, server, applied, user>>
    BY <1>9 DEF ServerRefuses, clientVars
  <2>2. stream.handshake => Head(wire) # Handshake
    BY <2>1, NextMessage
  <2> QED BY <2>1, <2>2 DEF AnswersAreTrue
<1>10. CASE ConnectionBreaks
  BY <1>10 DEF ConnectionBreaks, AnswersAreTrue
<1> QED BY <1>2, <1>3, <1>4, <1>5, <1>6, <1>7, <1>8, <1>9, <1>10, StepKinds
           DEF GivesUp, TellsHead, DropsHead

\* A queue that loses its head holds nothing new.
LEMMA TailOfQueue ==
    ASSUME ClientInv, pipeline # <<>>,
           queue' = [queue EXCEPT ![user] = Tail(@)]
    PROVE  \A u \in Users : \A i \in DOMAIN queue'[u] :
               \E j \in DOMAIN queue[u] : queue'[u][i] = queue[u][j]
<1> SUFFICES ASSUME NEW u \in Users, NEW i \in DOMAIN queue'[u]
             PROVE  \E j \in DOMAIN queue[u] : queue'[u][i] = queue[u][j]
  OBVIOUS
<1>1. queue \in [Users -> Seq(Batch)] /\ user \in Users
  BY DEF ClientInv, TypeOK
<1>2. CASE u # user
  BY <1>1, <1>2
<1>3. CASE u = user
  <2> DEFINE q == queue[user]
             t == Tail(q)
  <2>1. queue'[u] = t /\ q \in Seq(Batch)
    BY <1>1, <1>3
  <2>2. q # <<>>
    BY HeadWriteIs
  <2>3. /\ Len(t) = Len(q) - 1 /\ t \in Seq(Batch) /\ Len(q) \in Nat
        /\ \A k \in 1 .. Len(q) - 1 : t[k] = q[k + 1]
    BY <2>1, <2>2
  <2> HIDE DEF q, t
  <2>4. i \in 1 .. Len(q) - 1 /\ DOMAIN q = 1 .. Len(q)
    <3>1. DOMAIN t = 1 .. Len(q) - 1 /\ DOMAIN q = 1 .. Len(q)
      BY <2>1, <2>3
    <3> QED BY <2>1, <3>1
  <2>5. i + 1 \in DOMAIN q /\ t[i] = q[i + 1]
    BY <2>3, <2>4
  <2> QED BY <1>3, <2>1, <2>5 DEF q
<1> QED BY <1>2, <1>3

\* Every step keeps ToldIsHead.
LEMMA ToldHeadStep ==
    ASSUME ClientInv, TokenInv, ToldIsHead, Next
    PROVE  ToldIsHead'
<1>1. /\ queue \in [Users -> Seq(Batch)] /\ user \in Users
      /\ writer \in Seq(Users) /\ told \in Seq(Outcomes)
      /\ DOMAIN told = DOMAIN writer
  BY DEF ClientInv, TypeOK, Outcomes
<1>2. CASE UNCHANGED <<queue, writer, told>>
  BY <1>2 DEF ToldIsHead
<1>3. ASSUME pipeline # <<>>, NEW o \in {"ok", "error"}, writer' = writer,
             told' \in {told, [told EXCEPT ![HeadWrite] = o]},
             \/ queue' = queue
             \/ queue' = [queue EXCEPT ![user] = Tail(@)]
      PROVE  ToldIsHead'
  <2>1. /\ HeadWrite \in DOMAIN told /\ writer[HeadWrite] = user
        /\ HeadWrite \in Nat
        /\ \A i \in DOMAIN queue[user] :
               queue[user][i].w \in Nat /\ HeadWrite <= queue[user][i].w
    BY <1>3, HeadWriteIs
  <2>2. \A u \in Users : \A i \in DOMAIN queue'[u] :
            \E j \in DOMAIN queue[u] : queue'[u][i] = queue[u][j]
    BY <1>3, TailOfQueue
  <2> SUFFICES ASSUME NEW w \in DOMAIN told', told'[w] = "ok",
                      NEW i \in DOMAIN queue'[writer[w]]
               PROVE  queue'[writer[w]][i].w >= w
    BY <1>3 DEF ToldIsHead
  <2>3. w \in DOMAIN told /\ writer[w] \in Users
    <3>1. DOMAIN told' = DOMAIN told
      BY <1>1, <1>3
    <3> QED BY <1>1, <3>1
  <2>4. PICK j \in DOMAIN queue[writer[w]] :
            queue'[writer[w]][i] = queue[writer[w]][j]
    BY <2>2, <2>3
  <2>5. CASE w = HeadWrite
    BY <2>1, <2>4, <2>5
  <2>6. CASE w # HeadWrite
    <3>1. told[w] = "ok"
      BY <1>1, <1>3, <2>3, <2>6
    <3> QED BY <2>3, <2>4, <3>1 DEF ToldIsHead
  <2> QED BY <2>5, <2>6
<1>4. CASE TellsHead \/ DropsHead \/ SettlesAnswered
  BY <1>3, <1>4 DEF TellsHead, DropsHead, SettlesAnswered, HeadWrite
<1>5. CASE IssuesWrite
  <2> DEFINE n == Len(writer) + 1
             q == queue[user]
  <2>1. /\ DOMAIN told' = DOMAIN told \cup {n}
        /\ DOMAIN writer = 1 .. Len(writer)
        /\ \A w \in DOMAIN writer : writer'[w] = writer[w]
        /\ \A w \in DOMAIN told : told'[w] = told[w]
        /\ told'[n] = "waiting"
    BY <1>5, IssuedWriters
  <2>2. /\ queue' = [queue EXCEPT ![user] = Append(q, NewBatch)]
        /\ Len(writer) < MaxWrites
    BY <1>5 DEF IssuesWrite
  <2>3. LET r == Append(q, NewBatch)
        IN  /\ NewBatch.w = n /\ r \in Seq(Batch)
            /\ Len(r) = Len(q) + 1
            /\ \A i \in 1 .. Len(q) : r[i] = q[i]
            /\ r[Len(q) + 1] = NewBatch
    BY <2>2, NewBatchIs
  <2> SUFFICES ASSUME NEW w \in DOMAIN told', told'[w] = "ok",
                      NEW i \in DOMAIN queue'[writer'[w]]
               PROVE  queue'[writer'[w]][i].w >= w
    BY DEF ToldIsHead
  <2>4. /\ w \in DOMAIN told /\ told[w] = "ok" /\ writer'[w] = writer[w]
        /\ writer[w] \in Users
    BY <1>1, <2>1
  <2>5. w \in 1 .. Len(writer) /\ Len(writer) \in Nat
    BY <1>1, <2>1, <2>4
  <2>6. w < n /\ w \in Nat /\ n \in Nat
    BY <2>5
  <2>7. CASE writer[w] # user
    <3>1. queue'[writer[w]] = queue[writer[w]]
      BY <1>1, <2>2, <2>4, <2>7
    <3> QED BY <2>4, <3>1 DEF ToldIsHead
  <2>8. CASE writer[w] = user
    <3> DEFINE r == Append(q, NewBatch)
    <3>1. queue'[writer'[w]] = r
      BY <1>1, <2>2, <2>4, <2>8
    <3>2. q \in Seq(Batch) /\ DOMAIN q = 1 .. Len(q) /\ Len(q) \in Nat
      BY <1>1
    <3>3. DOMAIN r = 1 .. Len(q) + 1
      BY <2>3
    <3>4. \A k \in DOMAIN q : q[k].w >= w
      BY <2>4, <2>8 DEF ToldIsHead
    <3> HIDE DEF r, q, n
    <3>5. i \in DOMAIN q \/ i = Len(q) + 1
      BY <3>1, <3>2, <3>3
    <3>6. CASE i \in DOMAIN q
      <4>1. r[i] = q[i]
        BY <2>3, <3>2, <3>6 DEF r
      <4> QED BY <3>1, <3>4, <3>6, <4>1
    <3>7. CASE i = Len(q) + 1
      <4>1. r[i].w = n
        BY <2>3, <3>7 DEF r
      <4>2. n >= w
        BY <2>6
      <4> QED BY <3>1, <4>1, <4>2
    <3> QED BY <3>5, <3>6, <3>7
  <2> QED BY <2>7, <2>8
<1> QED
  BY <1>2, <1>4, <1>5, StepKinds
     DEF KeepsCall, GivesUp, ShakesHands, ServerShakesHands, ServerApplies,
         ServerRefuses, ConnectionBreaks, clientVars, history

\* The backend applied the head of the queue when an answer is under way.
LEMMA HeadWasApplied ==
    ASSUME ClientInv, AnswersAreTrue, stream.handshake, answers # <<>>
    PROVE  /\ \E a \in applied : a[1] = HeadWrite
           /\ server[user] >= HeadWrite
           /\ pipeline # <<>>
<1>1. /\ pipeline # <<>>
      /\ 1 \in DOMAIN answers /\ answers[1] = HeadWrite
      /\ answers[Len(answers)] >= HeadWrite
  BY AnswerIsHeads
<1>2. <<answers[1], user>> \in applied
  BY <1>1 DEF AnswersAreTrue
<1>3. server[user] = answers[Len(answers)]
  BY DEF AnswersAreTrue
<1> QED BY <1>1, <1>2, <1>3

\* The backend applied w.
WasApplied(w) == \E a \in applied : a[1] = w

\* What the caller of w may be told, as TellsTheTruth says.
Truthful(w, outcome) ==
    /\ outcome = "ok" => WasApplied(w)
    /\ outcome = "error" =>
           \/ w \in refused
           \/ WasApplied(w) /\ \E v \in refused : w < v /\ writer[v] = writer[w]

\* It is TellsTheTruth, write by write.
LEMMA TruthIs ==
    TellsTheTruth <=> \A w \in DOMAIN told : \A o : told[w] = o => Truthful(w, o)
BY DEF TellsTheTruth, Truthful, WasApplied

\* Every step keeps TellsTheTruth.
LEMMA TruthStep ==
    ASSUME ClientInv, TruthInv, Next
    PROVE  TellsTheTruth'
<1>0. SUFFICES \A w \in DOMAIN told' : \A o : told'[w] = o => Truthful(w, o)'
  BY DEF TellsTheTruth, Truthful, WasApplied
<1>1. /\ told \in Seq(Outcomes) /\ DOMAIN told = DOMAIN writer
  BY DEF ClientInv, TypeOK, Outcomes
<1>2. \A w \in DOMAIN told : \A o : told[w] = o => Truthful(w, o)
  BY TruthIs DEF TruthInv
<1>3. CASE UNCHANGED <<told, writer>> /\ applied \subseteq applied' /\ refused \subseteq refused'
  BY <1>2, <1>3 DEF Truthful, WasApplied
<1>4. ASSUME NEW outcome, UNCHANGED <<applied, refused, writer>>,
             told' \in {told, [told EXCEPT ![HeadWrite] = outcome]},
             Truthful(HeadWrite, outcome)
      PROVE  \A w \in DOMAIN told' : \A o : told'[w] = o => Truthful(w, o)'
  <2> SUFFICES ASSUME NEW w \in DOMAIN told', NEW o, told'[w] = o PROVE Truthful(w, o)
    BY <1>4 DEF Truthful, WasApplied
  <2>1. w \in DOMAIN told
    BY <1>1, <1>4
  <2>2. told'[w] = told[w] \/ (w = HeadWrite /\ told'[w] = outcome)
    BY <1>1, <1>4, <2>1
  <2> QED BY <1>2, <1>4, <2>1, <2>2
<1>5. CASE TellsHead \/ SettlesAnswered
  <2>1. /\ told' \in {told, [told EXCEPT ![HeadWrite] = "ok"]}
        /\ stream.handshake /\ answers # <<>>
        /\ UNCHANGED <<applied, refused, writer>>
    BY <1>5 DEF TellsHead, SettlesAnswered, serverVars, HeadWrite
  <2>2. WasApplied(HeadWrite)
    BY <2>1, HeadWasApplied DEF TruthInv, WasApplied
  <2>3. Truthful(HeadWrite, "ok")
    BY <2>2 DEF Truthful
  <2> QED BY <1>4, <2>1, <2>3
<1>6. CASE DropsHead
  <2>1. /\ told' \in {told, [told EXCEPT ![HeadWrite] = "error"]}
        /\ stream.handshake /\ verdict = "permanent" /\ pipeline # <<>>
        /\ UNCHANGED <<applied, refused, writer>>
    BY <1>6 DEF DropsHead, serverVars, HeadWrite
  <2>2. wire # <<>> /\ Head(wire) \in refused
    BY <2>1 DEF TruthInv, AnswersAreTrue
  <2>3. CASE answers = <<>>
    <3>1. HeadWrite \in refused
      BY <2>1, <2>2, <2>3, RefusedIsLater
    <3>2. Truthful(HeadWrite, "error")
      BY <3>1 DEF Truthful
    <3> QED BY <1>4, <2>1, <3>2
  <2>4. CASE answers # <<>>
    <3>1. WasApplied(HeadWrite)
      BY <2>1, <2>4, HeadWasApplied DEF TruthInv, WasApplied
    <3>2. HeadWrite < Head(wire) /\ writer[Head(wire)] = user
      BY <2>1, <2>2, <2>4, RefusedIsLater
    <3>3. writer[HeadWrite] = user
      BY <2>1, HeadWriteIs
    <3>4. Truthful(HeadWrite, "error")
      BY <2>2, <3>1, <3>2, <3>3 DEF Truthful
    <3> QED BY <1>4, <2>1, <3>4
  <2> QED BY <2>3, <2>4
<1>7. CASE IssuesWrite
  <2>1. UNCHANGED <<applied, refused>>
    BY <1>7 DEF IssuesWrite, serverVars
  <2>2. /\ DOMAIN told' = DOMAIN told \cup {Len(writer) + 1}
        /\ \A w \in DOMAIN told : told'[w] = told[w]
        /\ told'[Len(writer) + 1] = "waiting"
        /\ \A w \in DOMAIN writer : writer'[w] = writer[w]
    BY <1>7, IssuedWriters
  <2>3. refused \subseteq DOMAIN writer
    BY DEF TruthInv, AppliedIsIssued
  <2> SUFFICES ASSUME NEW w \in DOMAIN told', NEW o, told'[w] = o PROVE Truthful(w, o)'
    OBVIOUS
  <2>4. CASE w \in DOMAIN told
    <3>1. Truthful(w, o) /\ writer'[w] = writer[w]
      BY <1>1, <1>2, <2>2, <2>4
    <3> QED BY <2>1, <2>2, <2>3, <3>1 DEF Truthful, WasApplied
  <2>5. CASE w = Len(writer) + 1
    BY <2>2, <2>5 DEF Truthful
  <2> QED BY <2>2, <2>4, <2>5
<1> QED
  BY <1>3, <1>5, <1>6, <1>7, StepKinds
     DEF KeepsCall, GivesUp, ShakesHands, ServerShakesHands, ServerApplies,
         ServerRefuses, ConnectionBreaks, serverVars, history

\* Every step keeps NeverBehindAcknowledged.
LEMMA BehindStep ==
    ASSUME ClientInv, TruthInv, Next
    PROVE  NeverBehindAcknowledged'
<1>1. /\ told \in Seq(Outcomes) /\ DOMAIN told = DOMAIN writer
      /\ server \in [Users -> Nat] /\ writer \in Seq(Users) /\ user \in Users
      /\ queue \in [Users -> Seq(Batch)]
  BY DEF ClientInv, TypeOK, Outcomes
<1>2. CASE UNCHANGED <<told, server, writer>>
  BY <1>2 DEF TruthInv, NeverBehindAcknowledged
<1>3. CASE TellsHead \/ SettlesAnswered
  <2>1. /\ told' \in {told, [told EXCEPT ![HeadWrite] = "ok"]}
        /\ stream.handshake /\ answers # <<>>
        /\ UNCHANGED <<server, writer>>
    BY <1>3 DEF TellsHead, SettlesAnswered, serverVars, HeadWrite
  <2>2. server[user] >= HeadWrite /\ pipeline # <<>>
    BY <2>1, HeadWasApplied DEF TruthInv
  <2>3. writer[HeadWrite] = user
    BY <2>2, HeadWriteIs
  <2> SUFFICES ASSUME NEW w \in DOMAIN told', told'[w] = "ok"
               PROVE  server[writer[w]] >= w
    BY <2>1 DEF NeverBehindAcknowledged
  <2>4. w \in DOMAIN told
    BY <1>1, <2>1
  <2>5. told[w] = "ok" \/ w = HeadWrite
    BY <1>1, <2>1, <2>4
  <2>6. CASE w = HeadWrite
    BY <2>2, <2>3, <2>6
  <2>7. CASE told[w] = "ok"
    BY <2>4, <2>7 DEF TruthInv, NeverBehindAcknowledged
  <2> QED BY <2>5, <2>6, <2>7
<1>4. CASE DropsHead
  <2>1. /\ told' \in {told, [told EXCEPT ![HeadWrite] = "error"]}
        /\ UNCHANGED <<server, writer>>
    BY <1>4 DEF DropsHead, serverVars, HeadWrite
  <2> SUFFICES ASSUME NEW w \in DOMAIN told', told'[w] = "ok"
               PROVE  server[writer[w]] >= w
    BY <2>1 DEF NeverBehindAcknowledged
  <2>2. w \in DOMAIN told
    BY <1>1, <2>1
  <2>3. told[w] = "ok"
    BY <1>1, <2>1, <2>2
  <2> QED BY <2>2, <2>3 DEF TruthInv, NeverBehindAcknowledged
<1>5. CASE IssuesWrite
  <2>1. server' = server
    BY <1>5 DEF IssuesWrite, serverVars
  <2>2. /\ DOMAIN told' = DOMAIN told \cup {Len(writer) + 1}
        /\ \A w \in DOMAIN told : told'[w] = told[w]
        /\ \A w \in DOMAIN writer : writer'[w] = writer[w]
        /\ told'[Len(writer) + 1] = "waiting"
    BY <1>5, IssuedWriters
  <2> QED BY <1>1, <2>1, <2>2 DEF TruthInv, NeverBehindAcknowledged
<1>6. CASE ServerApplies
  <2> DEFINE h == Head(wire)
             k == Len(answers) + 1
  <2>1. /\ verdict = "none" /\ wire # <<>> /\ h # Handshake
        /\ server' = [server EXCEPT ![writer[h]] = h]
        /\ UNCHANGED <<told, writer>>
    BY <1>6 DEF ServerApplies, history
  <2>2. /\ k \in DOMAIN queue[user] /\ h = queue[user][k].w /\ writer[h] = user
    BY <2>1, NextMessage
  <2> HIDE DEF h, k
  <2> SUFFICES ASSUME NEW w \in DOMAIN told, told[w] = "ok"
               PROVE  server'[writer[w]] >= w
    BY <2>1 DEF NeverBehindAcknowledged
  <2>3. CASE writer[w] = user
    <3>1. server'[user] = h
      BY <1>1, <2>1, <2>2
    <3>2. queue[writer[w]][k].w >= w
      BY <2>2, <2>3 DEF TruthInv, ToldIsHead
    <3> QED BY <2>2, <2>3, <3>1, <3>2
  <2>4. CASE writer[w] # user
    <3>1. writer[w] \in Users
      BY <1>1
    <3>2. server'[writer[w]] = server[writer[w]]
      BY <1>1, <2>1, <2>2, <2>4, <3>1
    <3> QED BY <3>2 DEF TruthInv, NeverBehindAcknowledged
  <2> QED BY <2>3, <2>4
<1> QED
  BY <1>2, <1>3, <1>4, <1>5, <1>6, StepKinds
     DEF KeepsCall, GivesUp, ShakesHands, ServerShakesHands,
         ServerRefuses, ConnectionBreaks, serverVars, history

\* The inductive invariant of the write path and the backend.
PromiseInv == ClientInv /\ TokenInv /\ TruthInv

\* PromiseInv holds initially.
LEMMA PromiseInvInit ==
    ASSUME Init
    PROVE  PromiseInv
<1>1. ClientInv
  BY ClientInvInit
<1>2. TruthInv
  BY DEF Init, TruthInv, AppliedIsIssued, SentAsItsWriter, AnswersAreTrue,
         ToldIsHead, TellsTheTruth, NeverBehindAcknowledged, InitialStream
<1>3. Notifies(<<>>, user, user) /\ FreshFit(<<>>, user) /\ LiveFit(<<>>, user)
  BY DEF Notifies, FreshFit, LiveFit
<1>4. InitialStream.state = "Initial"
  BY InitialStreamIs
<1>5. TokenInv
  BY <1>3, <1>4 DEF Init, TokenInv, UsersFollow, TokenIsUsers, IsOpen
<1> QED BY <1>1, <1>2, <1>5 DEF PromiseInv

\* Every step keeps PromiseInv.
LEMMA PromiseInvNext ==
    ASSUME PromiseInv, [Next]_vars
    PROVE  PromiseInv'
<1>1. ClientInv'
  BY ClientInvNext DEF PromiseInv
<1>2. CASE Next
  <2>1. TokenInv'
    BY <1>2, TokenStep DEF PromiseInv
  <2>2. TruthInv'
    BY <1>2, SentStep, AnswersStep, ToldHeadStep, TruthStep, BehindStep
       DEF PromiseInv, TruthInv
  <2> QED BY <1>1, <2>1, <2>2 DEF PromiseInv
<1>3. CASE UNCHANGED vars
  <2>1. UNCHANGED <<authUser, mainQ, workerQ, user, queue, stream, wire, answers,
                    verdict, server, applied, refused, writer, told>>
    BY <1>3 DEF vars, authVars, clientVars, callVars, serverVars, history
  <2>2. TokenInv'
    BY <2>1 DEF PromiseInv, TokenInv, UsersFollow, TokenIsUsers
  <2>3. TruthInv'
    BY <2>1 DEF PromiseInv, TruthInv, AppliedIsIssued, SentAsItsWriter,
                AnswersAreTrue, ToldIsHead, TellsTheTruth,
                NeverBehindAcknowledged
  <2> QED BY <1>1, <2>2, <2>3 DEF PromiseInv
<1> QED BY <1>2, <1>3

\* PromiseInv always holds: what RemoteStore, its stream, FIRAuth's tokens and
\* the backend promise the callers of SyncEngine.
THEOREM PromisesAreKept == Spec => []PromiseInv
<1>1. Init => PromiseInv
  BY PromiseInvInit
<1>2. PromiseInv /\ [Next]_vars => PromiseInv'
  BY PromiseInvNext
<1> QED BY <1>1, <1>2, PTL DEF Spec

\* A write is carried out only in the name of the user who issued it, although
\* HandleCredentialChange and the token of a call that starts arrive on the
\* worker's executor in any order with respect to each other's requests.
THEOREM AlwaysSentAsItsWriter == Spec => []SentAsItsWriter
<1>1. PromiseInv => SentAsItsWriter
  BY DEF PromiseInv, TruthInv
<1> QED BY <1>1, PromisesAreKept, PTL

\* NotifyUser tells a caller "ok" only of a write that the backend carried out,
\* and "error" only of one it refused, or of one it carried out whose answer was
\* lost with the refusal of a later write of the same user.
THEOREM AlwaysTellsTheTruth == Spec => []TellsTheTruth
<1>1. PromiseInv => TellsTheTruth
  BY DEF PromiseInv, TruthInv
<1> QED BY <1>1, PromisesAreKept, PTL

\* Writes that are sent again after an error or a crash never take the backend
\* behind a write whose caller was told that it was done.
THEOREM AlwaysNeverBehind == Spec => []NeverBehindAcknowledged
<1>1. PromiseInv => NeverBehindAcknowledged
  BY DEF PromiseInv, TruthInv
<1> QED BY <1>1, PromisesAreKept, PTL

-----------------------------------------------------------------------------
(* The refinement of WriteQueue *)

\* The pending writes of WriteQueue, as the module FirestoreWrites maps them.
Pending == [u \in Users |-> Payload(queue[u])]

\* How far the backend got with the current user's pending writes on this call.
Cursor == [u \in Users |->
               IF u = user /\ stream.handshake THEN Len(answers) ELSE 0]

\* The writes of a queue with one more batch.
LEMMA PayloadAppend ==
    ASSUME NEW q \in Seq(Batch), NEW b \in Batch
    PROVE  Payload(Append(q, b)) = Append(Payload(q), b.w)
<1> DEFINE p == Payload(q)
           s == Payload(Append(q, b))
           t == Append(p, b.w)
           n == Len(q)
<1>1. p \in Seq(Writes) /\ Len(p) = n /\ \A i \in 1 .. n : p[i] = q[i].w
  BY PayloadIs
<1>2. b.w \in Writes
  BY DEF Batch
<1>3. /\ Append(q, b) \in Seq(Batch) /\ Len(Append(q, b)) = n + 1 /\ n \in Nat
      /\ \A i \in 1 .. n : Append(q, b)[i] = q[i]
      /\ Append(q, b)[n + 1] = b
  OBVIOUS
<1>4. /\ s \in Seq(Writes) /\ Len(s) = n + 1
      /\ \A i \in 1 .. n + 1 : s[i] = Append(q, b)[i].w
  BY <1>3, PayloadIs
<1> HIDE DEF p, s
<1>5. /\ t \in Seq(Writes) /\ Len(t) = n + 1
      /\ \A i \in 1 .. n : t[i] = p[i]
      /\ t[n + 1] = b.w
  BY <1>1, <1>2
<1> HIDE DEF t, n
<1>6. ASSUME NEW i \in 1 .. n + 1 PROVE s[i] = t[i]
  <2>1. CASE i = n + 1
    BY <1>3, <1>4, <1>5, <2>1
  <2>2. CASE i # n + 1
    <3>1. i \in 1 .. n
      BY <1>3, <2>2
    <3> QED BY <1>1, <1>3, <1>4, <1>5, <3>1
  <2> QED BY <2>1, <2>2
<1>7. s = t
  BY <1>4, <1>5, <1>6, SeqEqual
<1> QED BY <1>7 DEF p, s, t

\* Removing the head of the queue removes the first pending write.
LEMMA PendingSettled ==
    ASSUME ClientInv, pipeline # <<>>,
           queue' = [queue EXCEPT ![user] = Tail(@)]
    PROVE  Pending' = [Pending EXCEPT ![user] = Tail(@)]
<1>1. queue \in [Users -> Seq(Batch)] /\ user \in Users
  BY DEF ClientInv, TypeOK
<1>2. Payload(Tail(queue[user])) = Tail(Payload(queue[user]))
  BY <1>1, HeadWriteIs, PayloadTail
<1>3. \A u \in Users : queue'[u] = IF u = user THEN Tail(queue[user]) ELSE queue[u]
  BY <1>1
<1>4. \A u \in Users : Payload(queue'[u]) = IF u = user
                           THEN Tail(Payload(queue[user])) ELSE Payload(queue[u])
  <2> SUFFICES ASSUME NEW u \in Users
               PROVE  Payload(queue'[u]) = IF u = user
                          THEN Tail(Payload(queue[user])) ELSE Payload(queue[u])
    OBVIOUS
  <2>1. CASE u = user
    <3>1. queue'[u] = Tail(queue[user])
      BY <1>3, <2>1
    <3> QED BY <1>2, <2>1, <3>1
  <2>2. CASE u # user
    <3>1. queue'[u] = queue[u]
      BY <1>3, <2>2
    <3> QED BY <2>2, <3>1
  <2> QED BY <2>1, <2>2
<1> QED BY <1>1, <1>4 DEF Pending

\* Issuing a write appends it to the pending ones.
LEMMA PendingIssued ==
    ASSUME ClientInv, IssuesWrite
    PROVE  Pending' = [Pending EXCEPT ![user] = Append(@, Len(told) + 1)]
<1>1. queue \in [Users -> Seq(Batch)] /\ user \in Users /\ Len(told) = Len(writer)
  BY DEF ClientInv, TypeOK
<1>2. /\ queue' = [queue EXCEPT ![user] = Append(queue[user], NewBatch)]
      /\ Len(writer) < MaxWrites
  BY DEF IssuesWrite
<1>3. NewBatch \in Batch /\ NewBatch.w = Len(told) + 1
  BY <1>1, <1>2, NewBatchIs
<1>4. Payload(Append(queue[user], NewBatch)) =
          Append(Payload(queue[user]), Len(told) + 1)
  BY <1>1, <1>3, PayloadAppend
<1>5. \A u \in Users : queue'[u] = IF u = user THEN Append(queue[user], NewBatch)
                                   ELSE queue[u]
  BY <1>1, <1>2
<1>6. \A u \in Users : Payload(queue'[u]) = IF u = user
          THEN Append(Payload(queue[user]), Len(told) + 1) ELSE Payload(queue[u])
  BY <1>4, <1>5
<1> QED BY <1>1, <1>6 DEF Pending

\* The first pending write is the head's.
LEMMA HeadIsPending ==
    ASSUME ClientInv, pipeline # <<>>
    PROVE  /\ Pending[user] = Payload(queue[user]) /\ Pending[user] # <<>>
           /\ Head(Pending[user]) = HeadWrite
<1>1. user \in Users /\ queue[user] \in Seq(Batch)
  BY DEF ClientInv, TypeOK
<1>2. Pending[user] = Payload(queue[user])
  BY <1>1 DEF Pending
<1>3. queue[user] # <<>>
  BY HeadWriteIs
<1> QED BY <1>1, <1>2, <1>3, PayloadTail DEF HeadWrite

\* A step that ends the call is a Rewind.
LEMMA RewindStep ==
    ASSUME UNCHANGED <<queue, server, told>>,
           ~stream'.handshake \/ answers' = <<>>
    PROVE  Promise!Rewind
<1>1. Pending' = Pending
  BY DEF Pending
<1>2. Cursor' = [u \in Users |-> 0]
  BY DEF Cursor
<1> QED BY <1>1, <1>2 DEF Promise!Rewind, Pending, Cursor

\* A step that settles, issues and applies nothing is a stutter.
LEMMA StutterStep ==
    ASSUME UNCHANGED <<queue, server, told, user>>,
           \/ stream'.handshake = stream.handshake /\ answers' = answers
           \/ ~stream.handshake /\ ~stream'.handshake
           \/ ~stream.handshake /\ answers' = <<>>
    PROVE  UNCHANGED Promise!vars
<1>1. Pending' = Pending
  BY DEF Pending
<1>2. Cursor' = Cursor
  BY DEF Cursor
<1> QED BY <1>1, <1>2 DEF Promise!vars, Pending, Cursor

\* Issuing a write is an Issue.
LEMMA IssueStep ==
    ASSUME ClientInv, IssuesWrite
    PROVE  Promise!Issue(user)
<1>1. /\ told' = Append(told, "waiting")
      /\ UNCHANGED <<user, server, answers>>
      /\ stream'.handshake = stream.handshake
  BY DEF IssuesWrite, serverVars
<1>2. Cursor' = Cursor
  BY <1>1 DEF Cursor
<1>3. Pending' = [Pending EXCEPT ![user] = Append(@, Len(told) + 1)]
  BY PendingIssued
<1> QED BY <1>1, <1>2, <1>3 DEF Promise!Issue, Pending, Cursor

\* A crash between telling and removing is a TellOnly.
LEMMA TellOnlyStep ==
    ASSUME ClientInv, TellsHead
    PROVE  Promise!TellOnly(user)
<1>1. /\ stream.handshake /\ answers # <<>> /\ pipeline # <<>>
      /\ told' \in {told, [told EXCEPT ![HeadWrite] = "ok"]}
      /\ UNCHANGED <<queue, server>> /\ ~stream'.handshake
  BY DEF TellsHead, serverVars, CallEnds, HeadWrite
<1>2. Pending' = Pending
  BY <1>1 DEF Pending
<1>3. Cursor' = [u \in Users |-> 0]
  BY <1>1 DEF Cursor
<1>4. user \in Users /\ answers \in Seq(Nat)
  BY DEF ClientInv, TypeOK
<1>5. Cursor[user] = Len(answers) /\ Len(answers) > 0
  BY <1>1, <1>4 DEF Cursor
<1>6. Head(Pending[user]) = HeadWrite
  BY <1>1, HeadIsPending
<1> QED BY <1>1, <1>2, <1>3, <1>5, <1>6
           DEF Promise!TellOnly, Promise!Tells, Pending, Cursor

\* A permanent error is a Refuse.
LEMMA RefuseStep ==
    ASSUME ClientInv, DropsHead
    PROVE  Promise!Refuse(user)
<1>1. /\ stream.handshake /\ pipeline # <<>>
      /\ queue' = [queue EXCEPT ![user] = Tail(@)]
      /\ told' \in {told, [told EXCEPT ![HeadWrite] = "error"]}
      /\ server' = server /\ ~stream'.handshake
  BY DEF DropsHead, serverVars, CallEnds, HeadWrite
<1>2. Pending' = [Pending EXCEPT ![user] = Tail(@)]
  BY <1>1, PendingSettled
<1>3. Cursor' = [u \in Users |-> 0]
  BY <1>1 DEF Cursor
<1>4. user \in Users
  BY DEF ClientInv, TypeOK
<1>5. Cursor' = [Cursor EXCEPT ![user] = 0]
  BY <1>3, <1>4 DEF Cursor
<1>6. Pending[user] # <<>> /\ Head(Pending[user]) = HeadWrite
  BY <1>1, HeadIsPending
<1> QED BY <1>1, <1>2, <1>5, <1>6
           DEF Promise!Refuse, Promise!Tells, Pending, Cursor

\* An answer is an Acknowledge.
LEMMA AcknowledgeStep ==
    ASSUME ClientInv, SettlesAnswered
    PROVE  Promise!Acknowledge(user)
<1>1. /\ stream.handshake /\ answers # <<>> /\ pipeline # <<>>
      /\ answers' = Tail(answers)
      /\ queue' = [queue EXCEPT ![user] = Tail(@)]
      /\ told' \in {told, [told EXCEPT ![HeadWrite] = "ok"]}
      /\ stream'.handshake /\ UNCHANGED <<user, server>>
  BY DEF SettlesAnswered, serverVars, HeadWrite
<1>2. Pending' = [Pending EXCEPT ![user] = Tail(@)]
  BY <1>1, PendingSettled
<1>3. user \in Users /\ answers \in Seq(Nat)
  BY DEF ClientInv, TypeOK
<1>4. Len(answers) > 0 /\ Len(answers') = Len(answers) - 1
  BY <1>1, <1>3
<1>5. Cursor[user] > 0 /\ Cursor' = [Cursor EXCEPT ![user] = @ - 1]
  BY <1>1, <1>3, <1>4 DEF Cursor
<1>6. Head(Pending[user]) = HeadWrite
  BY <1>1, HeadIsPending
<1> QED BY <1>1, <1>2, <1>5, <1>6
           DEF Promise!Acknowledge, Promise!Tells, Pending, Cursor

\* Applying a write is an Apply.
LEMMA ApplyStep ==
    ASSUME ClientInv, ServerApplies
    PROVE  Promise!Apply(user)
<1> DEFINE h == Head(wire)
           n == Len(answers)
           q == queue[user]
<1>1. /\ verdict = "none" /\ wire # <<>> /\ h # Handshake
      /\ answers' = Append(answers, h)
      /\ server' = [server EXCEPT ![writer[h]] = h]
      /\ UNCHANGED <<stream, user, queue, told>>
  BY DEF ServerApplies, clientVars, history
<1>2. /\ stream.handshake /\ n + 1 \in DOMAIN q /\ h = q[n + 1].w
      /\ writer[h] = user
  BY <1>1, NextMessage
<1>3. user \in Users /\ answers \in Seq(Nat) /\ q \in Seq(Batch) /\ wire \in Seq(Nat)
  BY DEF ClientInv, TypeOK
<1>4. h \in Nat
  BY <1>1, <1>3
<1>5. Len(answers') = n + 1 /\ n \in Nat /\ Len(q) \in Nat
  BY <1>1, <1>3, <1>4
<1>6. Cursor[user] = n /\ Cursor' = [Cursor EXCEPT ![user] = @ + 1]
  BY <1>1, <1>2, <1>3, <1>5 DEF Cursor
<1>7. Pending' = Pending
  BY <1>1 DEF Pending
<1>8. Pending[user] = Payload(q)
  BY <1>3 DEF Pending
<1>9. Len(Payload(q)) = Len(q) /\ \A i \in 1 .. Len(q) : Payload(q)[i] = q[i].w
  BY <1>3, PayloadIs
<1>10. n + 1 \in 1 .. Len(q)
  BY <1>2, <1>3
<1> HIDE DEF n, q, h
<1>11. n < Len(q)
  BY <1>5, <1>10
<1>12. Pending[user][Cursor[user] + 1] = h /\ Cursor[user] < Len(Pending[user])
  BY <1>2, <1>6, <1>8, <1>9, <1>10, <1>11
<1>13. server' = [server EXCEPT ![user] = Pending[user][Cursor[user] + 1]]
  BY <1>1, <1>2, <1>12
<1> QED BY <1>1, <1>6, <1>7, <1>12, <1>13 DEF Promise!Apply, Pending, Cursor

\* Every step is a step of WriteQueue or a stutter.
LEMMA QueueRefines ==
    ASSUME ClientInv, [Next]_vars
    PROVE  [Promise!Next]_(Promise!vars)
<1>1. user \in Users
  BY DEF ClientInv, TypeOK
<1>2. CASE UNCHANGED vars
  <2>1. UNCHANGED <<queue, server, told, user, stream, answers>>
    BY <1>2 DEF vars, clientVars, callVars, serverVars, history
  <2> QED BY <2>1, StutterStep
<1>3. CASE KeepsCall
  BY <1>3, StutterStep DEF KeepsCall, serverVars, callVars
<1>4. CASE GivesUp
  <2>1. Promise!Rewind
    BY <1>4, RewindStep DEF GivesUp, CallEnds, serverVars
  <2> QED BY <2>1 DEF Promise!Next
<1>5. CASE TellsHead
  <2>1. Promise!TellOnly(user)
    BY <1>5, TellOnlyStep
  <2>2. \E u \in Users : Promise!TellOnly(u)
    BY <1>1, <2>1, Zenon DEF Promise!TellOnly
  <2> QED BY <2>2 DEF Promise!Next
<1>6. CASE DropsHead
  <2>1. Promise!Refuse(user)
    BY <1>6, RefuseStep
  <2>2. \E u \in Users : Promise!Refuse(u)
    BY <1>1, <2>1, Zenon DEF Promise!Refuse
  <2> QED BY <2>2 DEF Promise!Next
<1>7. CASE IssuesWrite
  <2>1. Promise!Issue(user)
    BY <1>7, IssueStep
  <2>2. \E u \in Users : Promise!Issue(u)
    BY <1>1, <2>1, Zenon DEF Promise!Issue
  <2> QED BY <2>2 DEF Promise!Next
<1>8. CASE SettlesAnswered
  <2>1. Promise!Acknowledge(user)
    BY <1>8, AcknowledgeStep
  <2>2. \E u \in Users : Promise!Acknowledge(u)
    BY <1>1, <2>1, Zenon DEF Promise!Acknowledge
  <2> QED BY <2>2 DEF Promise!Next
<1>9. CASE ShakesHands
  BY <1>9, StutterStep DEF ShakesHands, serverVars
<1>10. CASE ServerShakesHands
  <2>1. /\ verdict = "none" /\ wire # <<>> /\ Head(wire) = Handshake
        /\ UNCHANGED <<queue, server, told, user, stream>>
    BY <1>10 DEF ServerShakesHands, clientVars, serverVars, history
  <2>2. ~stream.handshake
    BY <2>1, NextMessage
  <2> QED BY <2>1, <2>2, StutterStep
<1>11. CASE ServerApplies
  <2>1. Promise!Apply(user)
    BY <1>11, ApplyStep
  <2>2. \E u \in Users : Promise!Apply(u)
    BY <1>1, <2>1, Zenon DEF Promise!Apply
  <2> QED BY <2>2 DEF Promise!Next
<1>12. CASE ServerRefuses
  <2>1. UNCHANGED <<queue, server, told, user, stream, answers>>
    BY <1>12 DEF ServerRefuses, clientVars, history
  <2> QED BY <2>1, StutterStep
<1>13. CASE ConnectionBreaks
  <2>1. UNCHANGED <<queue, server, told>> /\ answers' = <<>>
    BY <1>13 DEF ConnectionBreaks, clientVars, serverVars, history
  <2>2. Promise!Rewind
    BY <2>1, RewindStep
  <2> QED BY <2>2 DEF Promise!Next
<1> QED BY <1>2, <1>3, <1>4, <1>5, <1>6, <1>7, <1>8, <1>9, <1>10, <1>11,
           <1>12, <1>13, StepKinds

\* The write path implements WriteQueue: for each user a queue of writes that
\* the backend applies in order, over again after a failure, and that is
\* emptied from its head by answers and permanent errors only.
THEOREM ImplementsTheQueue == Spec => ImplementsQueue
<1>1. Init => Promise!Init
  <2> SUFFICES ASSUME Init PROVE Promise!Init
    OBVIOUS
  <2>1. Payload(<<>>) = <<>>
    BY DEF Payload
  <2>2. Pending = [u \in Users |-> <<>>]
    BY <2>1 DEF Init, Pending
  <2>3. ~stream.handshake
    BY InitialStreamIs DEF Init
  <2>4. Cursor = [u \in Users |-> 0]
    BY <2>3 DEF Cursor
  <2> QED BY <2>2, <2>4 DEF Init, Promise!Init, Pending, Cursor
<1>2. ClientInv /\ [Next]_vars => [Promise!Next]_(Promise!vars)
  BY QueueRefines
<1> QED BY <1>1, <1>2, ClientIsConsistent, PTL
           DEF Spec, ImplementsQueue, Promise!Spec
=============================================================================
