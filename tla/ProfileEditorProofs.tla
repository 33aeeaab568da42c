------------------------ MODULE ProfileEditorProofs -------------------------
(***************************************************************************)
(* Proofs about ProfileEditor, for any texts, dates and pictures, any      *)
(* number of overlapping uploads and any length of the queue of writes:    *)
(* its types, and that the profile shown is the stored one once every save *)
(* is acknowledged.                                                        *)
(***************************************************************************)
EXTENDS ProfileEditor, SequenceTheorems, FiniteSetTheorems, TLAPS

----------------------------------------------------------------------------
(* The inductive invariant *)

\* i is the last of the writes of the form in q.
LastProfile(q, i) ==
    /\ q[i].op = "profile"
    /\ \A j \in DOMAIN q : q[j].op = "profile" => j <= i

\* No write of q is one of the form.
NoProfile(q) == \A i \in DOMAIN q : q[i].op # "profile"

\* The profile d has the texts and the birthday that the document s has with
\* the writes of q on top of it.
Shows(q, s, d) ==
    /\ \A i \in DOMAIN q :
          LastProfile(q, i) => q[i].text = d.text /\ q[i].birthday = d.birthday
    /\ NoProfile(q) => s.text = d.text /\ s.birthday = d.birthday

\* A write of the form is queued whose callback will pop a route.
Live(q) == \E i \in DOMAIN q : q[i].op = "profile" /\ q[i].live

\* What ProfileScreen shows is what will be stored, unless a save is on its way
\* whose acknowledgement will make the screen ask again or take it away, or the
\* date picker took the result of one.
ShownWillBeStored ==
    tab = "done" => /\ datos \in Profile
                    /\ Live(queue) \/ unheard \/ Shows(queue, stored, datos)

\* Without a route there is no tab, and no upload has a State to set.
PoppedIsClosed ==
    stack = <<>> => tab = "closed" /\ \A u \in Uploads : uploads[u] # "mounted"

\* The inductive invariant of the tab, the form and its writes.
ProfileInv ==
    /\ TypeOK
    /\ ShownWillBeStored
    /\ PoppedIsClosed

----------------------------------------------------------------------------
(* The document with the queued writes on top of it *)

\* A set of positions in a queue that is not empty has a last one.
LEMMA LastExists ==
    ASSUME NEW S \in SUBSET Nat, S # {}, NEW n \in Nat, \A x \in S : x <= n
    PROVE  \E x \in S : \A y \in S : y <= x
<1> DEFINE Above(x) == {y \in S : y > x}
           T == {Above(x) : x \in S}
<1>1. T \subseteq FiniteSubsetsOf(S)
  <2>1. IsFiniteSet(S)
    BY FS_BoundedSetOfNaturals
  <2>2. SUBSET S = FiniteSubsetsOf(S)
    BY <2>1, FS_FiniteSubsetsOfFinite
  <2> QED BY <2>2
<1>2. T # {}
  OBVIOUS
<1>3. PICK A \in T : \A B \in T : ~(<<B, A>> \in StrictSubsetOrdering(S))
  <2> HIDE DEF T
  <2>1. IsWellFoundedOn(StrictSubsetOrdering(S), FiniteSubsetsOf(S))
    BY FS_StrictSubsetOrderingWellFounded
  <2> QED BY <1>1, <1>2, <2>1, WFMin
<1>4. PICK x \in S : A = Above(x)
  BY <1>3
<1>5. ASSUME NEW y \in S, y > x PROVE FALSE
  <2>1. Above(y) \in T /\ y \in Above(x) /\ y \notin Above(y)
    BY <1>5
  <2>2. Above(y) \subseteq Above(x)
    <3> SUFFICES ASSUME NEW z \in S, z > y PROVE z > x
      OBVIOUS
    <3>1. x \in Nat /\ y \in Nat /\ z \in Nat
      OBVIOUS
    <3> QED BY <1>5, <3>1
  <2>3. <<Above(y), Above(x)>> \in StrictSubsetOrdering(S)
    BY <2>1, <2>2 DEF StrictSubsetOrdering
  <2> QED BY <1>3, <1>4, <2>1, <2>3
<1> QED BY <1>5

\* A field comes from the document, or from the last write of its kind.
LEMMA SourceIs ==
    ASSUME queue \in Seq(Write), NEW op
    PROVE  \/ /\ \A i \in DOMAIN queue : queue[i].op # op
              /\ Source(op) = stored
           \/ \E k \in DOMAIN queue :
                 /\ queue[k].op = op
                 /\ \A j \in DOMAIN queue : queue[j].op = op => j <= k
                 /\ Source(op) = queue[k]
<1> DEFINE hits == {i \in DOMAIN queue : queue[i].op = op}
           m == CHOOSE i \in hits : \A j \in hits : j <= i
<1>1. CASE hits = {}
  <2>1. Source(op) = stored
    BY <1>1 DEF Source
  <2> QED BY <1>1, <2>1
<1>2. CASE hits # {}
  <2>1. hits \in SUBSET Nat /\ Len(queue) \in Nat /\ \A x \in hits : x <= Len(queue)
    OBVIOUS
  <2>2. Source(op) = queue[m]
    BY <1>2 DEF Source
  <2>3. \E x \in hits : \A y \in hits : y <= x
    <3> HIDE DEF hits
    <3> QED BY <1>2, <2>1, LastExists
  <2>4. m \in hits /\ \A j \in hits : j <= m
    <3> HIDE DEF hits
    <3> QED BY <2>3
  <2> HIDE DEF m
  <2> QED BY <2>2, <2>4
<1> QED BY <1>1, <1>2

\* What getUserDetails reads is a profile, the one that will be stored.
LEMMA ViewShows ==
    ASSUME TypeOK
    PROVE  View \in Profile /\ Shows(queue, stored, View)
<1>1. queue \in Seq(Write) /\ stored \in Profile
  BY DEF TypeOK
<1>2. /\ View.text = Source("profile").text
      /\ View.birthday = Source("profile").birthday
      /\ View.pic = Source("pic").pic
      /\ View = [text |-> View.text, birthday |-> View.birthday, pic |-> View.pic]
  BY DEF View
<1>3. \A k \in DOMAIN queue : /\ k \in Nat
                              /\ queue[k].op = "profile" =>
                                     queue[k].text \in Texts /\ queue[k].birthday \in Dates
                              /\ queue[k].op = "pic" => queue[k].pic \in Pics
  BY <1>1 DEF Write
<1>4. View.pic \in Pics \cup {None}
  <2>1. \/ Source("pic") = stored
        \/ \E k \in DOMAIN queue :
              queue[k].op = "pic" /\ Source("pic") = queue[k]
    BY <1>1, SourceIs
  <2> QED BY <1>1, <1>2, <1>3, <2>1 DEF Profile
<1>5. CASE NoProfile(queue)
  <2>1. Source("profile") = stored
    BY <1>1, <1>5, SourceIs DEF NoProfile
  <2>2. View.text = stored.text /\ View.birthday = stored.birthday
    BY <1>2, <2>1
  <2>3. View \in Profile
    BY <1>1, <1>2, <1>4, <2>2 DEF Profile
  <2> QED BY <1>5, <2>2, <2>3 DEF Shows, LastProfile, NoProfile
<1>6. CASE ~NoProfile(queue)
  <2>1. PICK k \in DOMAIN queue :
            /\ queue[k].op = "profile"
            /\ \A j \in DOMAIN queue : queue[j].op = "profile" => j <= k
            /\ Source("profile") = queue[k]
    BY <1>1, <1>6, SourceIs DEF NoProfile
  <2>2. View.text = queue[k].text /\ View.birthday = queue[k].birthday
    BY <1>2, <2>1
  <2>3. View \in Profile
    BY <1>2, <1>3, <1>4, <2>1, <2>2 DEF Profile
  <2>4. ASSUME NEW i \in DOMAIN queue, LastProfile(queue, i) PROVE i = k
    <3>1. i <= k /\ k <= i
      BY <2>1, <2>4 DEF LastProfile
    <3> QED BY <1>3, <3>1
  <2> QED BY <1>6, <2>2, <2>3, <2>4 DEF Shows
<1> QED BY <1>5, <1>6

\* Another picture changes neither the texts nor the birthday.
LEMMA PicQueued ==
    ASSUME NEW q \in Seq(Write), NEW w \in Write, w.op = "pic"
    PROVE  /\ Live(q) => Live(Append(q, w))
           /\ \A s, d : Shows(q, s, d) => Shows(Append(q, w), s, d)
<1> DEFINE r == Append(q, w)
           n == Len(q)
<1>1. /\ n \in Nat /\ DOMAIN q = 1..n /\ DOMAIN r = 1..(n + 1) /\ r[n + 1] = w
      /\ \A i \in 1..n : i \in 1..(n + 1) /\ r[i] = q[i]
      /\ \A i \in 1..(n + 1) : i \in 1..n \/ i = n + 1
  OBVIOUS
<1> HIDE DEF r, n
<1>2. \A i \in DOMAIN r : r[i].op = "profile" => i \in DOMAIN q /\ q[i] = r[i]
  BY <1>1
<1>3. \A i \in DOMAIN q : i \in DOMAIN r /\ q[i] = r[i]
  BY <1>1
<1>4. Live(q) => Live(r)
  BY <1>3 DEF Live
<1>5. \A i \in DOMAIN r : LastProfile(r, i) => i \in DOMAIN q /\ LastProfile(q, i)
  BY <1>2, <1>3 DEF LastProfile
<1>6. NoProfile(r) => NoProfile(q)
  BY <1>3 DEF NoProfile
<1>7. ASSUME NEW s, NEW d, Shows(q, s, d) PROVE Shows(r, s, d)
  BY <1>3, <1>5, <1>6, <1>7 DEF Shows
<1> QED BY <1>4, <1>7 DEF r

\* A save adds a write that is live.
LEMMA SaveQueued ==
    ASSUME NEW q \in Seq(Write), NEW w \in Write, w.op = "profile", w.live
    PROVE  Live(Append(q, w))
<1>1. Len(q) + 1 \in DOMAIN Append(q, w) /\ Append(q, w)[Len(q) + 1] = w
  OBVIOUS
<1> QED BY <1>1 DEF Live

\* Applying the oldest write changes nothing about what will be stored.
LEMMA WriteApplied ==
    ASSUME NEW q \in Seq(Write), q # <<>>, NEW s \in Profile
    PROVE  /\ Updated(s, Head(q)) \in Profile
           /\ ~(Head(q).op = "profile" /\ Head(q).live) =>
                  /\ Live(q) => Live(Tail(q))
                  /\ \A d : Shows(q, s, d) => Shows(Tail(q), Updated(s, Head(q)), d)
<1> DEFINE t == Tail(q)
           h == Head(q)
           n == Len(t)
           u == Updated(s, h)
<1>1. /\ n \in Nat /\ DOMAIN t = 1..n /\ DOMAIN q = 1..(n + 1) /\ q[1] = h
      /\ h \in Write
      /\ \A i \in 1..n : i \in Nat /\ i + 1 \in 1..(n + 1) /\ t[i] = q[i + 1]
      /\ \A i \in 1..(n + 1) : i \in Nat /\ (i = 1 \/ (i - 1 \in 1..n /\ q[i] = t[i - 1]))
      /\ 1 \in 1..(n + 1)
  OBVIOUS
<1>2. CASE h.op = "profile"
  <2>1. h.text \in Texts /\ h.birthday \in Dates
    BY <1>1, <1>2 DEF Write
  <2>2. u = [s EXCEPT !.text = h.text, !.birthday = h.birthday]
    BY <1>2 DEF Updated
  <2>3. u \in Profile /\ u.text = h.text /\ u.birthday = h.birthday
    BY <2>1, <2>2 DEF Profile
  <2> HIDE DEF t, h, n, u
  <2> SUFFICES ASSUME ~h.live
               PROVE  /\ Live(q) => Live(t)
                      /\ \A d : Shows(q, s, d) => Shows(t, u, d)
    BY <1>2, <2>3 DEF t, h, u
  <2>4. Live(q) => Live(t)
    BY <1>1 DEF Live
  <2>5. ASSUME NEW i \in DOMAIN t, LastProfile(t, i)
        PROVE  i + 1 \in DOMAIN q /\ LastProfile(q, i + 1) /\ q[i + 1] = t[i]
    <3>1. i + 1 \in DOMAIN q /\ q[i + 1] = t[i] /\ i \in Nat /\ i >= 1
      BY <1>1
    <3>2. ASSUME NEW j \in DOMAIN q, q[j].op = "profile" PROVE j <= i + 1
      <4>1. j # 1 => j - 1 <= i
        BY <1>1, <2>5, <3>2 DEF LastProfile
      <4> QED BY <1>1, <3>1, <4>1
    <3> QED BY <2>5, <3>1, <3>2 DEF LastProfile
  <2>6. NoProfile(t) => LastProfile(q, 1)
    <3> SUFFICES ASSUME NoProfile(t), NEW j \in DOMAIN q, q[j].op = "profile" PROVE j <= 1
      BY <1>1, <1>2 DEF LastProfile
    <3>1. j = 1
      BY <1>1 DEF NoProfile
    <3> QED BY <3>1
  <2>7. ASSUME NEW d, Shows(q, s, d) PROVE Shows(t, u, d)
    <3>1. ASSUME NEW i \in DOMAIN t, LastProfile(t, i)
          PROVE  t[i].text = d.text /\ t[i].birthday = d.birthday
      BY <2>5, <2>7, <3>1 DEF Shows
    <3>2. ASSUME NoProfile(t) PROVE u.text = d.text /\ u.birthday = d.birthday
      BY <1>1, <2>3, <2>6, <2>7, <3>2 DEF Shows
    <3> QED BY <3>1, <3>2 DEF Shows
  <2> QED BY <2>4, <2>7
<1>3. CASE h.op = "pic"
  <2>1. h.pic \in Pics
    BY <1>1, <1>3 DEF Write
  <2>2. u = [s EXCEPT !.pic = h.pic]
    BY <1>3 DEF Updated
  <2>3. u \in Profile /\ u.text = s.text /\ u.birthday = s.birthday
    BY <2>1, <2>2 DEF Profile
  <2> HIDE DEF t, h, n, u
  <2>4. ASSUME Live(q) PROVE Live(t)
    <3>1. PICK i \in DOMAIN q : q[i].op = "profile" /\ q[i].live
      BY <2>4 DEF Live
    <3>2. i # 1
      BY <1>1, <1>3, <3>1
    <3>3. i - 1 \in DOMAIN t /\ t[i - 1] = q[i]
      BY <1>1, <3>2
    <3> QED BY <3>1, <3>3 DEF Live
  <2>5. ASSUME NEW i \in DOMAIN t, LastProfile(t, i)
        PROVE  i + 1 \in DOMAIN q /\ LastProfile(q, i + 1) /\ q[i + 1] = t[i]
    <3>1. i + 1 \in DOMAIN q /\ q[i + 1] = t[i] /\ i \in Nat /\ i >= 1
      BY <1>1
    <3>2. ASSUME NEW j \in DOMAIN q, q[j].op = "profile" PROVE j <= i + 1
      <4>1. j # 1 => j - 1 <= i
        BY <1>1, <2>5, <3>2 DEF LastProfile
      <4> QED BY <1>1, <3>1, <4>1
    <3> QED BY <2>5, <3>1, <3>2 DEF LastProfile
  <2>6. NoProfile(t) => NoProfile(q)
    BY <1>1, <1>3 DEF NoProfile
  <2>7. ASSUME NEW d, Shows(q, s, d) PROVE Shows(t, u, d)
    <3>1. ASSUME NEW i \in DOMAIN t, LastProfile(t, i)
          PROVE  t[i].text = d.text /\ t[i].birthday = d.birthday
      BY <2>5, <2>7, <3>1 DEF Shows
    <3>2. ASSUME NoProfile(t) PROVE u.text = d.text /\ u.birthday = d.birthday
      BY <2>3, <2>6, <2>7, <3>2 DEF Shows
    <3> QED BY <3>1, <3>2 DEF Shows
  <2> QED BY <2>3, <2>4, <2>7 DEF t, h, u
<1>4. h.op = "profile" \/ h.op = "pic"
  BY <1>1 DEF Write
<1> QED BY <1>2, <1>3, <1>4

----------------------------------------------------------------------------
(* Every step keeps the invariant *)

\* The closed tab over an empty queue satisfies the invariant.
LEMMA ProfileInvInit == Init => ProfileInv
<1> SUFFICES ASSUME Init PROVE ProfileInv
  OBVIOUS
<1>1. TypeOK
  <2>1. stack \in {<<>>, <<"main">>, Editing, Picking, Broken}
    BY DEF Init
  <2>2. form = None <=> stack \notin {Editing, Picking}
    BY DEF Init, Editing, Picking
  <2>3. stored \in Profile
    BY DEF Init, Profile
  <2>4. queue \in Seq(Write)
    BY DEF Init
  <2>5. uploads \in [Uploads -> {"idle", "mounted", "disposed"}]
    BY DEF Init
  <2>6. unheard \in BOOLEAN
    BY DEF Init
  <2> QED BY <2>1, <2>2, <2>3, <2>4, <2>5, <2>6 DEF Init, TypeOK
<1> QED BY <1>1 DEF Init, ProfileInv, ShownWillBeStored, PoppedIsClosed

\* dispose() leaves the uploads typed and none with a State to set.
LEMMA Disposed ==
    ASSUME TypeOK, DisposeTab
    PROVE  /\ tab' = "closed" /\ datos' = None
           /\ uploads' \in [Uploads -> {"idle", "mounted", "disposed"}]
           /\ \A u \in Uploads : uploads'[u] # "mounted"
           /\ unheard' = FALSE
BY DEF TypeOK, DisposeTab

\* Every step of the tab, of the form and of the server keeps the invariant.
LEMMA ProfileInvNext == ProfileInv /\ [Next]_vars => ProfileInv'
<1> SUFFICES ASSUME ProfileInv, [Next]_vars PROVE ProfileInv'
  OBVIOUS
<1>1. TypeOK /\ ShownWillBeStored /\ PoppedIsClosed
  BY DEF ProfileInv
<1> SUFFICES TypeOK' /\ ShownWillBeStored' /\ PoppedIsClosed'
  BY DEF ProfileInv
<1>2. CASE UNCHANGED vars
  BY <1>1, <1>2 DEF vars, TypeOK, ShownWillBeStored, PoppedIsClosed
<1>3. CASE Restart
  <2> DEFINE x(i) == IF queue[i].op = "profile" THEN [queue[i] EXCEPT !.live = FALSE]
                                                ELSE queue[i]
  <2>1. queue' = [i \in 1..Len(queue) |-> x(i)] /\ Len(queue) \in Nat
    BY <1>1, <1>3 DEF Restart, TypeOK
  <2>2. \A i \in 1..Len(queue) : x(i) \in Write
    <3> SUFFICES ASSUME NEW w \in Write
                 PROVE  w.op = "profile" => [w EXCEPT !.live = FALSE] \in Write
      BY <1>1 DEF TypeOK
    <3> QED BY DEF Write
  <2> HIDE DEF x
  <2>3. queue' \in Seq(Write)
    BY <2>1, <2>2, IsASeq
  <2>4. TypeOK'
    BY <1>1, <1>3, <2>3 DEF Restart, TypeOK, Editing, Picking
  <2> QED BY <1>3, <2>4 DEF Restart, ShownWillBeStored, PoppedIsClosed
<1>4. CASE OpenTab
  BY <1>1, <1>4 DEF OpenTab, TypeOK, ShownWillBeStored, PoppedIsClosed
<1>5. CASE LeaveTab
  <2>1. /\ tab' = "closed" /\ datos' = None
        /\ uploads' \in [Uploads -> {"idle", "mounted", "disposed"}]
        /\ \A u \in Uploads : uploads'[u] # "mounted"
        /\ unheard' = FALSE
    BY <1>1, <1>5, Disposed DEF LeaveTab
  <2> QED BY <1>1, <1>5, <2>1 DEF LeaveTab, TypeOK, ShownWillBeStored,
             PoppedIsClosed
<1>6. CASE getUserData
  <2>1. View \in Profile /\ Shows(queue, stored, View)
    BY <1>1, ViewShows
  <2>2. TypeOK'
    BY <1>1, <1>6, <2>1 DEF getUserData, TypeOK
  <2>3. ShownWillBeStored' /\ PoppedIsClosed'
    BY <1>1, <1>6, <2>1 DEF getUserData, ShownWillBeStored, PoppedIsClosed
  <2> QED BY <2>2, <2>3
<1>7. CASE getUserDataFails
  BY <1>1, <1>7 DEF getUserDataFails, TypeOK, ShownWillBeStored, PoppedIsClosed
<1>8. CASE Edit
  <2>1. CASE datos = None
    <3>1. stack' = Broken /\ form' = form
      BY <1>8, <2>1 DEF Edit
    <3>2. TypeOK'
      BY <1>1, <1>8, <3>1 DEF Edit, TypeOK, Editing, Picking, Broken
    <3> QED BY <1>1, <1>8, <3>1, <3>2
            DEF Edit, ShownWillBeStored, PoppedIsClosed, Broken
  <2>2. CASE datos # None
    <3>1. datos \in Profile
      BY <1>1, <2>2 DEF TypeOK
    <3>2. stack' = Editing /\ form' \in Form /\ form' # None
      BY <1>8, <2>2, <3>1, FormAssumption DEF Edit, Form, Profile
    <3>3. TypeOK'
      BY <1>1, <1>8, <3>2 DEF Edit, TypeOK
    <3> QED BY <1>1, <1>8, <3>2, <3>3
            DEF Edit, ShownWillBeStored, PoppedIsClosed, Editing
  <2> QED BY <2>1, <2>2
<1>9. ASSUME NEW u \in Uploads, pickUploadImage(u)
      PROVE  TypeOK' /\ ShownWillBeStored' /\ PoppedIsClosed'
  <2>1. TypeOK'
    BY <1>1, <1>9 DEF pickUploadImage, TypeOK
  <2> QED BY <1>1, <1>9, <2>1 DEF pickUploadImage, ShownWillBeStored,
             PoppedIsClosed
<1>10. ASSUME NEW u \in Uploads, NEW url \in Pics, Uploaded(u, url)
      PROVE  TypeOK' /\ ShownWillBeStored' /\ PoppedIsClosed'
  <2> DEFINE w == [op |-> "pic", pic |-> url]
  <2>1. w \in Write /\ w.op = "pic"
    BY DEF Write
  <2>2. \/ queue' = Append(queue, w) /\ stored' = stored
        \/ queue' = queue /\ stored' = stored /\ tab' = tab
    BY <1>10 DEF Uploaded, Enqueue
  <2> HIDE DEF w
  <2>3. queue' \in Seq(Write) /\ stored' \in Profile
    BY <1>1, <2>1, <2>2 DEF TypeOK
  <2>4. /\ Live(queue) => Live(queue')
        /\ Shows(queue, stored, datos) => Shows(queue', stored, datos)
    BY <1>1, <2>1, <2>2, PicQueued DEF TypeOK
  <2>5. /\ tab' = tab \/ (tab' = "waiting" /\ uploads[u] = "mounted")
        /\ stack' = stack /\ datos' = datos /\ form' = form /\ unheard' = unheard
        /\ uploads' = [uploads EXCEPT ![u] = "idle"]
    BY <1>10 DEF Uploaded
  <2>6. TypeOK'
    BY <1>1, <2>3, <2>5 DEF TypeOK
  <2>7. ShownWillBeStored'
    BY <1>1, <2>2, <2>4, <2>5 DEF ShownWillBeStored
  <2>8. PoppedIsClosed'
    BY <1>1, <2>5 DEF PoppedIsClosed, TypeOK
  <2> QED BY <2>6, <2>7, <2>8
<1>11. ASSUME NEW u \in Uploads, UploadFails(u)
      PROVE  TypeOK' /\ ShownWillBeStored' /\ PoppedIsClosed'
  BY <1>1, <1>11 DEF UploadFails, TypeOK, ShownWillBeStored, PoppedIsClosed
<1>12. ASSUME NEW t \in Texts \cup {Empty}, TypeText(t)
      PROVE  TypeOK' /\ ShownWillBeStored' /\ PoppedIsClosed'
  <2>1. form \in Form
    BY <1>1, <1>12 DEF TypeText, TypeOK
  <2>2. form' \in Form /\ form' # None
    BY <1>12, <2>1, FormAssumption DEF TypeText, Form
  <2>3. TypeOK'
    BY <1>1, <1>12, <2>2 DEF TypeText, TypeOK
  <2> QED BY <1>1, <1>12, <2>3 DEF TypeText, ShownWillBeStored, PoppedIsClosed
<1>13. ASSUME NEW d \in Dates, DatePicked(d)
      PROVE  TypeOK' /\ ShownWillBeStored' /\ PoppedIsClosed'
  <2>1. form \in Form /\ form # None /\ stack' = Editing
    BY <1>1, <1>13 DEF DatePicked, TypeOK
  <2>2. form.user.text \in Texts
    BY <2>1 DEF Form, Profile
  <2>3. form' \in Form /\ form' # None
    BY <1>13, <2>1, <2>2, FormAssumption DEF DatePicked, Form
  <2>4. TypeOK'
    BY <1>1, <1>13, <2>1, <2>3 DEF DatePicked, TypeOK
  <2> QED BY <1>1, <1>13, <2>1, <2>4
          DEF DatePicked, ShownWillBeStored, PoppedIsClosed, Editing
<1>14. CASE Cancelar
  <2>1. TypeOK'
    BY <1>1, <1>14 DEF Cancelar, TypeOK, Editing, Picking
  <2> QED BY <1>1, <1>14, <2>1 DEF Cancelar, ShownWillBeStored, PoppedIsClosed
<1>17. CASE _selectDate
  <2>1. form # None /\ stack' = Picking
    BY <1>1, <1>17 DEF _selectDate, TypeOK
  <2>2. TypeOK'
    BY <1>1, <1>17, <2>1 DEF _selectDate, TypeOK
  <2> QED BY <1>1, <1>17, <2>2
          DEF _selectDate, ShownWillBeStored, PoppedIsClosed, Picking
<1>18. CASE PickerCancelled
  <2>1. form # None /\ stack' = Editing
    BY <1>1, <1>18 DEF PickerCancelled, TypeOK
  <2>2. TypeOK'
    BY <1>1, <1>18, <2>1 DEF PickerCancelled, TypeOK
  <2> QED BY <1>1, <1>18, <2>2
          DEF PickerCancelled, ShownWillBeStored, PoppedIsClosed, Editing
<1>19. CASE Back
  <2>1. TypeOK'
    BY <1>1, <1>19 DEF Back, TypeOK, Editing, Picking, Broken
  <2> QED BY <1>1, <1>19, <2>1 DEF Back, ShownWillBeStored, PoppedIsClosed
<1>15. CASE Guardar
  <2> DEFINE w == [op |-> "profile", text |-> form.text, birthday |-> form.date,
                   live |-> TRUE]
  <2>1. form \in Form /\ form.text \in Texts
    BY <1>1, <1>15 DEF Guardar, TypeOK, Form
  <2>2. w \in Write /\ w.op = "profile" /\ w.live
    BY <2>1 DEF Write, Form
  <2>3. queue' = Append(queue, w) /\ stored' = stored
    BY <1>15 DEF Guardar, Enqueue
  <2> HIDE DEF w
  <2>4. queue' \in Seq(Write) /\ Live(queue')
    BY <1>1, <2>2, <2>3, SaveQueued DEF TypeOK
  <2>5. TypeOK'
    BY <1>1, <1>15, <2>3, <2>4 DEF Guardar, TypeOK
  <2> QED BY <1>1, <1>15, <2>4, <2>5 DEF Guardar, ShownWillBeStored,
             PoppedIsClosed
<1>16. CASE Acknowledge
  <2>1. queue \in Seq(Write) /\ queue # <<>> /\ stored \in Profile
    BY <1>1, <1>16 DEF Acknowledge, TypeOK
  <2>2. /\ stored' \in Profile /\ queue' \in Seq(Write) /\ queue' = Tail(queue)
        /\ stored' = Updated(stored, Head(queue))
    BY <1>16, <2>1, WriteApplied DEF Acknowledge
  <2>3. CASE Head(queue).op = "profile" /\ Head(queue).live
    <3>1. PopTrue
      BY <1>16, <2>3 DEF Acknowledge
    <3>2. CASE stack \in {Editing, Broken}
      <4>1. /\ stack' = <<"main">> /\ form' = None /\ tab' = "waiting"
            /\ UNCHANGED <<datos, uploads, unheard>>
        BY <3>1, <3>2 DEF PopTrue
      <4>2. TypeOK'
        BY <1>1, <2>2, <4>1 DEF TypeOK, Editing, Picking
      <4> QED BY <4>1, <4>2 DEF ShownWillBeStored, PoppedIsClosed
    <3>3. ASSUME stack \notin {Editing, Broken}
          PROVE  PopElsewhere
      BY <3>1, <3>3 DEF PopTrue
    <3>4. CASE stack = Picking
      <4>1. stack \notin {Editing, Broken}
        BY <3>4 DEF Editing, Picking, Broken
      <4>2. /\ stack' = Editing /\ unheard' = TRUE
            /\ UNCHANGED <<tab, datos, form, uploads>>
        <5>1. Picking # <<"main">> /\ Picking # <<>>
          BY DEF Picking
        <5> QED BY <3>3, <3>4, <4>1, <5>1 DEF PopElsewhere
      <4>3. form # None
        BY <1>1, <3>4 DEF TypeOK
      <4>4. TypeOK'
        BY <1>1, <2>2, <4>2, <4>3 DEF TypeOK
      <4> QED BY <1>1, <4>2, <4>4 DEF ShownWillBeStored, PoppedIsClosed, Editing
    <3>5. CASE stack = <<"main">>
      <4>1. stack \notin {Editing, Broken} /\ stack # Picking
        BY <3>5 DEF Editing, Picking, Broken
      <4>2. stack' = <<>> /\ DisposeTab /\ form' = form
        BY <3>3, <3>5, <4>1 DEF PopElsewhere
      <4>3. /\ tab' = "closed" /\ datos' = None
            /\ uploads' \in [Uploads -> {"idle", "mounted", "disposed"}]
            /\ \A u \in Uploads : uploads'[u] # "mounted"
            /\ unheard' = FALSE
        BY <1>1, <4>2, Disposed
      <4>4. TypeOK'
        BY <1>1, <2>2, <4>1, <4>2, <4>3 DEF TypeOK, Editing, Picking
      <4> QED BY <4>3, <4>4 DEF ShownWillBeStored, PoppedIsClosed
    <3>6. CASE stack = <<>>
      <4>1. stack \notin {Editing, Broken} /\ stack # Picking /\ stack # <<"main">>
        BY <3>6 DEF Editing, Picking, Broken
      <4>2. UNCHANGED <<stack, tab, datos, form, uploads, unheard>>
        BY <3>3, <3>6, <4>1 DEF PopElsewhere
      <4>3. TypeOK'
        BY <1>1, <2>2, <4>2 DEF TypeOK
      <4> QED BY <1>1, <3>6, <4>2, <4>3 DEF ShownWillBeStored, PoppedIsClosed
    <3> QED BY <1>1, <3>2, <3>4, <3>5, <3>6 DEF TypeOK
  <2>4. CASE ~(Head(queue).op = "profile" /\ Head(queue).live)
    <3>1. UNCHANGED <<stack, tab, datos, form, uploads, unheard>>
      BY <1>16, <2>4 DEF Acknowledge
    <3>2. /\ Live(queue) => Live(queue')
          /\ Shows(queue, stored, datos) => Shows(queue', stored', datos)
      BY <2>1, <2>2, <2>4, WriteApplied
    <3>3. TypeOK'
      BY <1>1, <2>2, <3>1 DEF TypeOK
    <3> QED BY <1>1, <3>1, <3>2, <3>3 DEF ShownWillBeStored, PoppedIsClosed
  <2> QED BY <2>3, <2>4
<1> QED
  BY <1>2, <1>3, <1>4, <1>5, <1>6, <1>7, <1>8, <1>9, <1>10, <1>11, <1>12, <1>13,
     <1>14, <1>15, <1>16, <1>17, <1>18, <1>19 DEF Next

----------------------------------------------------------------------------
(* Theorems *)

\* The invariant holds in every state the two screens and the server reach.
THEOREM ProfileIsConsistent == Spec => []ProfileInv
BY ProfileInvInit, ProfileInvNext, PTL DEF Spec

\* ProfileScreen, the form, the queue and the document keep their types, and
\* there is a form exactly while the route of ProfileConfig is there, alone or
\* under its date picker: also when the late callback of a save pops a route
\* that is not the form's.
THEOREM ProfileTypeCorrect == Spec => []TypeOK
<1>1. ProfileInv => TypeOK
  BY DEF ProfileInv
<1> QED BY <1>1, ProfileIsConsistent, PTL

\* Once every save is acknowledged, ProfileScreen shows the stored texts and
\* birthday, although it only asks for the document again when the form returns
\* true: a save whose form was cancelled pops the screen itself, and one whose
\* callback a restart lost was read with the pending writes.  Only the result of
\* a save that the date picker took leaves the screen with an older profile,
\* until it reads the document again.
THEOREM ShownProfileAlwaysStored == Spec => []ShownProfileIsStored
<1>1. ProfileInv => ShownProfileIsStored
  BY DEF ProfileInv, ShownWillBeStored, ShownProfileIsStored, Live, Shows,
     NoProfile
<1> QED BY <1>1, ProfileIsConsistent, PTL

=============================================================================
