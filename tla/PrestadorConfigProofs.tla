------------------------ MODULE PrestadorConfigProofs -----------------------
(***************************************************************************)
(* Proofs about PrestadorConfig, for any sets of categories, texts and     *)
(* pictures, any number of overlapping uploads and any length of the queue *)
(* of writes: its types, that the dropdown shows what will be stored, and  *)
(* that the stored document goes through what PrestadorRecord allows.      *)
(***************************************************************************)
EXTENDS PrestadorConfig, SequenceTheorems, FiniteSetTheorems, TLAPS

----------------------------------------------------------------------------
(* A field after some of the queued writes *)

\* A set of positions in a queue that is not empty has a last one.
LEMMA LastExists ==
    ASSUME NEW S \in SUBSET Nat, S # {}, NEW n \in Nat, \A x \in S : x <= n
    PROVE  \E x \in S : \A y \in S : y <= x
<1> DEFINE Above(x) == {y \in S : y > x}
           T == {Above(x) : x \in S}
<1>1. T \subseteq FiniteSubsetsOf(S)
  <2>1. IsFiniteSet(S)
    BY FS_BoundedSetOfNaturals
  <2>2. SUBSET S = FiniteSubsetsOf(S)
    BY <2>1, FS_FiniteSubsetsOfFinite
  <2> QED BY <2>2
<1>2. T # {}
  OBVIOUS
<1>3. PICK A \in T : \A B \in T : ~(<<B, A>> \in StrictSubsetOrdering(S))
  <2> HIDE DEF T
  <2>1. IsWellFoundedOn(StrictSubsetOrdering(S), FiniteSubsetsOf(S))
    BY FS_StrictSubsetOrderingWellFounded
  <2> QED BY <1>1, <1>2, <2>1, WFMin
<1>4. PICK x \in S : A = Above(x)
  BY <1>3
<1>5. ASSUME NEW y \in S, y > x PROVE FALSE
  <2>1. Above(y) \in T /\ y \in Above(x) /\ y \notin Above(y)
    BY <1>5
  <2>2. Above(y) \subseteq Above(x)
    <3> SUFFICES ASSUME NEW z \in S, z > y PROVE z > x
      OBVIOUS
    <3>1. x \in Nat /\ y \in Nat /\ z \in Nat
      OBVIOUS
    <3> QED BY <1>5, <3>1
  <2>3. <<Above(y), Above(x)>> \in StrictSubsetOrdering(S)
    BY <2>1, <2>2 DEF StrictSubsetOrdering
  <2> QED BY <1>3, <1>4, <2>1, <2>3
<1> QED BY <1>5

\* After, of any queue.
Hits(q, n, op) == {i \in 1..n : q[i].op = op}

\* The value of the last of the writes at hits, or the initial one.
Pick(q, hits, initial) ==
    IF hits = {} THEN initial
    ELSE q[CHOOSE i \in hits : \A j \in hits : j <= i].value

\* The value of op after the first n writes of q.
Latest(q, n, op, initial) == Pick(q, Hits(q, n, op), initial)

\* k is the last of the first n writes of q that is about the field op.
IsLast(q, n, op, k) ==
    /\ k \in Hits(q, n, op)
    /\ \A i \in Hits(q, n, op) : i <= k

\* A field that is written at all is written for the last time.
LEMMA LastHit ==
    ASSUME NEW q, NEW n \in Nat, NEW op, Hits(q, n, op) # {}
    PROVE  \E k \in 1..n : IsLast(q, n, op, k)
<1> DEFINE hits == Hits(q, n, op)
<1>1. hits \in SUBSET Nat /\ \A x \in hits : x <= n /\ x \in 1..n
  BY DEF Hits
<1> HIDE DEF hits
<1>2. \E x \in hits : \A y \in hits : y <= x
  BY <1>1, LastExists DEF hits
<1> QED BY <1>1, <1>2 DEF hits, IsLast

\* It then has the value of that write.
LEMMA LatestIsLast ==
    ASSUME NEW q, NEW n \in Nat, NEW op, NEW initial, NEW k \in Nat,
           IsLast(q, n, op, k)
    PROVE  Latest(q, n, op, initial) = q[k].value
<1> DEFINE hits == Hits(q, n, op)
           m == CHOOSE i \in hits : \A j \in hits : j <= i
<1>1. k \in hits /\ \A i \in hits : i <= k
  BY DEF IsLast
<1>2. hits \subseteq Nat
  BY DEF Hits
<1> HIDE DEF hits
<1>3. m \in hits /\ \A j \in hits : j <= m
  BY <1>1
<1>4. m = k
  <2> HIDE DEF m
  <2>1. m <= k /\ k <= m /\ m \in Nat
    BY <1>1, <1>2, <1>3
  <2> QED BY <2>1
<1>5. Latest(q, n, op, initial) = q[m].value
  BY <1>1 DEF Latest, Pick, hits
<1> QED BY <1>4, <1>5

\* Without a write it keeps its initial value.
LEMMA LatestIsInitial ==
    ASSUME NEW q, NEW n, NEW op, NEW initial, Hits(q, n, op) = {}
    PROVE  Latest(q, n, op, initial) = initial
BY DEF Latest, Pick

\* Writes beyond the first n do not count.
LEMMA LatestOfPrefix ==
    ASSUME NEW q, NEW r, NEW n \in Nat, NEW op, NEW initial,
           \A i \in 1..n : q[i] = r[i]
    PROVE  Latest(q, n, op, initial) = Latest(r, n, op, initial)
<1>1. Hits(q, n, op) = Hits(r, n, op)
  BY DEF Hits
<1>2. CASE Hits(q, n, op) = {}
  BY <1>1, <1>2, LatestIsInitial
<1>3. CASE Hits(q, n, op) # {}
  <2>1. PICK k \in 1..n : IsLast(q, n, op, k)
    BY <1>3, LastHit
  <2>2. IsLast(r, n, op, k) /\ k \in Nat
    BY <1>1, <2>1 DEF IsLast
  <2>3. q[k].value = r[k].value
    OBVIOUS
  <2> QED BY <2>1, <2>2, <2>3, LatestIsLast
<1> QED BY <1>2, <1>3

\* One more write decides about its own field and no other.
LEMMA LatestAppended ==
    ASSUME NEW q \in Seq(Write), NEW w \in Write, NEW op, NEW initial
    PROVE  Latest(Append(q, w), Len(q) + 1, op, initial) =
               IF w.op = op THEN w.value ELSE Latest(q, Len(q), op, initial)
<1> DEFINE r == Append(q, w)
           n == Len(q)
           m == n + 1
<1>1. n \in Nat /\ r[m] = w /\ \A i \in 1..n : r[i] = q[i]
  OBVIOUS
<1>2. m \in 1..m /\ m \in Nat /\ (\A i \in 1..m : i <= m)
      /\ 1..m = 1..n \cup {m}
  BY <1>1
<1> HIDE DEF r, n, m
<1>3. CASE w.op = op
  <2>1. IsLast(r, m, op, m)
    BY <1>1, <1>2, <1>3 DEF IsLast, Hits
  <2>2. Latest(r, m, op, initial) = w.value
    BY <1>1, <1>2, <2>1, LatestIsLast
  <2> QED BY <1>3, <2>2 DEF r, n, m
<1>4. CASE w.op # op
  <2>1. Hits(r, m, op) = Hits(r, n, op)
    BY <1>1, <1>2, <1>4 DEF Hits
  <2>2. Latest(r, m, op, initial) = Latest(r, n, op, initial)
    BY <2>1 DEF Latest
  <2>3. Latest(r, n, op, initial) = Latest(q, n, op, initial)
    BY <1>1, LatestOfPrefix
  <2> QED BY <1>4, <2>2, <2>3 DEF r, n, m
<1> QED BY <1>3, <1>4

\* t holds the writes that follow the first one of q.
Follows(t, q, n) == \A i \in 1..n : t[i] = q[i + 1]

\* Positions in a queue and in what follows its first write.
LEMMA HitsShifted ==
    ASSUME NEW q, NEW t, NEW n \in Nat, NEW op, Follows(t, q, n)
    PROVE  /\ \A i \in Hits(t, n, op) : i + 1 \in Hits(q, n + 1, op)
           /\ \A i \in Hits(q, n + 1, op) : i # 1 => i - 1 \in Hits(t, n, op)
           /\ 1 \in Hits(q, n + 1, op) <=> q[1].op = op
<1>1. ASSUME NEW i \in Hits(t, n, op) PROVE i + 1 \in Hits(q, n + 1, op)
  <2>1. i \in 1..n /\ t[i].op = op
    BY DEF Hits
  <2>2. i + 1 \in 1..n + 1 /\ t[i] = q[i + 1]
    BY <2>1 DEF Follows
  <2>3. q[i + 1].op = op
    BY <2>1, <2>2
  <2> QED BY <2>2, <2>3 DEF Hits
<1>2. ASSUME NEW i \in Hits(q, n + 1, op), i # 1 PROVE i - 1 \in Hits(t, n, op)
  <2>1. i \in 1..n + 1 /\ q[i].op = op
    BY DEF Hits
  <2>2. i - 1 \in 1..n /\ (i - 1) + 1 = i
    BY <1>2, <2>1
  <2>3. t[i - 1] = q[i]
    BY <2>2 DEF Follows
  <2>4. t[i - 1].op = op
    BY <2>1, <2>3
  <2> QED BY <2>2, <2>4 DEF Hits
<1>3. 1 \in 1..n + 1
  OBVIOUS
<1> QED BY <1>1, <1>2, <1>3 DEF Hits

\* The writes after the first one, on top of what the first one leaves.
LEMMA LatestShifted ==
    ASSUME NEW q, NEW t, NEW n \in Nat, NEW op, NEW initial, NEW first,
           Follows(t, q, n),
           first = IF q[1].op = op THEN q[1].value ELSE initial
    PROVE  Latest(q, n + 1, op, initial) = Latest(t, n, op, first)
<1> DEFINE m == n + 1
<1>1. /\ m \in Nat
      /\ \A i \in Hits(t, n, op) : i \in Nat /\ i \in 1..n
      /\ \A i \in Hits(q, m, op) : i \in Nat
  BY DEF Hits
<1>2. /\ \A i \in Hits(t, n, op) : i + 1 \in Hits(q, m, op)
      /\ \A i \in Hits(q, m, op) : i # 1 => i - 1 \in Hits(t, n, op)
      /\ 1 \in Hits(q, m, op) <=> q[1].op = op
  BY HitsShifted
<1> HIDE DEF m
<1>3. CASE Hits(t, n, op) # {}
  <2>1. PICK k \in 1..n : IsLast(t, n, op, k)
    BY <1>3, LastHit
  <2>2. k \in Hits(t, n, op) /\ \A i \in Hits(t, n, op) : i <= k
    BY <2>1 DEF IsLast
  <2>3. ASSUME NEW i \in Hits(q, m, op) PROVE i <= k + 1
    <3>1. i # 1 => i - 1 <= k
      BY <1>2, <2>2
    <3> QED BY <1>1, <3>1
  <2>4. k + 1 \in Hits(q, m, op)
    BY <1>2, <2>2
  <2>5. IsLast(q, m, op, k + 1) /\ k + 1 \in Nat /\ k \in Nat
    BY <2>3, <2>4 DEF IsLast
  <2>6. Latest(q, m, op, initial) = q[k + 1].value
    BY <1>1, <2>5, LatestIsLast
  <2>7. Latest(t, n, op, first) = t[k].value
    BY <2>1, <2>5, LatestIsLast
  <2>8. t[k] = q[k + 1]
    BY DEF Follows
  <2> QED BY <2>6, <2>7, <2>8 DEF m
<1>4. CASE Hits(t, n, op) = {}
  <2>1. Latest(t, n, op, first) = first
    BY <1>4, LatestIsInitial
  <2>2. \A i \in Hits(q, m, op) : i = 1
    BY <1>2, <1>4
  <2>3. CASE q[1].op = op
    <3>1. 1 \in Hits(q, m, op) /\ \A i \in Hits(q, m, op) : i <= 1
      BY <1>2, <2>2, <2>3
    <3>2. IsLast(q, m, op, 1)
      BY <3>1 DEF IsLast
    <3>3. Latest(q, m, op, initial) = q[1].value
      BY <1>1, <3>2, LatestIsLast
    <3> QED BY <2>1, <2>3, <3>3 DEF m
  <2>4. CASE q[1].op # op
    <3>1. Hits(q, m, op) = {}
      BY <1>2, <2>2, <2>4
    <3>2. Latest(q, m, op, initial) = initial
      BY <3>1, LatestIsInitial
    <3> QED BY <2>1, <2>4, <3>2 DEF m
  <2> QED BY <2>3, <2>4
<1> QED BY <1>3, <1>4

\* Applying the oldest write first changes nothing about the later ones.
LEMMA LatestApplied ==
    ASSUME NEW q \in Seq(Write), q # <<>>, NEW n \in 0..Len(q) - 1, NEW op,
           NEW initial
    PROVE  Latest(q, n + 1, op, initial) =
               Latest(Tail(q), n, op,
                      IF q[1].op = op THEN q[1].value ELSE initial)
<1> DEFINE t == Tail(q)
           first == IF q[1].op = op THEN q[1].value ELSE initial
<1>1. n \in Nat /\ Follows(t, q, n)
  BY DEF Follows
<1>2. first = IF q[1].op = op THEN q[1].value ELSE initial
  OBVIOUS
<1> HIDE DEF t, first
<1>3. Latest(q, n + 1, op, initial) = Latest(t, n, op, first)
  BY <1>1, <1>2, LatestShifted
<1> QED BY <1>3 DEF t, first

----------------------------------------------------------------------------
(* The inductive invariant *)

\* What mainService can be: a category, missing, or empty.
Mains == Categories \cup {None, Empty}

\* The form is built from a document that was read, and only an open form has
\* a frame to draw.
FormIsLoaded ==
    /\ screen = "open" => snapshot \in Record
    /\ dirty => screen = "open"

\* Until the categories have come for the first time, no category can be chosen:
\* the one the form was opened with is still the one that will be stored.
ListingFollows ==
    /\ screen # "open" => dropdown = Empty
    /\ screen = "open" /\ categories # "listed" /\ ~stale =>
           View.main = snapshot.main

\* A write that stores a checked service.
Checked(w) == w.op = "service" /\ w.value.checked

\* A checked service in the queue is preceded, in the queue or in the document,
\* by a main category: what ImplementsRecord needs when the service is applied.
ServiceHasMain ==
    \A i \in DOMAIN queue :
        Checked(queue[i]) => After(i, "main", stored.main) \in Categories

\* The inductive invariant of the screen and its writes.
ConfigInv ==
    /\ TypeOK
    /\ FormIsLoaded
    /\ ListingFollows
    /\ DropdownIsStored
    /\ ServiceHasMain

\* After is Latest of the queue there is.
LEMMA AfterIs ==
    ASSUME NEW n, NEW op, NEW initial
    PROVE  After(n, op, initial) = Latest(queue, n, op, initial)
BY DEF After, Latest, Pick, Hits

\* The same in the state after a step.
LEMMA AfterIsNext ==
    ASSUME NEW n, NEW op
    PROVE  /\ After(n, op, stored.main)' =
                  Latest(queue', n, op, stored.main')
           /\ After(n, op, stored.service)' =
                  Latest(queue', n, op, stored.service')
BY DEF After, Latest, Pick, Hits

\* What a queued write leaves in its field is of the field's type.
LEMMA LatestType ==
    ASSUME NEW q \in Seq(Write), NEW n \in 0..Len(q)
    PROVE  /\ \A m \in Mains : Latest(q, n, "main", m) \in Mains
           /\ \A s \in Services \cup {None} :
                  Latest(q, n, "service", s) \in Services \cup {None}
<1>1. n \in Nat /\ \A i \in 1..n : q[i] \in Write
  OBVIOUS
<1>2. \A i \in 1..n : q[i].op = "main" => q[i].value \in Mains
  BY <1>1 DEF Write, Mains
<1>3. \A i \in 1..n : q[i].op = "service" => q[i].value \in Services
  BY <1>1 DEF Write
<1>4. ASSUME NEW op, NEW initial
      PROVE  \/ Latest(q, n, op, initial) = initial
             \/ \E k \in 1..n : /\ q[k].op = op
                                /\ Latest(q, n, op, initial) = q[k].value
  <2>1. CASE Hits(q, n, op) = {}
    BY <2>1, LatestIsInitial
  <2>2. CASE Hits(q, n, op) # {}
    <3>1. PICK k \in 1..n : IsLast(q, n, op, k)
      BY <1>1, <2>2, LastHit
    <3>2. k \in Nat /\ q[k].op = op
      BY <3>1 DEF IsLast, Hits
    <3>3. Latest(q, n, op, initial) = q[k].value
      BY <1>1, <3>1, <3>2, LatestIsLast
    <3> QED BY <3>2, <3>3
  <2> QED BY <2>1, <2>2
<1> QED BY <1>2, <1>3, <1>4

\* The document with the queued writes on top of it is a document.
LEMMA ViewType ==
    ASSUME TypeOK
    PROVE  /\ View \in Record
           /\ View.main = Latest(queue, Len(queue), "main", stored.main)
           /\ View.service = Latest(queue, Len(queue), "service", stored.service)
<1>1. /\ queue \in Seq(Write) /\ stored.main \in Mains
      /\ stored.service \in Services \cup {None} /\ Len(queue) \in 0..Len(queue)
  BY DEF TypeOK, Record, Mains
<1> DEFINE m == Latest(queue, Len(queue), "main", stored.main)
           s == Latest(queue, Len(queue), "service", stored.service)
<1>2. m \in Mains /\ s \in Services \cup {None}
  BY <1>1, LatestType
<1>3. View = [main |-> m, service |-> s]
  BY AfterIs DEF View
<1> HIDE DEF m, s
<1>4. View \in Record /\ View.main = m /\ View.service = s
  BY <1>2, <1>3 DEF Record, Mains
<1> QED BY <1>4 DEF m, s

\* Filling the fields from a document keeps them typed.
LEMMA FillType ==
    ASSUME NEW snap \in Record, Fill(snap)
    PROVE  text' \in Texts \cup {Empty} /\ imageUrls' \subseteq Files
<1>1. snap.service \in Services \cup {None}
  BY DEF Record
<1> QED BY <1>1 DEF Fill, TextOf, ImagesOf, Services

\* ServiceHasMain, of any queue and any stored main category.
ServiceFits(q, m) ==
    \A i \in DOMAIN q : Checked(q[i]) => Latest(q, i, "main", m) \in Categories

\* The parts of the invariant about the server, as facts about its two values.
LEMMA ServerParts ==
    /\ ServiceHasMain <=> ServiceFits(queue, stored.main)
    /\ ServiceHasMain' <=> ServiceFits(queue', stored.main')
    /\ View.main = Latest(queue, Len(queue), "main", stored.main)
    /\ View'.main = Latest(queue', Len(queue'), "main", stored.main')
<1>1. ServiceHasMain <=> ServiceFits(queue, stored.main)
  BY AfterIs, Zenon DEF ServiceHasMain, ServiceFits
<1>2. ServiceHasMain' <=> ServiceFits(queue', stored.main')
  BY AfterIsNext, Zenon DEF ServiceHasMain, ServiceFits
<1>3. View.main = Latest(queue, Len(queue), "main", stored.main)
  BY AfterIs DEF View
<1>4. View'.main = After(Len(queue), "main", stored.main)'
  BY DEF View
<1>5. After(Len(queue), "main", stored.main)' =
          Latest(queue', Len(queue'), "main", stored.main')
  BY DEF After, Latest, Pick, Hits
<1> QED BY <1>1, <1>2, <1>3, <1>4, <1>5

\* A step that neither queues nor applies a write.
LEMMA ServerFrame ==
    ASSUME UNCHANGED serverVars
    PROVE  View'.main = View.main /\ (ServiceHasMain => ServiceHasMain')
BY ServerParts DEF serverVars

\* One more write: the services queued before it fit as they did, and it fits
\* when it is no checked service or comes after a main category.
LEMMA FitsAppended ==
    ASSUME NEW q \in Seq(Write), NEW w \in Write, NEW m \in Mains,
           ServiceFits(q, m),
           Checked(w) => Latest(q, Len(q), "main", m) \in Categories
    PROVE  ServiceFits(Append(q, w), m)
<1> DEFINE r == Append(q, w)
           n == Len(q)
           k == n + 1
<1>1. n \in Nat /\ r[k] = w /\ DOMAIN r = 1..k /\ DOMAIN q = 1..n
      /\ \A i \in 1..n : r[i] = q[i]
  OBVIOUS
<1>2. Latest(r, k, "main", m) =
          IF w.op = "main" THEN w.value ELSE Latest(q, n, "main", m)
  BY LatestAppended
<1>3. \A i \in 1..k : i \in 1..n \/ i = k
  BY <1>1
<1>4. \A i \in 1..n : i \in Nat /\ \A j \in 1..i : j \in 1..n
  BY <1>1
<1> HIDE DEF r, n, k
<1>5. SUFFICES ASSUME NEW i \in 1..k, Checked(r[i])
               PROVE  Latest(r, i, "main", m) \in Categories
  BY <1>1 DEF ServiceFits, r
<1>6. CASE i = k
  BY <1>1, <1>2, <1>5, <1>6 DEF n, Checked
<1>7. CASE i \in 1..n
  <2>1. Latest(q, i, "main", m) \in Categories
    BY <1>1, <1>5, <1>7 DEF ServiceFits
  <2>2. i \in Nat /\ \A j \in 1..i : r[j] = q[j]
    BY <1>1, <1>4, <1>7
  <2>3. Latest(r, i, "main", m) = Latest(q, i, "main", m)
    BY <2>2, LatestOfPrefix
  <2> QED BY <2>1, <2>3
<1> QED BY <1>3, <1>6, <1>7

\* A queued main category is what the document will have.
LEMMA MainQueued ==
    ASSUME TypeOK, ServiceHasMain, NEW c \in Choices, Enqueue("main", c)
    PROVE  View'.main = c /\ ServiceHasMain' /\ queue' \in Seq(Write)
<1> DEFINE w == [op |-> "main", value |-> c]
<1>1. w \in Write /\ w.op = "main" /\ w.value = c
  BY DEF Write, Choices
<1>2. queue \in Seq(Write) /\ stored.main \in Mains
  BY DEF TypeOK, Record, Mains
<1>3. queue' = Append(queue, w) /\ stored' = stored
  BY DEF Enqueue
<1> HIDE DEF w
<1>4. queue' \in Seq(Write) /\ Len(queue') = Len(queue) + 1
  BY <1>1, <1>2, <1>3
<1>5. ServiceFits(queue', stored.main)
  BY <1>1, <1>2, <1>3, FitsAppended, ServerParts DEF Checked
<1>6. Latest(queue', Len(queue'), "main", stored.main) = c
  <2>1. Latest(Append(queue, w), Len(queue) + 1, "main", stored.main) =
            IF w.op = "main" THEN w.value
            ELSE Latest(queue, Len(queue), "main", stored.main)
    BY <1>1, <1>2, LatestAppended
  <2>2. Latest(Append(queue, w), Len(queue) + 1, "main", stored.main) = c
    BY <1>1, <2>1
  <2> QED BY <1>3, <1>4, <2>2
<1> QED BY <1>3, <1>4, <1>5, <1>6, ServerParts

\* A queued service changes no main category, and fits when there is one or it
\* was not checked.
LEMMA ServiceQueued ==
    ASSUME TypeOK, ServiceHasMain, NEW s \in Services, Enqueue("service", s),
           s.checked => View.main \in Categories
    PROVE  View'.main = View.main /\ ServiceHasMain' /\ queue' \in Seq(Write)
<1> DEFINE w == [op |-> "service", value |-> s]
<1>1. w \in Write /\ w.op = "service" /\ (Checked(w) => s.checked)
  BY DEF Write, Checked
<1>2. queue \in Seq(Write) /\ stored.main \in Mains
  BY DEF TypeOK, Record, Mains
<1>3. queue' = Append(queue, w) /\ stored' = stored
  BY DEF Enqueue
<1> HIDE DEF w
<1>4. queue' \in Seq(Write) /\ Len(queue') = Len(queue) + 1
  BY <1>1, <1>2, <1>3
<1>5. ServiceFits(queue', stored.main)
  BY <1>1, <1>2, <1>3, FitsAppended, ServerParts
<1>6. Latest(queue', Len(queue'), "main", stored.main) =
          Latest(queue, Len(queue), "main", stored.main)
  BY <1>1, <1>2, <1>3, <1>4, LatestAppended
<1> QED BY <1>3, <1>4, <1>5, <1>6, ServerParts

\* Applying the oldest write changes nothing about what the document will have.
LEMMA WriteApplied ==
    ASSUME TypeOK, ServiceHasMain, Acknowledge
    PROVE  /\ View'.main = View.main /\ ServiceHasMain'
           /\ queue' \in Seq(Write) /\ stored' \in Record
<1> DEFINE q == queue
           t == Tail(q)
           w == q[1]
           m == stored.main
           first == IF w.op = "main" THEN w.value ELSE m
<1>1. q \in Seq(Write) /\ q # <<>> /\ w \in Write /\ Head(q) = w
  BY DEF TypeOK, Acknowledge
<1>2. /\ t \in Seq(Write) /\ Len(t) = Len(q) - 1 /\ Len(q) \in Nat
      /\ Len(q) # 0 /\ \A i \in 1..Len(t) : t[i] = q[i + 1]
  BY <1>1
<1>3. queue' = t
  BY DEF Acknowledge
<1>4. stored' \in Record /\ stored'.main = first
  <2>1. CASE w.op = "main"
    <3>1. stored' = [stored EXCEPT !.main = w.value] /\ w.value \in Choices
      BY <1>1, <2>1 DEF Acknowledge, Write, Choices
    <3> QED BY <2>1, <3>1 DEF TypeOK, Record, Choices
  <2>2. CASE w.op # "main"
    <3>1. stored' = [stored EXCEPT !.service = w.value] /\ w.value \in Services
      BY <1>1, <2>2 DEF Acknowledge, Write
    <3> QED BY <2>2, <3>1 DEF TypeOK, Record
  <2> QED BY <2>1, <2>2
<1>5. \A n \in 0..Len(q) - 1 :
          Latest(q, n + 1, "main", m) = Latest(t, n, "main", first)
  BY <1>1, LatestApplied
<1> HIDE DEF t, w, m, first
<1>6. Latest(t, Len(t), "main", first) = Latest(q, Len(q), "main", m)
  <2>1. Len(t) \in 0..Len(q) - 1 /\ Len(t) + 1 = Len(q)
    BY <1>2
  <2> QED BY <1>5, <2>1
<1>7. ServiceFits(t, first)
  <2>1. ServiceFits(q, m)
    BY ServerParts DEF m
  <2> SUFFICES ASSUME NEW i \in 1..Len(t), Checked(t[i])
               PROVE  Latest(t, i, "main", first) \in Categories
    BY <1>2 DEF ServiceFits
  <2>2. i \in 0..Len(q) - 1 /\ i + 1 \in DOMAIN q
    BY <1>1, <1>2
  <2>3. Checked(q[i + 1])
    BY <1>2
  <2>4. Latest(q, i + 1, "main", m) \in Categories
    BY <2>1, <2>2, <2>3 DEF ServiceFits
  <2> QED BY <1>5, <2>2, <2>4
<1> QED BY <1>2, <1>3, <1>4, <1>6, <1>7, ServerParts DEF m

----------------------------------------------------------------------------
(* Every step keeps the invariant *)

\* No picture and no write: the empty sequence, at every type it is used at.
LEMMA EmptyTypes ==
    /\ <<>> \in Seq(Files) /\ <<>> \in Seq(Write)
    /\ [r \in Runs |-> <<>>] \in [Runs -> Seq(Files)]
<1>1. <<>> \in Seq(Files) /\ <<>> \in Seq(Write)
  OBVIOUS
<1>2. ASSUME NEW e \in Seq(Files) PROVE [r \in Runs |-> e] \in [Runs -> Seq(Files)]
  OBVIOUS
<1> QED BY <1>1, <1>2, Zenon

\* The empty form and the empty queue fit together.
LEMMA ConfigInvInit == Init => ConfigInv
<1> SUFFICES ASSUME Init PROVE ConfigInv
  OBVIOUS
<1>1. images \in Seq(Files) /\ queue \in Seq(Write) /\ runs \in [Runs -> Seq(Files)]
  BY EmptyTypes, Zenon DEF Init
<1>2. TypeOK
  BY <1>1 DEF Init, TypeOK, Choices
<1>3. FormIsLoaded /\ ListingFollows /\ DropdownIsStored
  BY DEF Init, FormIsLoaded, ListingFollows, DropdownIsStored
<1>4. ServiceHasMain
  BY DEF Init, ServiceHasMain
<1> QED BY <1>2, <1>3, <1>4 DEF ConfigInv

\* What the picker answers is a sequence of pictures.
LEMMA PicksType == \A picked \in Picks : picked \in Seq(Files)
<1> SUFFICES ASSUME NEW picked \in Picks PROVE picked \in Seq(Files)
  OBVIOUS
<1>1. PICK n \in 1..2 : picked \in [1..n -> Files]
  BY DEF Picks
<1> QED BY <1>1, SeqDef

\* The dropdown is built with the main category the document will have.
LEMMA MainShown ==
    ASSUME NEW snap \in Record
    PROVE  /\ mainCategory(snap) \in Choices
           /\ mainCategory(snap) # Empty => mainCategory(snap) = snap.main
BY DEF mainCategory, Record, Choices

\* Every step of the screen and of the server keeps the invariant: only a
\* choice, a save and an answer touch the queue or the document, and each of
\* them leaves the dropdown and what will be stored in step.
LEMMA ConfigInvNext == ConfigInv /\ [Next]_vars => ConfigInv'
<1> SUFFICES ASSUME ConfigInv, [Next]_vars PROVE ConfigInv'
  OBVIOUS
<1> USE DEF ConfigInv
<1>1. CASE UNCHANGED vars
  <2>1. UNCHANGED serverVars
    BY <1>1 DEF vars, serverVars
  <2>2. View'.main = View.main /\ ServiceHasMain'
    BY <2>1, ServerFrame
  <2>3. TypeOK'
    BY <1>1 DEF vars, TypeOK
  <2>4. FormIsLoaded' /\ ListingFollows' /\ DropdownIsStored'
    BY <1>1, <2>2 DEF vars, FormIsLoaded, ListingFollows, DropdownIsStored
  <2> QED BY <2>2, <2>3, <2>4
<1>2. CASE initState
  <2>1. View'.main = View.main /\ ServiceHasMain'
    BY <1>2, ServerFrame DEF initState
  <2>2. TypeOK'
    BY <1>2 DEF initState, TypeOK, serverVars, formVars, dropVars, pickVars
  <2>3. FormIsLoaded' /\ ListingFollows' /\ DropdownIsStored'
    BY <1>2 DEF initState, FormIsLoaded, ListingFollows, DropdownIsStored, formVars,
                  dropVars
  <2> QED BY <2>1, <2>2, <2>3
<1>3. CASE Loaded
  <2>1. View'.main = View.main /\ ServiceHasMain'
    BY <1>3, ServerFrame DEF Loaded
  <2>2. View \in Record
    BY ViewType
  <2>3. text' \in Texts \cup {Empty} /\ imageUrls' \subseteq Files
    BY <1>3, <2>2, FillType DEF Loaded
  <2>4. TypeOK'
    BY <1>3, <2>2, <2>3 DEF Loaded, TypeOK, serverVars, dropVars, pickVars
  <2>5. FormIsLoaded' /\ ListingFollows' /\ DropdownIsStored'
    BY <1>3, <2>1, <2>2
       DEF Loaded, TypeOK, FormIsLoaded, ListingFollows, DropdownIsStored, dropVars
  <2> QED BY <2>1, <2>4, <2>5
<1>4. CASE LoadFails
  <2>1. View'.main = View.main /\ ServiceHasMain'
    BY <1>4, ServerFrame DEF LoadFails
  <2>2. TypeOK'
    BY <1>4 DEF LoadFails, TypeOK, serverVars, formVars, dropVars, pickVars
  <2>3. FormIsLoaded' /\ ListingFollows' /\ DropdownIsStored'
    BY <1>4 DEF LoadFails, FormIsLoaded, ListingFollows, DropdownIsStored, formVars,
                  dropVars
  <2> QED BY <2>1, <2>2, <2>3
<1>5. CASE Leave
  <2>1. View'.main = View.main /\ ServiceHasMain'
    BY <1>5, ServerFrame DEF Leave
  <2>2. TypeOK'
    <3>1. images' \in Seq(Files) /\ runs' \in [Runs -> Seq(Files)]
      BY <1>5, EmptyTypes, Zenon DEF Leave
    <3> QED BY <1>5, <3>1 DEF Leave, TypeOK, serverVars, Choices
  <2>3. FormIsLoaded' /\ ListingFollows' /\ DropdownIsStored'
    BY <1>5 DEF Leave, FormIsLoaded, ListingFollows, DropdownIsStored
  <2> QED BY <2>1, <2>2, <2>3
<1>6. ASSUME NEW t \in Texts \cup {Empty}, TypeText(t) PROVE ConfigInv'
  <2>1. View'.main = View.main /\ ServiceHasMain'
    BY <1>6, ServerFrame DEF TypeText
  <2>2. TypeOK'
    BY <1>6 DEF TypeText, TypeOK, serverVars, dropVars, pickVars
  <2>3. FormIsLoaded' /\ ListingFollows' /\ DropdownIsStored'
    BY <1>6, <2>1 DEF TypeText, FormIsLoaded, ListingFollows, DropdownIsStored, dropVars
  <2> QED BY <2>1, <2>2, <2>3
<1>7. ASSUME NEW c \in Choices, onChanged(c) PROVE ConfigInv'
  <2>1. View'.main = c /\ ServiceHasMain' /\ queue' \in Seq(Write)
    BY <1>7, MainQueued DEF onChanged
  <2>2. TypeOK'
    BY <1>7, <2>1 DEF onChanged, Enqueue, TypeOK, pickVars
  <2>3. FormIsLoaded' /\ ListingFollows' /\ DropdownIsStored'
    BY <1>7, <2>1 DEF onChanged, FormIsLoaded, ListingFollows, DropdownIsStored
  <2> QED BY <2>1, <2>2, <2>3
<1>8. CASE Rebuild
  <2>1. View'.main = View.main /\ ServiceHasMain'
    BY <1>8, ServerFrame DEF Rebuild
  <2>2. snapshot \in Record
    BY <1>8 DEF Rebuild, FormIsLoaded
  <2>3. text' \in Texts \cup {Empty} /\ imageUrls' \subseteq Files
    BY <1>8, <2>2, FillType DEF Rebuild
  <2>4. TypeOK'
    BY <1>8, <2>3 DEF Rebuild, TypeOK, serverVars, pickVars
  <2>5. FormIsLoaded' /\ ListingFollows' /\ DropdownIsStored'
    BY <1>8, <2>1 DEF Rebuild, FormIsLoaded, ListingFollows, DropdownIsStored
  <2> QED BY <2>1, <2>4, <2>5
<1>9. ASSUME NEW r \in Runs, NEW picked \in Picks, selectImages(r, picked)
      PROVE  ConfigInv'
  <2>1. View'.main = View.main /\ ServiceHasMain'
    BY <1>9, ServerFrame DEF selectImages
  <2>2. picked \in Seq(Files)
    BY PicksType
  <2>3. TypeOK'
    BY <1>9, <2>2 DEF selectImages, TypeOK, serverVars, formVars, dropVars
  <2>4. FormIsLoaded' /\ ListingFollows' /\ DropdownIsStored'
    BY <1>9, <2>1 DEF selectImages, FormIsLoaded, ListingFollows, DropdownIsStored, formVars, dropVars
  <2> QED BY <2>1, <2>3, <2>4
<1>10. ASSUME NEW r \in Runs, PickerFails(r) PROVE ConfigInv'
  <2>1. View'.main = View.main /\ ServiceHasMain'
    BY <1>10, ServerFrame DEF PickerFails
  <2>2. TypeOK'
    BY <1>10 DEF PickerFails, TypeOK, serverVars, formVars, dropVars
  <2>3. FormIsLoaded' /\ ListingFollows' /\ DropdownIsStored'
    BY <1>10, <2>1 DEF PickerFails, FormIsLoaded, ListingFollows, DropdownIsStored, formVars, dropVars
  <2> QED BY <2>1, <2>2, <2>3
<1>11. ASSUME NEW r \in Runs, Uploaded(r) PROVE ConfigInv'
  <2>1. View'.main = View.main /\ ServiceHasMain'
    BY <1>11, ServerFrame DEF Uploaded
  <2>2. Head(runs[r]) \in Files /\ Tail(runs[r]) \in Seq(Files)
    BY <1>11 DEF Uploaded, TypeOK
  <2>3. TypeOK'
    BY <1>11, <2>2 DEF Uploaded, TypeOK, serverVars, dropVars
  <2>4. FormIsLoaded' /\ ListingFollows' /\ DropdownIsStored'
    BY <1>11, <2>1 DEF Uploaded, FormIsLoaded, ListingFollows, DropdownIsStored, dropVars
  <2> QED BY <2>1, <2>3, <2>4
<1>12. ASSUME NEW r \in Runs, UploadFails(r) PROVE ConfigInv'
  <2>1. View'.main = View.main /\ ServiceHasMain'
    BY <1>12, ServerFrame DEF UploadFails
  <2>2. TypeOK'
    BY <1>12 DEF UploadFails, TypeOK, serverVars, formVars, dropVars
  <2>3. FormIsLoaded' /\ ListingFollows' /\ DropdownIsStored'
    BY <1>12, <2>1 DEF UploadFails, FormIsLoaded, ListingFollows, DropdownIsStored, formVars, dropVars
  <2> QED BY <2>1, <2>2, <2>3
<1>13. CASE Guardar
  <2> DEFINE s == [text |-> text, images |-> imageUrls,
                   checked |-> categories = "listed" /\ ~stale]
  <2>1. s \in Services
    BY <1>13 DEF Guardar, TypeOK, Services
  <2>2. s.checked => View.main \in Categories
    BY <1>13 DEF Guardar, TypeOK, DropdownIsStored, Choices
  <2>3. Enqueue("service", s)
    BY <1>13 DEF Guardar, FormService
  <2> HIDE DEF s
  <2>4. View'.main = View.main /\ ServiceHasMain' /\ queue' \in Seq(Write)
    BY <2>1, <2>2, <2>3, ServiceQueued
  <2>5. TypeOK'
    BY <1>13, <2>3, <2>4 DEF Guardar, Enqueue, TypeOK, formVars, dropVars, pickVars
  <2>6. FormIsLoaded' /\ ListingFollows' /\ DropdownIsStored'
    BY <1>13, <2>4 DEF Guardar, FormIsLoaded, ListingFollows, DropdownIsStored, formVars, dropVars
  <2> QED BY <2>4, <2>5, <2>6
<1>14. CASE Acknowledge
  <2>1. /\ View'.main = View.main /\ ServiceHasMain'
        /\ queue' \in Seq(Write) /\ stored' \in Record
    BY <1>14, WriteApplied
  <2>2. TypeOK'
    BY <1>14, <2>1 DEF Acknowledge, TypeOK, formVars, dropVars, pickVars
  <2>3. FormIsLoaded' /\ ListingFollows' /\ DropdownIsStored'
    BY <1>14, <2>1 DEF Acknowledge, FormIsLoaded, ListingFollows, DropdownIsStored, formVars, dropVars
  <2> QED BY <2>1, <2>2, <2>3
<1>15. CASE CategoriesListed
  <2>1. View'.main = View.main /\ ServiceHasMain'
    BY <1>15, ServerFrame DEF CategoriesListed
  <2>2. snapshot \in Record
    BY <1>15 DEF CategoriesListed, FormIsLoaded
  <2>3. dropdown' \in Choices /\ (dropdown' # Empty => dropdown' = snapshot.main)
    BY <1>15, <2>2, MainShown DEF CategoriesListed
  <2>4. TypeOK'
    BY <1>15, <2>3 DEF CategoriesListed, TypeOK, serverVars, pickVars
  <2>5. FormIsLoaded' /\ ListingFollows' /\ DropdownIsStored'
    BY <1>15, <2>1, <2>3
       DEF CategoriesListed, FormIsLoaded, ListingFollows, DropdownIsStored
  <2> QED BY <2>1, <2>4, <2>5
<1>16. CASE CategoriesFail
  <2>1. View'.main = View.main /\ ServiceHasMain'
    BY <1>16, ServerFrame DEF CategoriesFail
  <2>2. TypeOK'
    BY <1>16 DEF CategoriesFail, TypeOK, serverVars, pickVars, Choices
  <2>3. FormIsLoaded' /\ ListingFollows' /\ DropdownIsStored'
    BY <1>16, <2>1 DEF CategoriesFail, FormIsLoaded, ListingFollows, DropdownIsStored
  <2> QED BY <2>1, <2>2, <2>3
<1> QED
  BY <1>1, <1>2, <1>3, <1>4, <1>5, <1>6, <1>7, <1>8, <1>9, <1>10, <1>11, <1>12,
     <1>13, <1>14, <1>15, <1>16 DEF Next

----------------------------------------------------------------------------
(* Theorems *)

\* The invariant holds in every state the screen and the server reach.
THEOREM ConfigIsConsistent == Spec => []ConfigInv
BY ConfigInvInit, ConfigInvNext, PTL DEF Spec

\* The fields, the queue and the document keep their types, through failed
\* loads and uploads, overlapping runs of selectImages and a left tab.
THEOREM ConfigTypeCorrect == Spec => []TypeOK
<1>1. ConfigInv => TypeOK
  BY DEF ConfigInv
<1> QED BY <1>1, ConfigIsConsistent, PTL

\* The category the dropdown of ProfilePrestadorConfigScreen shows is the one
\* that the document will have once the queued writes are applied: the value
\* futureUser read included the pending writes, and onChanged sends every later
\* choice at once.  The exception is a dropdown that came back after its list
\* of categories had failed.
THEOREM DropdownAlwaysStored == Spec => []DropdownIsStored
<1>1. ConfigInv => DropdownIsStored
  BY DEF ConfigInv
<1> QED BY <1>1, ConfigIsConsistent, PTL

\* The document starts as PrestadorRecord allows.
LEMMA RecordInit == Init => ProviderRecord!Init
BY DEF Init, Record, ProviderRecord!Init

\* Every step of the screen is invisible in the document, and an applied write
\* changes it as PrestadorRecord allows.
LEMMA RecordNext ==
    ConfigInv /\ [Next]_vars =>
        [ProviderRecord!Next]_<<stored.main, stored.service>>
<1> SUFFICES ASSUME ConfigInv, [Next]_vars,
                    stored'.main # stored.main \/ stored'.service # stored.service
             PROVE  ProviderRecord!Next
  OBVIOUS
<1>1. Acknowledge
  BY DEF Next, vars, initState, Loaded, LoadFails, Leave, TypeText, onChanged,
         Rebuild, selectImages, PickerFails, Uploaded, UploadFails, Guardar,
         CategoriesListed, CategoriesFail, Enqueue, serverVars
<1> DEFINE w == queue[1]
<1>2. w \in Write /\ Head(queue) = w /\ 1 \in DOMAIN queue
  BY <1>1 DEF ConfigInv, TypeOK, Acknowledge
<1>3. CASE w.op = "main"
  <2>1. stored' = [stored EXCEPT !.main = w.value] /\ w.value \in Categories \cup {Empty}
    BY <1>1, <1>2, <1>3 DEF Acknowledge, Write
  <2>2. stored'.main = w.value /\ stored'.service = stored.service
    BY <2>1 DEF ConfigInv, TypeOK, Record
  <2> QED BY <2>1, <2>2 DEF ProviderRecord!Next, ProviderRecord!ChangeMain
<1>4. CASE w.op = "service"
  <2>1. stored' = [stored EXCEPT !.service = w.value] /\ w.value \in Services
    BY <1>1, <1>2, <1>4 DEF Acknowledge, Write
  <2>2. stored'.service = w.value /\ stored'.main = stored.main
    BY <2>1 DEF ConfigInv, TypeOK, Record
  <2>3. w.value.checked => After(1, "main", stored.main) \in Categories
    BY <1>2, <1>4 DEF ConfigInv, ServiceHasMain, Checked
  <2>4. After(1, "main", stored.main) = stored.main
    <3>1. Hits(queue, 1, "main") = {}
      BY <1>4 DEF Hits
    <3> QED BY <3>1, AfterIs, LatestIsInitial
  <2> QED BY <2>1, <2>2, <2>3, <2>4
          DEF ProviderRecord!Next, ProviderRecord!StoreService
<1> QED BY <1>2, <1>3, <1>4 DEF Write

\* A service that was validated together with its dropdown is stored only for a
\* provider whose main category is stored by then, although updateMainService
\* and the save of 'GUARDAR' are separate writes of separate widgets, the tab
\* may be left and reopened between them, and the process may end.
THEOREM ImplementsTheRecord == Spec => ImplementsRecord
BY ConfigIsConsistent, RecordInit, RecordNext, PTL
   DEF Spec, ImplementsRecord, ProviderRecord!Spec
=============================================================================
