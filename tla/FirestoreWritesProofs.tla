----------------------- MODULE FirestoreWritesProofs -----------------------
(***************************************************************************)
(* Proofs about FirestoreWrites for any set of users and any bounds: the   *)
(* client's own consistency.  ClientInv is inductive; each action is first *)
(* reduced to what it does to the queues, the stream and the call, then    *)
(* the parts of the invariant are proved one by one from that.             *)
(***************************************************************************)
EXTENDS FirestoreWrites, SequenceTheorems, FiniteSetTheorems, TLAPS

-----------------------------------------------------------------------------
(* The operators *)

\* A bounded set of natural numbers has a greatest element.
LEMMA MaxExists ==
    ASSUME NEW S \in SUBSET Nat, S # {}, NEW n \in Nat, \A x \in S : x <= n
    PROVE  Max(S) \in S /\ \A x \in S : x <= Max(S)
<1> DEFINE Above(x) == {y \in S : y > x}
           T == {Above(x) : x \in S}
<1>1. T \subseteq FiniteSubsetsOf(S)
  <2>1. IsFiniteSet(S)
    BY FS_BoundedSetOfNaturals
  <2>2. SUBSET S = FiniteSubsetsOf(S)
    BY <2>1, FS_FiniteSubsetsOfFinite
  <2> QED BY <2>2
<1>2. T # {}
  OBVIOUS
<1>3. PICK A \in T : \A B \in T : ~(<<B, A>> \in StrictSubsetOrdering(S))
  <2> HIDE DEF T
  <2>1. IsWellFoundedOn(StrictSubsetOrdering(S), FiniteSubsetsOf(S))
    BY FS_StrictSubsetOrderingWellFounded
  <2> QED BY <1>1, <1>2, <2>1, WFMin
<1>4. PICK x \in S : A = Above(x)
  BY <1>3
<1>5. ASSUME NEW y \in S, y > x PROVE FALSE
  <2>1. Above(y) \in T
    OBVIOUS
  <2>4. Above(y) \subseteq Above(x)
    <3> SUFFICES ASSUME NEW z \in S, z > y PROVE z > x
      OBVIOUS
    <3>1. x \in Nat /\ y \in Nat /\ z \in Nat
      OBVIOUS
    <3> QED BY <1>5, <3>1
  <2>2. y \in Above(x) /\ y \notin Above(y)
    BY <1>5
  <2>3. <<Above(y), Above(x)>> \in StrictSubsetOrdering(S)
    BY <2>4, <2>2 DEF StrictSubsetOrdering
  <2> QED BY <1>3, <1>4, <2>1, <2>3
<1>6. \A y \in S : x >= y
  BY <1>5
<1> QED BY <1>6 DEF Max

\* The least element of a set is its minimum.
LEMMA MinIs ==
    ASSUME NEW S \in SUBSET Int, NEW x \in S, \A y \in S : x <= y
    PROVE  Min(S) = x
<1>1. Min(S) \in S /\ \A y \in S : Min(S) <= y
  BY DEF Min
<1>2. Min(S) <= x /\ x <= Min(S) /\ x \in Int /\ Min(S) \in Int
  BY <1>1
<1> QED BY <1>2

\* The batches of a queue have increasing ids.
Increasing(q) == \A i, j \in DOMAIN q : i < j => q[i].id < q[j].id

\* SubSeq, position by position.
LEMMA SubSeqIs ==
    ASSUME NEW S, NEW s \in Seq(S), NEW m \in 1 .. Len(s) + 1,
           NEW n \in m - 1 .. Len(s)
    PROVE  /\ SubSeq(s, m, n) \in Seq(S)
           /\ Len(SubSeq(s, m, n)) = n - m + 1
           /\ \A i \in 1 .. n - m + 1 : SubSeq(s, m, n)[i] = s[m + i - 1]
<1>1. \A i \in m .. n : s[i] \in S
  OBVIOUS
<1>2. m \in Int /\ n \in Int /\ Len(s) \in Nat
  OBVIOUS
<1>3. /\ SubSeq(s, m, n) \in Seq(S)
      /\ Len(SubSeq(s, m, n)) = IF m <= n THEN n - m + 1 ELSE 0
      /\ \A i \in 1 .. n - m + 1 : SubSeq(s, m, n)[i] = s[m + i - 1]
  BY <1>1, <1>2, SubSeqProperties
<1> QED BY <1>2, <1>3

\* A position that is not the last one has a successor.
LEMMA InnerIndex ==
    ASSUME NEW n \in Nat, NEW k \in 0 .. n, k # 0, k # n
    PROVE  k \in 1 .. n /\ k + 1 \in 1 .. n /\ k < k + 1
OBVIOUS

\* The batches after the k-th of an ordered queue are the ones that follow it.
LEMMA BatchesAfterIs ==
    ASSUME NEW q \in Seq(Batch), Increasing(q), NEW k \in 0 .. Len(q),
           NEW id \in Int, k = 0 => id = kBatchIdUnknown,
           k # 0 => id = q[k].id
    PROVE  BatchesAfter(q, id) = SubSeq(q, k + 1, Len(q))
<1> DEFINE S == {i \in DOMAIN q : q[i].id > id} \cup {Len(q) + 1}
<1>1. DOMAIN q = 1 .. Len(q) /\ Len(q) \in Nat
  OBVIOUS
<1>2. \A i \in 1 .. Len(q) : q[i].id \in Nat
  <2>1. \A i \in 1 .. Len(q) : q[i] \in Batch
    OBVIOUS
  <2> QED BY <2>1 DEF Batch
<1>3. k + 1 \in S
  <2>1. CASE k = Len(q)
    BY <2>1
  <2>2. CASE k = 0 /\ k # Len(q)
    <3>1. 1 \in 1 .. Len(q) /\ q[1].id \in Nat
      BY <1>1, <1>2, <2>2
    <3>2. q[1].id > id
      BY <3>1, <2>2 DEF kBatchIdUnknown
    <3> QED BY <1>1, <2>2, <3>1, <3>2
  <2>3. CASE k # 0 /\ k # Len(q)
    <3>1. k \in 1 .. Len(q) /\ k + 1 \in 1 .. Len(q) /\ k < k + 1
      BY <1>1, <2>3, InnerIndex
    <3>2. q[k].id < q[k + 1].id
      BY <3>1, <1>1 DEF Increasing
    <3>3. q[k].id \in Nat /\ q[k + 1].id \in Nat
      BY <3>1, <1>2
    <3> QED BY <1>1, <2>3, <3>1, <3>2, <3>3
  <2> QED BY <2>1, <2>2, <2>3
<1>4. ASSUME NEW i \in S PROVE k + 1 <= i /\ i \in Int
  <2>1. CASE i = Len(q) + 1
    BY <2>1, <1>1
  <2>2. CASE i \in 1 .. Len(q) /\ q[i].id > id
    <3>1. SUFFICES ASSUME i <= k PROVE FALSE
      BY <2>2
    <3>2. k \in 1 .. Len(q) /\ k # 0
      BY <3>1, <2>2, <1>1
    <3>3. i = k \/ q[i].id < q[k].id
      BY <3>1, <3>2, <2>2, <1>1 DEF Increasing
    <3>4. q[i].id \in Nat /\ q[k].id \in Nat
      BY <3>2, <2>2, <1>2
    <3> QED BY <3>2, <3>3, <3>4, <2>2
  <2> QED BY <2>1, <2>2, <1>1
<1>5. Min(S) = k + 1
  <2>1. S \in SUBSET Int /\ \A i \in S : k + 1 <= i
    BY <1>4
  <2> HIDE DEF S
  <2> QED BY <2>1, <1>3, MinIs
<1> QED BY <1>5 DEF BatchesAfter

\* How many batches of a queue the pipeline takes.
Room(q) == Min({MaxPending, Len(q)})

\* The smaller of two numbers.
LEMMA MinOfTwo ==
    ASSUME NEW a \in Int, NEW b \in Int
    PROVE  Min({a, b}) = IF a <= b THEN a ELSE b
<1>1. CASE a <= b
  <2>1. \A y \in {a, b} : a <= y
    BY <1>1
  <2> QED BY <1>1, <2>1, MinIs
<1>2. CASE ~(a <= b)
  <2>1. \A y \in {a, b} : b <= y
    BY <1>2
  <2> QED BY <1>2, <2>1, MinIs
<1> QED BY <1>1, <1>2

\* The pipeline takes what there is, at most MaxPending, and something if there
\* is anything.
LEMMA RoomIs ==
    ASSUME NEW q \in Seq(Batch)
    PROVE  Room(q) = (IF MaxPending <= Len(q) THEN MaxPending ELSE Len(q))
           /\ Room(q) \in 0 .. Len(q) /\ Room(q) <= MaxPending
           /\ (q # <<>> => Room(q) > 0)
<1>1. MaxPending \in Nat \ {0} /\ Len(q) \in Nat /\ (q # <<>> => Len(q) # 0)
  BY WritesAssumption
<1>2. Room(q) = IF MaxPending <= Len(q) THEN MaxPending ELSE Len(q)
  BY <1>1, MinOfTwo DEF Room
<1> QED BY <1>1, <1>2

\* FillWritePipeline adds what is missing from the head of the queue.
LEMMA NewBatchesIs ==
    ASSUME NEW q \in Seq(Batch), Increasing(q), NEW k \in 0 .. Len(q),
           k <= MaxPending
    PROVE  LET p == SubSeq(q, 1, k)
           IN  /\ NewBatches(q, p) = SubSeq(q, k + 1, Room(q))
               /\ p \o NewBatches(q, p) = SubSeq(q, 1, Room(q))
<1> DEFINE p == SubSeq(q, 1, k)
           last == IF p = <<>> THEN kBatchIdUnknown ELSE Last(p).id
           rest == BatchesAfter(q, last)
<1>1. /\ p \in Seq(Batch) /\ Len(p) = k
      /\ \A i \in 1 .. k : p[i] = q[i]
  <2>1. 1 \in 1 .. Len(q) + 1 /\ k \in 1 - 1 .. Len(q) /\ k - 1 + 1 = k
    OBVIOUS
  <2>2. /\ p \in Seq(Batch) /\ Len(p) = k - 1 + 1
        /\ \A i \in 1 .. k - 1 + 1 : p[i] = q[1 + i - 1]
    BY <2>1, SubSeqIs
  <2> QED BY <2>1, <2>2
<1>2. /\ last \in Int
      /\ k = 0 => last = kBatchIdUnknown
      /\ k # 0 => last = q[k].id
  <2>1. CASE k = 0
    <3>1. p = <<>>
      BY <1>1, <2>1
    <3> QED BY <3>1, <2>1 DEF kBatchIdUnknown
  <2>2. CASE k # 0
    <3>1. p # <<>> /\ Last(p) = q[k] /\ q[k] \in Batch
      BY <1>1, <2>2 DEF Last
    <3> QED BY <3>1, <2>2 DEF Batch
  <2> QED BY <2>1, <2>2
<1>3. rest = SubSeq(q, k + 1, Len(q))
  <2> HIDE DEF last
  <2> QED BY <1>2, BatchesAfterIs
<1>4. /\ rest \in Seq(Batch) /\ Len(rest) = Len(q) - k
      /\ \A i \in 1 .. Len(q) - k : rest[i] = q[k + i]
  <2> DEFINE m == k + 1
             n == Len(q)
  <2>1. m \in 1 .. Len(q) + 1 /\ n \in m - 1 .. Len(q)
        /\ n - m + 1 = Len(q) - k /\ Len(q) \in Nat
    OBVIOUS
  <2>2. /\ SubSeq(q, m, n) \in Seq(Batch)
        /\ Len(SubSeq(q, m, n)) = n - m + 1
        /\ \A i \in 1 .. n - m + 1 : SubSeq(q, m, n)[i] = q[m + i - 1]
    <3> HIDE DEF m, n
    <3> QED BY <2>1, SubSeqIs
  <2>3. \A i \in 1 .. Len(q) - k : (k + 1) + i - 1 = k + i
    OBVIOUS
  <2> HIDE DEF rest
  <2> QED BY <1>3, <2>1, <2>2, <2>3
<1>5. /\ MaxPending \in Nat /\ Len(q) \in Nat /\ Room(q) \in k .. Len(q)
      /\ Min({Len(rest), MaxPending - Len(p)}) = Room(q) - k
  <2>1. MaxPending \in Nat /\ Len(q) \in Nat
    BY WritesAssumption
  <2>2. Min({Len(q) - k, MaxPending - k}) =
            IF Len(q) - k <= MaxPending - k THEN Len(q) - k ELSE MaxPending - k
    BY <2>1, MinOfTwo
  <2> HIDE DEF rest, p
  <2> QED BY <1>1, <1>4, <2>1, <2>2, RoomIs
<1> DEFINE new == SubSeq(rest, 1, Room(q) - k)
           fill == SubSeq(q, k + 1, Room(q))
<1>6. NewBatches(q, p) = new
  BY <1>5 DEF NewBatches
<1>7. /\ fill \in Seq(Batch) /\ Len(fill) = Room(q) - k
      /\ \A i \in 1 .. Room(q) - k : fill[i] = q[k + i]
  <2>1. k + 1 \in 1 .. Len(q) + 1 /\ Room(q) \in k + 1 - 1 .. Len(q)
        /\ Room(q) - (k + 1) + 1 = Room(q) - k
    BY <1>5
  <2>2. /\ fill \in Seq(Batch) /\ Len(fill) = Room(q) - (k + 1) + 1
        /\ \A i \in 1 .. Room(q) - (k + 1) + 1 : fill[i] = q[(k + 1) + i - 1]
    BY <2>1, SubSeqIs
  <2>3. \A i \in 1 .. Room(q) - k : (k + 1) + i - 1 = k + i
    BY <1>5
  <2> HIDE DEF fill
  <2> QED BY <2>1, <2>2, <2>3
<1>8. /\ new \in Seq(Batch) /\ Len(new) = Room(q) - k
      /\ \A i \in 1 .. Room(q) - k : new[i] = rest[i]
  <2> HIDE DEF rest
  <2>1. 1 \in 1 .. Len(rest) + 1 /\ Room(q) - k \in 1 - 1 .. Len(rest)
        /\ Room(q) - k - 1 + 1 = Room(q) - k
    BY <1>4, <1>5
  <2>2. /\ new \in Seq(Batch) /\ Len(new) = Room(q) - k - 1 + 1
        /\ \A i \in 1 .. Room(q) - k - 1 + 1 : new[i] = rest[1 + i - 1]
    BY <1>4, <2>1, SubSeqIs
  <2>3. \A i \in 1 .. Room(q) - k : 1 + i - 1 = i
    BY <1>5
  <2> HIDE DEF new
  <2> QED BY <2>1, <2>2, <2>3
<1>9. new = fill
  <2> HIDE DEF new, fill, rest
  <2>1. \A i \in 1 .. Len(new) : new[i] = fill[i]
    <3> SUFFICES ASSUME NEW i \in 1 .. Len(new) PROVE new[i] = fill[i]
      OBVIOUS
    <3>1. i \in 1 .. Room(q) - k /\ i \in 1 .. Len(q) - k
      BY <1>5, <1>8
    <3> QED BY <3>1, <1>4, <1>7, <1>8
  <2> QED BY <1>7, <1>8, <2>1, SeqEqual
<1>10. p \o fill = SubSeq(q, 1, Room(q))
  <2>1. 1 \in 1 .. Len(q) + 1 /\ k \in 1 - 1 .. Len(q) /\ Room(q) \in k .. Len(q)
    BY <1>5
  <2> QED BY <2>1, ConcatAdjacentSubSeq
<1> QED BY <1>6, <1>9, <1>10

\* A function on 1 .. n is a sequence of length n.
LEMMA FunctionIsSeq ==
    ASSUME NEW S, NEW n \in Nat, NEW f \in [1 .. n -> S]
    PROVE  f \in Seq(S) /\ Len(f) = n
<1>1. f \in Seq(S)
  BY SeqDef
<1>2. 1 .. Len(f) = 1 .. n /\ Len(f) \in Nat
  BY <1>1, LenProperties
<1> QED BY <1>1, <1>2

\* The writes of a sequence of batches, one by one.
LEMMA PayloadIs ==
    ASSUME NEW p \in Seq(Batch)
    PROVE  /\ Payload(p) \in Seq(Writes)
           /\ Len(Payload(p)) = Len(p)
           /\ \A i \in 1 .. Len(p) : Payload(p)[i] = p[i].w
<1>1. DOMAIN p = 1 .. Len(p) /\ Len(p) \in Nat
  OBVIOUS
<1>2. \A i \in 1 .. Len(p) : p[i] \in Batch
  OBVIOUS
<1>3. Payload(p) \in [1 .. Len(p) -> Writes]
  BY <1>1, <1>2 DEF Payload, Batch
<1> QED BY <1>1, <1>3, FunctionIsSeq DEF Payload

\* The writes of two sequences of batches, one after the other.
LEMMA PayloadConcat ==
    ASSUME NEW p \in Seq(Batch), NEW r \in Seq(Batch)
    PROVE  Payload(p \o r) = Payload(p) \o Payload(r)
<1> DEFINE s == Payload(p \o r)
           t == Payload(p) \o Payload(r)
<1>1. /\ p \o r \in Seq(Batch) /\ Len(p \o r) = Len(p) + Len(r)
      /\ \A i \in 1 .. Len(p) + Len(r) :
             (p \o r)[i] = IF i <= Len(p) THEN p[i] ELSE r[i - Len(p)]
  BY ConcatProperties
<1>2. /\ s \in Seq(Writes) /\ Len(s) = Len(p) + Len(r)
      /\ \A i \in 1 .. Len(p) + Len(r) :
             s[i] = IF i <= Len(p) THEN p[i].w ELSE r[i - Len(p)].w
  <2> HIDE DEF s
  <2>1. s \in Seq(Writes) /\ Len(s) = Len(p \o r)
        /\ \A i \in 1 .. Len(p \o r) : s[i] = (p \o r)[i].w
    BY <1>1, PayloadIs DEF s
  <2> QED BY <1>1, <2>1
<1>3. /\ t \in Seq(Writes) /\ Len(t) = Len(p) + Len(r)
      /\ \A i \in 1 .. Len(p) + Len(r) :
             t[i] = IF i <= Len(p) THEN Payload(p)[i]
                    ELSE Payload(r)[i - Len(p)]
  <2> DEFINE a == Payload(p)
             b == Payload(r)
  <2>1. a \in Seq(Writes) /\ b \in Seq(Writes)
        /\ Len(a) = Len(p) /\ Len(b) = Len(r)
    BY PayloadIs
  <2> HIDE DEF a, b
  <2>2. /\ a \o b \in Seq(Writes) /\ Len(a \o b) = Len(a) + Len(b)
        /\ \A i \in 1 .. Len(a) + Len(b) :
               (a \o b)[i] = IF i <= Len(a) THEN a[i] ELSE b[i - Len(a)]
    BY <2>1, ConcatProperties
  <2> QED BY <2>1, <2>2 DEF a, b
<1>4. ASSUME NEW i \in 1 .. Len(p) + Len(r) PROVE s[i] = t[i]
  <2> HIDE DEF s, t
  <2>1. CASE i <= Len(p)
    <3>1. i \in 1 .. Len(p)
      BY <2>1
    <3> QED BY <2>1, <3>1, <1>2, <1>3, PayloadIs
  <2>2. CASE ~(i <= Len(p))
    <3>1. i - Len(p) \in 1 .. Len(r)
      BY <2>2
    <3> QED BY <2>2, <3>1, <1>2, <1>3, PayloadIs
  <2> QED BY <2>1, <2>2
<1> HIDE DEF s, t
<1>5. s = t
  BY <1>2, <1>3, <1>4, SeqEqual
<1> QED BY <1>5 DEF s, t

\* The writes of a sequence of batches without its first.
LEMMA PayloadTail ==
    ASSUME NEW p \in Seq(Batch), p # <<>>
    PROVE  /\ Payload(p) # <<>>
           /\ Head(Payload(p)) = Head(p).w
           /\ Payload(Tail(p)) = Tail(Payload(p))
<1>1. Tail(p) \in Seq(Batch) /\ Len(Tail(p)) = Len(p) - 1 /\ Len(p) # 0
      /\ Head(p) = p[1] /\ \A i \in 1 .. Len(p) - 1 : Tail(p)[i] = p[i + 1]
  OBVIOUS
<1> DEFINE s == Payload(p)
           t == Payload(Tail(p))
<1>2. s \in Seq(Writes) /\ Len(s) = Len(p)
      /\ \A i \in 1 .. Len(p) : s[i] = p[i].w
  BY PayloadIs
<1>3. t \in Seq(Writes) /\ Len(t) = Len(p) - 1
      /\ \A i \in 1 .. Len(p) - 1 : t[i] = Tail(p)[i].w
  <2> HIDE DEF t
  <2>1. t \in Seq(Writes) /\ Len(t) = Len(Tail(p))
        /\ \A i \in 1 .. Len(Tail(p)) : t[i] = Tail(p)[i].w
    BY <1>1, PayloadIs DEF t
  <2> QED BY <1>1, <2>1
<1> HIDE DEF s, t
<1>4. s # <<>> /\ Tail(s) \in Seq(Writes) /\ Len(Tail(s)) = Len(p) - 1
      /\ Head(s) = s[1] /\ \A i \in 1 .. Len(p) - 1 : Tail(s)[i] = s[i + 1]
  BY <1>1, <1>2
<1>5. \A i \in 1 .. Len(t) : t[i] = Tail(s)[i]
  <2> SUFFICES ASSUME NEW i \in 1 .. Len(p) - 1 PROVE t[i] = Tail(s)[i]
    BY <1>3
  <2>1. i + 1 \in 1 .. Len(p)
    OBVIOUS
  <2> QED BY <2>1, <1>1, <1>2, <1>3, <1>4
<1>6. t = Tail(s)
  BY <1>3, <1>4, <1>5, SeqEqual
<1>7. Head(s) = Head(p).w
  BY <1>1, <1>2, <1>4
<1> QED BY <1>4, <1>6, <1>7 DEF s, t

\* Removing the batch at the head of an ordered queue leaves its tail.
LEMMA RemovesHead ==
    ASSUME NEW q \in Seq(Batch), Increasing(q), q # <<>>
    PROVE  RemoveMutationBatch(q, Head(q)) = Tail(q)
<1> DEFINE c == CHOOSE i \in DOMAIN q : q[i].id = Head(q).id
<1>1. DOMAIN q = 1 .. Len(q) /\ Len(q) \in Nat \ {0} /\ Head(q) = q[1]
  OBVIOUS
<1>2. c \in 1 .. Len(q) /\ q[c].id = q[1].id /\ 1 \in 1 .. Len(q)
  BY <1>1
<1> HIDE DEF c
<1>3. q[1] \in Batch
  BY <1>2
<1>4. c = 1
  <2>1. q[1].id \in Nat
    BY <1>3 DEF Batch
  <2>2. 1 < c => q[1].id < q[c].id
    BY <1>1, <1>2 DEF Increasing
  <2> QED BY <1>2, <2>1, <2>2
<1>5. RemoveMutationBatch(q, Head(q)) = RemoveAt(q, 1)
  BY <1>4 DEF c, RemoveMutationBatch
<1>6. RemoveAt(q, 1) = SubSeq(q, 1, 0) \o SubSeq(q, 2, Len(q))
  BY DEF RemoveAt
<1>7. SubSeq(q, 1, 0) = <<>>
  BY SubSeqEmpty
<1>8. SubSeq(q, 2, Len(q)) = Tail(q) /\ Tail(q) \in Seq(Batch)
  BY TailIsSubSeq
<1>9. <<>> \o Tail(q) = Tail(q)
  BY <1>8, ConcatEmptySeq
<1> QED BY <1>5, <1>6, <1>7, <1>8, <1>9

\* The first batches of a queue without its first batch.
LEMMA TailOfHead ==
    ASSUME NEW q \in Seq(Batch), NEW n \in 1 .. Len(q)
    PROVE  /\ Tail(q) \in Seq(Batch) /\ Len(Tail(q)) = Len(q) - 1
           /\ Head(SubSeq(q, 1, n)) = Head(q)
           /\ Tail(SubSeq(q, 1, n)) = SubSeq(Tail(q), 1, n - 1)
<1>1. Len(q) \in Nat \ {0} /\ q # <<>> /\ Head(q) = q[1]
      /\ 1 \in 1 .. Len(q) /\ n \in 1 .. Len(q)
  OBVIOUS
<1>2. Head(SubSeq(q, 1, n)) = q[1] /\ Tail(SubSeq(q, 1, n)) = SubSeq(q, 2, n)
  <2>1. 1 + 1 = 2
    OBVIOUS
  <2> QED BY <1>1, <2>1, HeadTailOfSubSeq
<1>3. Tail(q) \in Seq(Batch) /\ Len(Tail(q)) = Len(q) - 1
      /\ \A i \in 1 .. Len(q) - 1 : Tail(q)[i] = q[i + 1]
  BY <1>1
<1> DEFINE s == SubSeq(q, 2, n)
           t == SubSeq(Tail(q), 1, n - 1)
<1>4. s \in Seq(Batch) /\ Len(s) = n - 1
      /\ \A i \in 1 .. n - 1 : s[i] = q[i + 1]
  <2>1. 2 \in 1 .. Len(q) + 1 /\ n \in 2 - 1 .. Len(q) /\ n - 2 + 1 = n - 1
        /\ \A i \in 1 .. n - 1 : 2 + i - 1 = i + 1
    BY <1>1
  <2>2. s \in Seq(Batch) /\ Len(s) = n - 2 + 1
        /\ \A i \in 1 .. n - 2 + 1 : s[i] = q[2 + i - 1]
    BY <2>1, SubSeqIs
  <2> HIDE DEF s
  <2> QED BY <2>1, <2>2
<1>5. t \in Seq(Batch) /\ Len(t) = n - 1
      /\ \A i \in 1 .. n - 1 : t[i] = q[i + 1]
  <2> DEFINE r == Tail(q)
             k == n - 1
  <2>1. r \in Seq(Batch) /\ 1 \in 1 .. Len(r) + 1 /\ k \in 1 - 1 .. Len(r)
        /\ k - 1 + 1 = n - 1
        /\ \A i \in 1 .. n - 1 : 1 + i - 1 = i /\ i \in 1 .. Len(q) - 1
    BY <1>1, <1>3
  <2>2. SubSeq(r, 1, k) \in Seq(Batch) /\ Len(SubSeq(r, 1, k)) = k - 1 + 1
        /\ \A i \in 1 .. k - 1 + 1 : SubSeq(r, 1, k)[i] = r[1 + i - 1]
    <3> HIDE DEF r, k
    <3> QED BY <2>1, SubSeqIs
  <2> HIDE DEF t
  <2>3. t \in Seq(Batch) /\ Len(t) = n - 1
        /\ \A i \in 1 .. n - 1 : t[i] = Tail(q)[i]
    BY <2>1, <2>2 DEF t
  <2> QED BY <2>1, <2>3, <1>3
<1> HIDE DEF s, t
<1>6. s = t
  BY <1>4, <1>5, SeqEqual
<1> QED BY <1>1, <1>2, <1>3, <1>6 DEF s, t

\* Dead changes only the liveness of messages.
LEMMA DeadIs ==
    ASSUME NEW q \in Seq(Message)
    PROVE  /\ Dead(q) \in Seq(Message) /\ Len(Dead(q)) = Len(q)
           /\ DOMAIN Dead(q) = DOMAIN q
           /\ \A i \in DOMAIN q :
                  /\ Dead(q)[i].kind = q[i].kind
                  /\ Dead(q)[i].user = q[i].user
                  /\ Dead(q)[i].fresh = q[i].fresh
                  /\ Dead(q)[i].live = FALSE
<1>1. DOMAIN q = 1 .. Len(q) /\ Len(q) \in Nat
  OBVIOUS
<1>2. \A i \in 1 .. Len(q) : q[i] \in Message
  OBVIOUS
<1>3. Dead(q) \in [1 .. Len(q) -> Message]
  BY <1>1, <1>2 DEF Dead, Message
<1>4. \A i \in 1 .. Len(q) :
          /\ Dead(q)[i].kind = q[i].kind
          /\ Dead(q)[i].user = q[i].user
          /\ Dead(q)[i].fresh = q[i].fresh
          /\ Dead(q)[i].live = FALSE
  BY <1>1, <1>2 DEF Dead, Message
<1> QED BY <1>1, <1>3, <1>4, FunctionIsSeq

-----------------------------------------------------------------------------
(* The inductive invariant, and what the actions do *)

\* Every queue is in the order its batches were issued in, by increasing ids
\* that are below the next one, and holds writes of its own user.
QueuesOrdered ==
    \A u \in Users : \A i \in DOMAIN queue[u] :
        /\ queue[u][i].id < nextId
        /\ queue[u][i].w <= Len(writer)
        /\ writer[queue[u][i].w] = u
        /\ \A j \in DOMAIN queue[u] : i < j =>
               /\ queue[u][i].id < queue[u][j].id
               /\ queue[u][i].w < queue[u][j].w

\* Every notice of q is about a user.
NamesUsers(q) == \A i \in DOMAIN q : q[i].kind = "notify" => q[i].user \in Users

\* So are the notices of both executors.
NoticesNameUsers == NamesUsers(mainQ) /\ NamesUsers(workerQ)

\* What belongs to a call is gone when there is none, and an idle timer runs
\* only after the handshake of a call with nothing to send.
CallNeedsStream ==
    /\ ~IsOpen(stream) =>
           /\ ~stream.handshake /\ ~stream.idle
           /\ wire = <<>> /\ answers = <<>> /\ verdict = "none"
    /\ stream.idle => stream.handshake /\ pipeline = <<>>
    /\ verdict = "transient" => answers = <<>>

\* A token that will be used: its request was not given up since.
LiveToken(m) == m.kind = "token" /\ m.live

\* No token of q will be used.
NoneLive(q) == \A i \in DOMAIN q : ~LiveToken(q[i])

\* Exactly one token of q will be used.
OneLive(q) ==
    \E i \in DOMAIN q :
        LiveToken(q[i]) /\ \A j \in DOMAIN q : j # i => ~LiveToken(q[j])

\* No request of a token is still of interest.
NoneAsked(rs) == \A r \in rs : ~r.live

\* Exactly one request of a token is still of interest.
OneAsked(rs) == \E r \in rs : r.live /\ \A o \in rs : o # r => ~o.live

\* A stream that is Starting waits for exactly one token, which is asked for,
\* on its way to the worker's executor or there; no other stream waits for one.
LiveRequests ==
    IF stream.state = "Starting"
    THEN \/ OneAsked(asked) /\ NoneLive(mainQ) /\ NoneLive(workerQ)
         \/ NoneAsked(asked) /\ OneLive(mainQ) /\ NoneLive(workerQ)
         \/ NoneAsked(asked) /\ NoneLive(mainQ) /\ OneLive(workerQ)
    ELSE NoneAsked(asked) /\ NoneLive(mainQ) /\ NoneLive(workerQ)

\* A pipeline with a batch has a stream that is started.
PendingIsStarted == pipeline # <<>> => IsStarted(stream)

\* The inductive invariant of the client and its call.
ClientInv ==
    /\ TypeOK
    /\ LiveRequests
    /\ PendingIsStarted
    /\ QueuesOrdered
    /\ NoticesNameUsers
    /\ PipelineIsHead
    /\ CallbacksFit
    /\ CallMatchesPipeline
    /\ CallNeedsStream

\* The write stream.
Stream == [state : StreamStates, idle : BOOLEAN, handshake : BOOLEAN,
           token : Users \cup {NoToken}]

\* Streams that agree in every field are the same.
LEMMA SameStream ==
    ASSUME NEW s \in Stream, NEW t \in Stream, s.state = t.state,
           s.idle = t.idle, s.handshake = t.handshake, s.token = t.token
    PROVE  s = t
BY DEF Stream

\* The fields of a stream that is not started.
LEMMA InitialStreamIs ==
    /\ InitialStream \in Stream
    /\ InitialStream.state = "Initial"
    /\ InitialStream.idle = FALSE
    /\ InitialStream.handshake = FALSE
    /\ InitialStream.token = NoToken
BY DEF InitialStream, Stream, StreamStates

\* A stream without a call, in state st.
StreamIn(st) == [InitialStream EXCEPT !.state = st]

\* The fields of a stream without a call.
LEMMA StreamInIs ==
    ASSUME NEW st \in StreamStates
    PROVE  /\ StreamIn(st) \in Stream
           /\ StreamIn(st).state = st
           /\ StreamIn(st).idle = FALSE
           /\ StreamIn(st).handshake = FALSE
           /\ StreamIn(st).token = NoToken
<1> HIDE DEF InitialStream
<1> QED BY InitialStreamIs DEF StreamIn, Stream

\* The pipeline is filled again from q, over a new stream if there is anything
\* to send.
Restarts(q, rs) ==
    /\ pipeline' = SubSeq(q, 1, Room(q))
    /\ wire' = <<>>
    /\ q = <<>> => stream' = InitialStream /\ asked' = rs
    /\ q # <<>> => stream' = StreamIn("Starting") /\ asked' = rs \cup {NewRequest}

\* What FillWritePipeline does with the first k batches of q in the pipeline,
\* for a stream that is ready and for one that is not.
LEMMA FillIs ==
    ASSUME NEW q \in Seq(Batch), Increasing(q), NEW k \in 0 .. Len(q),
           k <= MaxPending, NEW s, NEW sent, NEW rs,
           FillWritePipeline(q, SubSeq(q, 1, k), s, sent, rs)
    PROVE  /\ pipeline' = SubSeq(q, 1, Room(q))
           /\ Ready(s) =>
                  /\ wire' = sent \o Payload(SubSeq(q, k + 1, Room(q)))
                  /\ asked' = rs
                  /\ q = <<>> => stream' = MarkIdle(s)
                  /\ q # <<>> /\ k < Room(q) => stream' = CancelIdleCheck(s)
                  /\ q # <<>> /\ k = Room(q) => stream' = s
           /\ ~Ready(s) =>
                  /\ wire' = sent
                  /\ q = <<>> => stream' = MarkIdle(s) /\ asked' = rs
                  /\ q # <<>> /\ IsStarted(s) => stream' = s /\ asked' = rs
                  /\ q # <<>> /\ ~IsStarted(s) =>
                         /\ stream' = Start(s)
                         /\ asked' = IF Asks(s) THEN rs \cup {NewRequest} ELSE rs
<1> DEFINE p == SubSeq(q, 1, k)
           new == NewBatches(q, p)
           full == p \o new
<1>1. new = SubSeq(q, k + 1, Room(q)) /\ full = SubSeq(q, 1, Room(q))
  BY NewBatchesIs
<1>2. Room(q) \in 0 .. Len(q) /\ (q # <<>> => Room(q) > 0) /\ Len(q) \in Nat
      /\ k <= Room(q)
  BY RoomIs, WritesAssumption
<1>3. full = <<>> <=> q = <<>>
  <2>1. full \in Seq(Batch) /\ Len(full) = Room(q)
    <3>1. 1 \in 1 .. Len(q) + 1 /\ Room(q) \in 1 - 1 .. Len(q)
          /\ Room(q) - 1 + 1 = Room(q)
      BY <1>2
    <3> HIDE DEF full, new
    <3>2. /\ SubSeq(q, 1, Room(q)) \in Seq(Batch)
          /\ Len(SubSeq(q, 1, Room(q))) = Room(q) - 1 + 1
      BY <3>1, SubSeqIs
    <3> QED BY <3>1, <3>2, <1>1
  <2> HIDE DEF full
  <2> QED BY <1>2, <2>1
<1>4. new # <<>> <=> k < Room(q)
  <2>1. new \in Seq(Batch) /\ Len(new) = Room(q) - k
    <3>1. k + 1 \in 1 .. Len(q) + 1 /\ Room(q) \in k + 1 - 1 .. Len(q)
          /\ Room(q) - (k + 1) + 1 = Room(q) - k
      BY <1>2
    <3> HIDE DEF full, new
    <3>2. /\ SubSeq(q, k + 1, Room(q)) \in Seq(Batch)
          /\ Len(SubSeq(q, k + 1, Room(q))) = Room(q) - (k + 1) + 1
      BY <3>1, SubSeqIs
    <3> QED BY <3>1, <3>2, <1>1
  <2> HIDE DEF new
  <2> QED BY <1>2, <2>1
<1>5. Ready(s) => IsStarted(s) /\ IsStarted(CancelIdleCheck(s))
  BY DEF Ready, IsOpen, IsStarted, CancelIdleCheck
<1> DEFINE s1 == IF full = <<>> THEN MarkIdle(s)
                 ELSE IF new # <<>> /\ Ready(s) THEN CancelIdleCheck(s) ELSE s
           starts == full # <<>> /\ ~IsStarted(s1)
<1>6. /\ pipeline' = full
      /\ wire' = IF Ready(s) THEN sent \o Payload(new) ELSE sent
      /\ stream' = IF starts THEN Start(s1) ELSE s1
      /\ asked' = IF starts /\ Asks(s1) THEN rs \cup {NewRequest} ELSE rs
  BY DEF FillWritePipeline
<1>7. CASE q = <<>>
  <2>1. s1 = MarkIdle(s) /\ ~starts
    BY <1>3, <1>7
  <2> HIDE DEF starts, s1, full, new
  <2> QED BY <1>1, <1>6, <1>7, <2>1
<1>8. CASE q # <<>> /\ Ready(s)
  <2>1. k < Room(q) => s1 = CancelIdleCheck(s)
    BY <1>3, <1>4, <1>8
  <2>2. k = Room(q) => s1 = s
    BY <1>2, <1>3, <1>4, <1>8
  <2>3. ~starts
    BY <1>2, <1>5, <1>8, <2>1, <2>2
  <2> HIDE DEF starts, s1, full, new
  <2> QED BY <1>1, <1>6, <1>8, <2>1, <2>2, <2>3
<1>9. CASE q # <<>> /\ ~Ready(s)
  <2>1. s1 = s /\ (starts <=> ~IsStarted(s))
    BY <1>3, <1>9
  <2> HIDE DEF starts, s1, full, new
  <2> QED BY <1>1, <1>6, <1>9, <2>1
<1> QED BY <1>7, <1>8, <1>9

\* FillWritePipeline over a stream that is not started.
LEMMA FillRestarts ==
    ASSUME NEW q \in Seq(Batch), Increasing(q), NEW k \in 0 .. Len(q),
           k <= MaxPending, NEW rs,
           FillWritePipeline(q, SubSeq(q, 1, k), InitialStream, <<>>, rs)
    PROVE  Restarts(q, rs)
<1>1. /\ ~Ready(InitialStream) /\ ~IsStarted(InitialStream)
      /\ Asks(InitialStream) /\ Start(InitialStream) = StreamIn("Starting")
      /\ MarkIdle(InitialStream) = InitialStream
  <2>1. InitialStream.state = "Initial" /\ InitialStream.idle = FALSE
        /\ [InitialStream EXCEPT !.idle = FALSE] = InitialStream
    <3> DEFINE t == [InitialStream EXCEPT !.idle = FALSE]
    <3> HIDE DEF InitialStream
    <3>1. t \in Stream /\ t.state = InitialStream.state /\ t.idle = FALSE
          /\ t.handshake = InitialStream.handshake
          /\ t.token = InitialStream.token
      BY InitialStreamIs DEF Stream
    <3> HIDE DEF t
    <3>2. t = InitialStream
      BY <3>1, InitialStreamIs, SameStream
    <3> QED BY <3>2, InitialStreamIs DEF t
  <2>2. ~IsOpen(InitialStream) /\ ~IsStarted(InitialStream)
        /\ Asks(InitialStream)
    BY <2>1 DEF IsOpen, IsStarted, Asks
  <2>3. (InitialStream.idle \/ IsOpen(InitialStream)) = FALSE
    BY <2>1, <2>2
  <2>4. MarkIdle(InitialStream) = InitialStream
    BY <2>1, <2>3 DEF MarkIdle
  <2>5. Start(InitialStream) = StreamIn("Starting")
    BY <2>1 DEF Start, StreamIn
  <2> QED BY <2>2, <2>4, <2>5 DEF Ready
<1>2. \E s : s = InitialStream
  OBVIOUS
<1>3. PICK s : s = InitialStream
  BY <1>2
<1>4. FillWritePipeline(q, SubSeq(q, 1, k), s, <<>>, rs)
  BY <1>3
<1> HIDE DEF InitialStream
<1> QED BY <1>1, <1>3, <1>4, FillIs DEF Restarts

\* Stopping a stream leaves it as it was before it was started.
LEMMA ClosedIsInitial ==
    ASSUME TypeOK, CallNeedsStream, NEW g \in BOOLEAN
    PROVE  InhibitBackoff(Closed(stream, g)) = InitialStream
<1>1. stream \in [state : StreamStates, idle : BOOLEAN, handshake : BOOLEAN,
                  token : Users \cup {NoToken}]
  BY DEF TypeOK
<1>2. ~IsStarted(stream) => stream.idle = FALSE
  BY <1>1 DEF CallNeedsStream, IsOpen, IsStarted
<1> DEFINE c == Close(stream, g)
<1>3. /\ c \in [state : StreamStates, idle : BOOLEAN, handshake : BOOLEAN,
                token : Users \cup {NoToken}]
      /\ c.idle = FALSE
  <2>1. CASE g /\ ~IsStarted(stream)
    BY <1>1, <1>2, <2>1 DEF Close
  <2>2. CASE ~(g /\ ~IsStarted(stream))
    <3>1. c = [stream EXCEPT !.state = IF g THEN "Initial" ELSE "Error",
                             !.idle = FALSE]
      BY <2>2 DEF Close
    <3>2. (IF g THEN "Initial" ELSE "Error") \in StreamStates
      BY DEF StreamStates
    <3> QED BY <1>1, <3>1, <3>2
  <2> QED BY <2>1, <2>2
<1> HIDE DEF c
<1> DEFINE d == [c EXCEPT !.handshake = FALSE, !.token = NoToken]
           e == [d EXCEPT !.state = "Initial"]
<1>4. d \in Stream /\ d.idle = FALSE /\ d.handshake = FALSE
      /\ d.token = NoToken
  BY <1>3 DEF Stream
<1> HIDE DEF d
<1>5. e \in Stream /\ e.state = "Initial" /\ e.idle = FALSE
      /\ e.handshake = FALSE /\ e.token = NoToken
  BY <1>4 DEF Stream, StreamStates
<1> HIDE DEF e
<1>6. e = InitialStream
  BY <1>5, InitialStreamIs, SameStream
<1> QED BY <1>6 DEF c, d, e, InhibitBackoff, Closed

\* The queue of every user is ordered.
LEMMA QueueIncreasing ==
    ASSUME TypeOK, QueuesOrdered, NEW u \in Users
    PROVE  queue[u] \in Seq(Batch) /\ Increasing(queue[u])
BY DEF TypeOK, QueuesOrdered, Increasing

\* An empty pipeline holds the first 0 batches of any queue.
LEMMA EmptyStart ==
    ASSUME NEW q \in Seq(Batch)
    PROVE  SubSeq(q, 1, 0) = <<>> /\ 0 \in 0 .. Len(q) /\ 0 <= MaxPending
BY SubSeqEmpty, WritesAssumption

\* The head of the pipeline is the head of the user's queue, and both without
\* it still fit.
LEMMA PipelineHead ==
    ASSUME TypeOK, QueuesOrdered, PipelineIsHead, pipeline # <<>>
    PROVE  LET q == queue[user]
           IN  /\ q # <<>> /\ Head(pipeline) = Head(q) /\ Head(q) = q[1]
               /\ Head(q) \in Batch
               /\ RemoveMutationBatch(q, Head(pipeline)) = Tail(q)
               /\ Tail(q) \in Seq(Batch) /\ Increasing(Tail(q))
               /\ Len(Tail(q)) = Len(q) - 1
               /\ \A i \in 1 .. Len(q) - 1 : Tail(q)[i] = q[i + 1]
               /\ Room(q) - 1 \in 0 .. Len(Tail(q))
               /\ Room(q) - 1 <= MaxPending
               /\ Tail(pipeline) = SubSeq(Tail(q), 1, Room(q) - 1)
<1> DEFINE q == queue[user]
<1>1. user \in Users /\ q \in Seq(Batch) /\ Increasing(q)
  BY QueueIncreasing DEF TypeOK
<1>2. pipeline = SubSeq(q, 1, Room(q))
  BY DEF PipelineIsHead, Room
<1> HIDE DEF q
<1>3. q # <<>>
  <2>1. SUFFICES ASSUME q = <<>> PROVE FALSE
    OBVIOUS
  <2>2. Len(q) = 0
    BY <2>1
  <2>3. Room(q) \in 0 .. 0
    BY <1>1, <2>2, RoomIs
  <2>4. Room(q) = 0
    BY <2>3
  <2> QED BY <1>1, <1>2, <2>4, EmptyStart
<1>4. Room(q) \in 1 .. Len(q) /\ Room(q) <= MaxPending /\ MaxPending \in Nat
  BY <1>1, <1>3, RoomIs, WritesAssumption
<1>5. /\ Tail(q) \in Seq(Batch) /\ Len(Tail(q)) = Len(q) - 1
      /\ Head(pipeline) = Head(q)
      /\ Tail(pipeline) = SubSeq(Tail(q), 1, Room(q) - 1)
  BY <1>1, <1>2, <1>4, TailOfHead
<1>6. Head(q) = q[1] /\ Head(q) \in Batch /\ Len(q) \in Nat
      /\ \A i \in 1 .. Len(q) - 1 : Tail(q)[i] = q[i + 1]
  BY <1>1, <1>3
<1>7. RemoveMutationBatch(q, Head(pipeline)) = Tail(q)
  BY <1>1, <1>3, <1>5, RemovesHead
<1>8. Increasing(Tail(q))
  <2> SUFFICES ASSUME NEW i \in 1 .. Len(q) - 1, NEW j \in 1 .. Len(q) - 1, i < j
               PROVE  Tail(q)[i].id < Tail(q)[j].id
    BY <1>5 DEF Increasing
  <2>1. i + 1 \in 1 .. Len(q) /\ j + 1 \in 1 .. Len(q) /\ i + 1 < j + 1
    BY <1>6
  <2>2. DOMAIN q = 1 .. Len(q)
    BY <1>1
  <2>3. q[i + 1].id < q[j + 1].id
    BY <1>1, <2>1, <2>2 DEF Increasing
  <2> QED BY <1>6, <2>3
<1>9. Room(q) - 1 \in 0 .. Len(Tail(q)) /\ Room(q) - 1 <= MaxPending
  BY <1>4, <1>5, <1>6
<1> QED BY <1>3, <1>5, <1>6, <1>7, <1>8, <1>9 DEF q

\* Only the callback of the head's own write is told the outcome, if there is
\* one.
LEMMA NotifiedIs ==
    ASSUME TypeOK, QueuesOrdered, PipelineIsHead, CallbacksFit,
           pipeline # <<>>, NEW o
    PROVE  Notified(Head(pipeline), o) \in
               {told, [told EXCEPT ![Head(queue[user]).w] = o]}
<1> DEFINE q == queue[user]
           b == Head(pipeline)
<1>1. q \in Seq(Batch) /\ Increasing(q) /\ q # <<>> /\ b = q[1]
  BY QueueIncreasing, PipelineHead DEF TypeOK
<1>2. ASSUME NEW c \in callbacks[user], c.id = b.id
      PROVE  c = b
  <2>1. PICK i \in DOMAIN q : q[i] = c
    BY DEF CallbacksFit, TypeOK
  <2> HIDE DEF q, b
  <2>2. i \in 1 .. Len(q) /\ 1 \in 1 .. Len(q) /\ DOMAIN q = 1 .. Len(q)
    BY <1>1, <2>1
  <2>3. q[1] \in Batch /\ q[i] \in Batch
    BY <1>1, <2>2
  <2>4. 1 < i => q[1].id < q[i].id
    BY <1>1, <2>2 DEF Increasing
  <2>5. q[1].id \in Nat
    BY <2>3 DEF Batch
  <2>6. i = 1
    BY <1>1, <1>2, <2>1, <2>2, <2>4, <2>5
  <2> QED BY <1>1, <2>1, <2>6
<1>3. CASE \E c \in callbacks[user] : c.id = b.id
  <2>1. (CHOOSE c \in callbacks[user] : c.id = b.id) = b
    BY <1>2, <1>3
  <2>2. b = Head(q)
    BY PipelineHead
  <2> QED BY <1>3, <2>1, <2>2 DEF Notified
<1>4. CASE ~\E c \in callbacks[user] : c.id = b.id
  BY <1>4 DEF Notified
<1> QED BY <1>3, <1>4

\* The stream after an error, and after starting it again.
LEMMA ClosedWithError ==
    ASSUME TypeOK
    PROVE  /\ Closed(stream, FALSE) = StreamIn("Error")
           /\ Start(Closed(stream, FALSE)) = StreamIn("Backoff")
<1> DEFINE c == [stream EXCEPT !.state = "Error", !.idle = FALSE]
           d == [c EXCEPT !.handshake = FALSE, !.token = NoToken]
           e == [d EXCEPT !.state = "Backoff"]
<1>0. stream \in Stream
  BY DEF TypeOK, Stream
<1>1. c \in Stream /\ c.state = "Error" /\ c.idle = FALSE
  BY <1>0 DEF Stream, StreamStates
<1>2. Close(stream, FALSE) = c
  BY DEF Close
<1> HIDE DEF c
<1>3. d \in Stream /\ d.state = "Error" /\ d.idle = FALSE
      /\ d.handshake = FALSE /\ d.token = NoToken
  BY <1>1 DEF Stream
<1>4. Closed(stream, FALSE) = d
  BY <1>2 DEF Closed
<1> HIDE DEF d
<1>5. e \in Stream /\ e.state = "Backoff" /\ e.idle = FALSE
      /\ e.handshake = FALSE /\ e.token = NoToken
  BY <1>3 DEF Stream, StreamStates
<1>6. Start(d) = e
  BY <1>3 DEF Start
<1> HIDE DEF e
<1>7. "Error" \in StreamStates /\ "Backoff" \in StreamStates
  BY DEF StreamStates
<1> DEFINE f == StreamIn("Error")
           g == StreamIn("Backoff")
<1>8. /\ f \in Stream /\ f.state = "Error" /\ f.idle = FALSE
      /\ f.handshake = FALSE /\ f.token = NoToken
  BY <1>7, StreamInIs
<1>9. /\ g \in Stream /\ g.state = "Backoff" /\ g.idle = FALSE
      /\ g.handshake = FALSE /\ g.token = NoToken
  BY <1>7, StreamInIs
<1> HIDE DEF f, g
<1>10. d = f
  BY <1>3, <1>8, SameStream
<1>11. e = g
  BY <1>5, <1>9, SameStream
<1> QED BY <1>4, <1>6, <1>10, <1>11 DEF f, g

\* The first batch of the user's queue is gone, with its callback, and its
\* writer was told o or nothing.
SettlesHead(o) ==
    /\ pipeline # <<>>
    /\ queue' = [queue EXCEPT ![user] = Tail(@)]
    /\ callbacks' = [callbacks EXCEPT ![user] =
                         {c \in @ : c.id # Head(queue[user]).id}]
    /\ told' \in {told, [told EXCEPT ![Head(queue[user]).w] = o]}

\* The call ends, and the pipeline waits for the stream's backoff.
Fails ==
    /\ wire' = <<>>
    /\ pipeline' = pipeline
    /\ stream' = StreamIn(IF pipeline # <<>> THEN "Backoff" ELSE "Error")
    /\ asked' = DeadRequests(asked)
    /\ UNCHANGED <<queue, callbacks, told>>

\* A call that ends with an error drops the head only when the error is
\* permanent and the handshake is complete.
LEMMA CloseWithErrorIs ==
    ASSUME ClientInv, NEW permanent \in BOOLEAN, CloseWithError(permanent)
    PROVE  /\ answers' = <<>> /\ verdict' = "none" /\ mainQ' = Dead(mainQ)
           /\ \/ /\ permanent /\ Ready(stream)
                 /\ SettlesHead("error")
                 /\ Restarts(Tail(queue[user]), DeadRequests(asked))
              \/ ~(permanent /\ Ready(stream) /\ pipeline # <<>>) /\ Fails
<1> USE DEF ClientInv
<1>1. answers' = <<>> /\ verdict' = "none" /\ mainQ' = Dead(mainQ)
  BY DEF CloseWithError, CallIsOver
<1>2. CASE pipeline # <<>> /\ Ready(stream) /\ permanent
  <2> DEFINE q == queue[user]
             rs == DeadRequests(asked)
  <2>1. /\ queue' = [queue EXCEPT ![user] =
                         RemoveMutationBatch(@, Head(pipeline))]
        /\ NotifyUser(Head(pipeline), "error")
        /\ FillWritePipeline(queue'[user], Tail(pipeline),
               InhibitBackoff(Closed(stream, FALSE)), <<>>, rs)
    BY <1>2 DEF CloseWithError
  <2>2. /\ RemoveMutationBatch(q, Head(pipeline)) = Tail(q)
        /\ Head(pipeline) = Head(q)
        /\ Tail(q) \in Seq(Batch) /\ Increasing(Tail(q))
        /\ Room(q) - 1 \in 0 .. Len(Tail(q)) /\ Room(q) - 1 <= MaxPending
        /\ Tail(pipeline) = SubSeq(Tail(q), 1, Room(q) - 1)
    BY <1>2, PipelineHead
  <2>3. queue \in [Users -> Seq(Batch)] /\ user \in Users
    BY DEF TypeOK
  <2>4. queue' = [queue EXCEPT ![user] = Tail(@)] /\ queue'[user] = Tail(q)
    BY <2>1, <2>2, <2>3
  <2>5. told' \in {told, [told EXCEPT ![Head(q).w] = "error"]}
    BY <1>2, <2>1, NotifiedIs DEF NotifyUser
  <2>6. callbacks' = [callbacks EXCEPT ![user] = {c \in @ : c.id # Head(q).id}]
    BY <2>1, <2>2 DEF NotifyUser
  <2>7. InhibitBackoff(Closed(stream, FALSE)) = InitialStream
    BY ClosedIsInitial
  <2>8. FillWritePipeline(Tail(q), SubSeq(Tail(q), 1, Room(q) - 1),
                          InitialStream, <<>>, rs)
    BY <2>1, <2>2, <2>4, <2>7
  <2>9. Restarts(Tail(q), rs)
    <3> DEFINE t == Tail(q)
               k == Room(q) - 1
    <3>1. t \in Seq(Batch) /\ Increasing(t) /\ k \in 0 .. Len(t)
          /\ k <= MaxPending
          /\ FillWritePipeline(t, SubSeq(t, 1, k), InitialStream, <<>>, rs)
      BY <2>2, <2>8
    <3> HIDE DEF t, k, rs, InitialStream
    <3>2. Restarts(t, rs)
      BY <3>1, FillRestarts
    <3> QED BY <3>2 DEF t
  <2> QED BY <1>1, <1>2, <2>4, <2>5, <2>6, <2>9 DEF SettlesHead
<1>3. CASE ~(pipeline # <<>> /\ Ready(stream) /\ permanent)
  <2>1. /\ pipeline' = pipeline
        /\ wire' = <<>>
        /\ stream' = IF pipeline # <<>> THEN Start(Closed(stream, FALSE))
                     ELSE Closed(stream, FALSE)
        /\ asked' = DeadRequests(asked)
        /\ UNCHANGED <<queue, callbacks, told>>
    BY <1>3 DEF CloseWithError
  <2>2. stream' = StreamIn(IF pipeline # <<>> THEN "Backoff" ELSE "Error")
    BY <2>1, ClosedWithError
  <2> QED BY <1>1, <1>3, <2>1, <2>2 DEF Fails
<1> QED BY <1>2, <1>3

\* RestartNetwork fills the pipeline from the queue of the new user.
LEMMA RestartNetworkIs ==
    ASSUME ClientInv, NEW u \in Users, NEW rs, RestartNetwork(queue[u], rs)
    PROVE  /\ answers' = <<>> /\ verdict' = "none"
           /\ Restarts(queue[u], DeadRequests(rs))
<1> USE DEF ClientInv
<1>1. answers' = <<>> /\ verdict' = "none"
      /\ FillWritePipeline(queue[u], <<>>,
             InhibitBackoff(Closed(stream, TRUE)), <<>>, DeadRequests(rs))
  BY DEF RestartNetwork, CallIsOver
<1>2. queue[u] \in Seq(Batch) /\ Increasing(queue[u])
  BY QueueIncreasing
<1>3. InhibitBackoff(Closed(stream, TRUE)) = InitialStream
  BY ClosedIsInitial
<1>4. SubSeq(queue[u], 1, 0) = <<>> /\ 0 \in 0 .. Len(queue[u])
      /\ 0 <= MaxPending
  BY <1>2, EmptyStart
<1>5. FillWritePipeline(queue[u], SubSeq(queue[u], 1, 0), InitialStream, <<>>,
                        DeadRequests(rs))
  BY <1>1, <1>3, <1>4
<1> HIDE DEF InitialStream
<1> QED BY <1>1, <1>2, <1>4, <1>5, FillRestarts

\* A client that starts again fills its pipeline from what was stored.
LEMMA RestartedIs ==
    ASSUME NEW q \in [Users -> Seq(Batch)], \A u \in Users : Increasing(q[u]),
           authUser \in Users, Restarted(q)
    PROVE  /\ answers' = <<>> /\ verdict' = "none"
           /\ Restarts(q[authUser], {})
<1>1. answers' = <<>> /\ verdict' = "none"
      /\ FillWritePipeline(q[authUser], <<>>, InitialStream, <<>>, {})
  BY DEF Restarted, CallIsOver
<1>2. q[authUser] \in Seq(Batch) /\ Increasing(q[authUser])
  OBVIOUS
<1>4. SubSeq(q[authUser], 1, 0) = <<>> /\ 0 \in 0 .. Len(q[authUser])
      /\ 0 <= MaxPending
  BY <1>2, EmptyStart
<1>5. FillWritePipeline(q[authUser], SubSeq(q[authUser], 1, 0), InitialStream,
                        <<>>, {})
  BY <1>1, <1>4
<1> HIDE DEF InitialStream
<1> QED BY <1>1, <1>2, <1>4, <1>5, FillRestarts

\* The pipeline p is filled up from q, and what is added is sent when it can be.
Refills(q, p) ==
    /\ pipeline' = SubSeq(q, 1, Room(q))
    /\ \E new \in Seq(Batch) :
           /\ pipeline' = p \o new
           /\ wire' = IF Ready(stream) THEN wire \o Payload(new) ELSE wire

\* FillWritePipeline sends exactly the batches it adds.
LEMMA FillRefills ==
    ASSUME NEW q \in Seq(Batch), Increasing(q), NEW k \in 0 .. Len(q),
           k <= MaxPending,
           FillWritePipeline(q, SubSeq(q, 1, k), stream, wire, asked)
    PROVE  Refills(q, SubSeq(q, 1, k))
<1> DEFINE new == SubSeq(q, k + 1, Room(q))
<1>1. pipeline' = SubSeq(q, 1, Room(q))
      /\ (wire' = IF Ready(stream) THEN wire \o Payload(new) ELSE wire)
  BY FillIs
<1>2. Room(q) \in k .. Len(q) /\ Len(q) \in Nat
  BY RoomIs, WritesAssumption
<1>3. k + 1 \in 1 .. Len(q) + 1 /\ Room(q) \in k + 1 - 1 .. Len(q)
  BY <1>2
<1>4. new \in Seq(Batch)
  BY <1>3, SubSeqIs
<1>5. SubSeq(q, 1, k) \o new = SubSeq(q, 1, Room(q))
  <2>1. 1 \in 1 .. Len(q) + 1 /\ k \in 1 - 1 .. Len(q)
    OBVIOUS
  <2> QED BY <1>2, <2>1, ConcatAdjacentSubSeq
<1> HIDE DEF new
<1> QED BY <1>1, <1>4, <1>5 DEF Refills

\* The batch that WriteMutations adds.
NewBatch == [id |-> nextId, w |-> Len(writer) + 1]

\* A new batch keeps the queue ordered.
LEMMA NewBatchIs ==
    ASSUME ClientInv, Len(writer) < MaxWrites
    PROVE  LET r == Append(queue[user], NewBatch)
           IN  /\ NewBatch \in Batch /\ r \in Seq(Batch) /\ r # <<>>
               /\ NewBatch.id = nextId /\ NewBatch.w = Len(writer) + 1
               /\ Len(r) = Len(queue[user]) + 1
               /\ \A i \in 1 .. Len(queue[user]) : r[i] = queue[user][i]
               /\ r[Len(queue[user]) + 1] = NewBatch
               /\ Increasing(r)
<1> USE DEF ClientInv
<1> DEFINE q == queue[user]
           r == Append(q, NewBatch)
<1>1. q \in Seq(Batch) /\ Increasing(q) /\ Len(q) \in Nat
  BY QueueIncreasing DEF TypeOK
<1>2. nextId \in Nat /\ Len(writer) + 1 \in Writes
  BY WritesAssumption DEF TypeOK, Writes
<1>3. NewBatch \in Batch /\ NewBatch.id = nextId /\ NewBatch.w = Len(writer) + 1
  BY <1>2 DEF NewBatch, Batch
<1>4. \A i \in 1 .. Len(q) : q[i].id < nextId
  <2>1. DOMAIN q = 1 .. Len(q)
    BY <1>1
  <2> QED BY <2>1 DEF QueuesOrdered, TypeOK
<1> HIDE DEF q
<1>5. /\ r \in Seq(Batch) /\ r # <<>> /\ Len(r) = Len(q) + 1
      /\ \A i \in 1 .. Len(q) : r[i] = q[i]
      /\ r[Len(q) + 1] = NewBatch
  BY <1>1, <1>3, AppendProperties
<1> HIDE DEF r
<1>6. Increasing(r)
  <2> SUFFICES ASSUME NEW i \in 1 .. Len(q) + 1, NEW j \in 1 .. Len(q) + 1, i < j
               PROVE  r[i].id < r[j].id
    BY <1>5 DEF Increasing
  <2>1. i \in 1 .. Len(q) /\ r[i] = q[i]
    BY <1>1, <1>5
  <2>2. CASE j = Len(q) + 1
    BY <2>1, <2>2, <1>3, <1>4, <1>5
  <2>3. CASE j # Len(q) + 1
    <3>1. j \in 1 .. Len(q) /\ r[j] = q[j]
      BY <1>1, <1>5, <2>3
    <3>2. DOMAIN q = 1 .. Len(q)
      BY <1>1
    <3> QED BY <1>1, <2>1, <3>1, <3>2 DEF Increasing
  <2> QED BY <2>2, <2>3
<1> QED BY <1>3, <1>5, <1>6 DEF q, r

\* What WriteMutations does to the queue, the pipeline and the stream.
LEMMA WriteMutationsIs ==
    ASSUME ClientInv, WriteMutations
    PROVE  LET r == Append(queue[user], NewBatch)
           IN  /\ queue' = [queue EXCEPT ![user] = r]
               /\ Refills(r, pipeline)
               /\ Ready(stream) =>
                      /\ asked' = asked /\ stream' \in Stream
                      /\ stream'.state = stream.state
                      /\ stream'.handshake = stream.handshake
                      /\ stream'.token = stream.token
                      /\ stream'.idle = FALSE
               /\ ~Ready(stream) =>
                      /\ IsStarted(stream) => stream' = stream /\ asked' = asked
                      /\ ~IsStarted(stream) =>
                             /\ stream' = Start(stream)
                             /\ asked' = IF Asks(stream)
                                         THEN asked \cup {NewRequest} ELSE asked
<1> USE DEF ClientInv
<1> DEFINE q == queue[user]
           r == Append(q, NewBatch)
<1>1. Len(writer) < MaxWrites /\ queue' = [queue EXCEPT ![user] = r]
      /\ FillWritePipeline(queue'[user], pipeline, stream, wire, asked)
  BY DEF WriteMutations, NewBatch
<1>2. queue \in [Users -> Seq(Batch)] /\ user \in Users /\ stream \in Stream
      /\ q \in Seq(Batch)
  BY DEF TypeOK, Stream
<1>3. queue'[user] = r
  BY <1>1, <1>2
<1>4. r \in Seq(Batch) /\ r # <<>> /\ Len(r) = Len(q) + 1 /\ Increasing(r)
      /\ \A i \in 1 .. Len(q) : r[i] = q[i]
  BY <1>1, NewBatchIs
<1>5. pipeline = SubSeq(q, 1, Room(q)) /\ Room(q) \in 0 .. Len(q)
      /\ Room(q) <= MaxPending /\ Len(q) \in Nat /\ Room(q) \in 0 .. Len(r)
  BY <1>2, <1>4, RoomIs DEF PipelineIsHead, Room
<1> HIDE DEF q
<1>6. SubSeq(q, 1, Room(q)) = SubSeq(r, 1, Room(q))
  <2> DEFINE s == SubSeq(q, 1, Room(q))
             t == SubSeq(r, 1, Room(q))
             k == Room(q)
  <2>1. 1 \in 1 .. Len(q) + 1 /\ k \in 1 - 1 .. Len(q) /\ k - 1 + 1 = k
        /\ 1 \in 1 .. Len(r) + 1 /\ k \in 1 - 1 .. Len(r)
        /\ \A i \in 1 .. k : 1 + i - 1 = i /\ i \in 1 .. Len(q)
    BY <1>4, <1>5
  <2> HIDE DEF r
  <2>2. s \in Seq(Batch) /\ Len(s) = k - 1 + 1
        /\ \A i \in 1 .. k - 1 + 1 : s[i] = q[1 + i - 1]
    BY <1>2, <2>1, SubSeqIs
  <2>3. t \in Seq(Batch) /\ Len(t) = k - 1 + 1
        /\ \A i \in 1 .. k - 1 + 1 : t[i] = r[1 + i - 1]
    BY <1>4, <2>1, SubSeqIs
  <2> HIDE DEF s, t, k
  <2>4. \A i \in 1 .. Len(s) : s[i] = t[i]
    BY <1>4, <2>1, <2>2, <2>3
  <2>5. s = t
    BY <2>2, <2>3, <2>4, SeqEqual
  <2> QED BY <2>5 DEF s, t
<1>7. FillWritePipeline(r, SubSeq(r, 1, Room(q)), stream, wire, asked)
      /\ pipeline = SubSeq(r, 1, Room(q))
  BY <1>1, <1>3, <1>5, <1>6
<1> HIDE DEF r
<1>8. Refills(r, pipeline)
  BY <1>4, <1>5, <1>7, FillRefills
<1>9. ASSUME Ready(stream)
      PROVE  /\ asked' = asked /\ stream' \in Stream
             /\ stream'.state = stream.state
             /\ stream'.handshake = stream.handshake
             /\ stream'.token = stream.token
             /\ stream'.idle = FALSE
  <2>1. /\ asked' = asked
        /\ Room(q) < Room(r) => stream' = CancelIdleCheck(stream)
        /\ Room(q) = Room(r) => stream' = stream
    BY <1>4, <1>5, <1>7, <1>9, FillIs
  <2>2. Room(q) <= Room(r) /\ Room(r) > 0 /\ Room(q) \in Nat /\ Room(r) \in Nat
    BY <1>2, <1>4, <1>5, RoomIs, WritesAssumption
  <2>3. CASE Room(q) < Room(r)
    BY <1>2, <2>1, <2>3 DEF CancelIdleCheck, Stream
  <2>4. CASE Room(q) = Room(r)
    <3>1. pipeline # <<>>
      <4>1. 1 \in 1 .. Len(q) + 1 /\ Room(q) \in 1 - 1 .. Len(q)
            /\ Room(q) - 1 + 1 = Room(q) /\ Room(q) # 0
        BY <1>5, <2>2, <2>4
      <4>2. pipeline \in Seq(Batch) /\ Len(pipeline) = Room(q) - 1 + 1
        BY <1>2, <1>5, <4>1, SubSeqIs
      <4> QED BY <4>1, <4>2
    <3>2. stream.idle = FALSE
      BY <1>2, <3>1 DEF CallNeedsStream, Stream
    <3> QED BY <1>2, <2>1, <2>4, <3>2
  <2>5. Room(q) < Room(r) \/ Room(q) = Room(r)
    BY <2>2
  <2> QED BY <2>3, <2>4, <2>5
<1>10. ASSUME ~Ready(stream)
       PROVE  /\ IsStarted(stream) => stream' = stream /\ asked' = asked
              /\ ~IsStarted(stream) =>
                     /\ stream' = Start(stream)
                     /\ asked' = IF Asks(stream)
                                 THEN asked \cup {NewRequest} ELSE asked
  BY <1>4, <1>5, <1>7, <1>10, FillIs
<1> QED BY <1>1, <1>8, <1>9, <1>10 DEF q, r

\* What OnWriteStreamMutationResult does to them.
LEMMA MutationResultIs ==
    ASSUME ClientInv, OnWriteStreamMutationResult
    PROVE  /\ Ready(stream)
           /\ SettlesHead("ok")
           /\ Refills(Tail(queue[user]), Tail(pipeline))
           /\ asked' = asked /\ stream' \in Stream
           /\ stream'.state = stream.state
           /\ stream'.handshake = stream.handshake
           /\ stream'.token = stream.token
           /\ stream'.idle => pipeline' = <<>>
<1> USE DEF ClientInv
<1> DEFINE q == queue[user]
           t == Tail(q)
           k == Room(q) - 1
<1>1. /\ stream.handshake /\ pipeline # <<>>
      /\ NotifyUser(Head(pipeline), "ok")
      /\ queue' = [queue EXCEPT ![user] =
                       RemoveMutationBatch(@, Head(pipeline))]
      /\ FillWritePipeline(queue'[user], Tail(pipeline), stream, wire, asked)
  BY DEF OnWriteStreamMutationResult
<1>2. queue \in [Users -> Seq(Batch)] /\ user \in Users /\ stream \in Stream
      /\ q \in Seq(Batch)
  BY DEF TypeOK, Stream
<1>3. Ready(stream)
  BY <1>1, <1>2 DEF Ready, CallNeedsStream
<1>4. /\ RemoveMutationBatch(q, Head(pipeline)) = t
      /\ Head(pipeline) = Head(q)
      /\ t \in Seq(Batch) /\ Increasing(t)
      /\ k \in 0 .. Len(t) /\ k <= MaxPending
      /\ Tail(pipeline) = SubSeq(t, 1, k)
  BY <1>1, PipelineHead
<1>5. queue' = [queue EXCEPT ![user] = Tail(@)] /\ queue'[user] = t
  BY <1>1, <1>2, <1>4
<1>6. told' \in {told, [told EXCEPT ![Head(q).w] = "ok"]}
  BY <1>1, NotifiedIs DEF NotifyUser
<1>7. callbacks' = [callbacks EXCEPT ![user] = {c \in @ : c.id # Head(q).id}]
  BY <1>1, <1>4 DEF NotifyUser
<1>8. SettlesHead("ok")
  BY <1>1, <1>5, <1>6, <1>7 DEF SettlesHead
<1>9. FillWritePipeline(t, SubSeq(t, 1, k), stream, wire, asked)
  BY <1>1, <1>4, <1>5
<1>10. stream.idle = FALSE
  BY <1>1, <1>2 DEF CallNeedsStream, Stream
<1> HIDE DEF t, k
<1>11. Refills(t, Tail(pipeline))
  BY <1>4, <1>9, FillRefills
<1>12. /\ pipeline' = SubSeq(t, 1, Room(t))
       /\ asked' = asked
       /\ t = <<>> => stream' = MarkIdle(stream)
       /\ t # <<>> /\ k < Room(t) => stream' = CancelIdleCheck(stream)
       /\ t # <<>> /\ k = Room(t) => stream' = stream
  BY <1>3, <1>4, <1>9, FillIs
<1>13. /\ stream' \in Stream
       /\ stream'.state = stream.state
       /\ stream'.handshake = stream.handshake
       /\ stream'.token = stream.token
       /\ stream'.idle => t = <<>>
  <2>1. k <= Room(t) /\ k \in Int /\ Room(t) \in Int
    BY <1>4, RoomIs, WritesAssumption
  <2>2. CASE t = <<>>
    <3>1. stream' = MarkIdle(stream)
      BY <1>12, <2>2
    <3> DEFINE b == stream.idle \/ IsOpen(stream)
    <3>2. b \in BOOLEAN
      BY <1>2 DEF Stream, IsOpen
    <3>3. stream' = [stream EXCEPT !.idle = b]
      BY <3>1 DEF MarkIdle
    <3> HIDE DEF b
    <3> QED BY <1>2, <2>2, <3>2, <3>3 DEF Stream
  <2>3. CASE t # <<>> /\ k < Room(t)
    <3>1. stream' = CancelIdleCheck(stream)
      BY <1>12, <2>3
    <3> QED BY <1>2, <2>3, <3>1 DEF CancelIdleCheck, Stream
  <2>4. CASE t # <<>> /\ k = Room(t)
    BY <1>2, <1>10, <1>12, <2>4
  <2> QED BY <2>1, <2>2, <2>3, <2>4
<1>14. t = <<>> => pipeline' = <<>>
  <2> SUFFICES ASSUME t = <<>> PROVE pipeline' = <<>>
    OBVIOUS
  <2>1. Len(t) = 0
    OBVIOUS
  <2>2. Room(t) \in 0 .. 0
    BY <1>4, <2>1, RoomIs
  <2>3. Room(t) = 0
    BY <2>2
  <2> QED BY <1>4, <1>12, <2>3, EmptyStart
<1> QED BY <1>3, <1>8, <1>11, <1>12, <1>13, <1>14 DEF t

-----------------------------------------------------------------------------
(* The queues, the pipeline and the callbacks *)

\* The types of the queues and of what the app was told.
ClientTypes ==
    /\ user \in Users
    /\ queue \in [Users -> Seq(Batch)]
    /\ nextId \in Nat
    /\ callbacks \in [Users -> SUBSET Batch]
    /\ pipeline \in Seq(Batch) /\ Len(pipeline) <= MaxPending
    /\ writer \in Seq(Users)
    /\ told \in Seq({"waiting", "ok", "error"})
    /\ Len(told) = Len(writer)

\* The part of ClientInv about the queues, the pipeline and the callbacks.
QueueInv ==
    /\ ClientTypes
    /\ QueuesOrdered
    /\ PipelineIsHead
    /\ CallbacksFit

\* The id that a restarted client goes on with is above every stored one.
LEMMA LoadNextIs ==
    ASSUME NEW q \in [Users -> Seq(Batch)], NEW n \in Nat,
           \A u \in Users : \A i \in DOMAIN q[u] : q[u][i].id < n
    PROVE  /\ LoadNextBatchIdFromDb(q) \in Nat
           /\ \A u \in Users : \A i \in DOMAIN q[u] :
                  q[u][i].id < LoadNextBatchIdFromDb(q)
<1> DEFINE ids == UNION {{q[u][i].id : i \in DOMAIN q[u]} : u \in Users}
           S == ids \cup {0}
<1>1. ASSUME NEW u \in Users, NEW i \in DOMAIN q[u]
      PROVE  q[u][i].id \in Nat /\ q[u][i].id \in ids
  <2>1. q[u] \in Seq(Batch)
    OBVIOUS
  <2>2. q[u][i] \in Batch
    BY <2>1
  <2> QED BY <2>2 DEF Batch
<1>2. ASSUME NEW x \in S PROVE x \in Nat /\ x <= n
  <2>1. CASE x = 0
    BY <2>1
  <2>2. CASE x \in ids
    <3>1. PICK u \in Users : x \in {q[u][i].id : i \in DOMAIN q[u]}
      BY <2>2
    <3>2. PICK i \in DOMAIN q[u] : x = q[u][i].id
      BY <3>1
    <3> QED BY <1>1, <3>2
  <2> QED BY <2>1, <2>2
<1>3. Max(S) \in S /\ \A x \in S : x <= Max(S)
  <2>1. S \in SUBSET Nat /\ S # {} /\ \A x \in S : x <= n
    BY <1>2
  <2> HIDE DEF S
  <2> QED BY <2>1, MaxExists
<1>4. LoadNextBatchIdFromDb(q) = Max(S) + 1
  BY DEF LoadNextBatchIdFromDb
<1>5. Max(S) \in Nat
  BY <1>2, <1>3
<1>6. ASSUME NEW u \in Users, NEW i \in DOMAIN q[u]
      PROVE  q[u][i].id < Max(S) + 1
  <2>1. q[u][i].id \in Nat /\ q[u][i].id \in S
    BY <1>1
  <2>2. q[u][i].id <= Max(S)
    BY <1>3, <2>1
  <2> HIDE DEF S
  <2> QED BY <1>5, <2>1, <2>2
<1> HIDE DEF S
<1> QED BY <1>4, <1>5, <1>6

\* What PipelineIsHead and the type of the pipeline follow from.
LEMMA HeadOfQueue ==
    ASSUME NEW q \in Seq(Batch)
    PROVE  /\ SubSeq(q, 1, Room(q)) \in Seq(Batch)
           /\ Len(SubSeq(q, 1, Room(q))) = Room(q)
           /\ Room(q) <= MaxPending
           /\ SubSeq(q, 1, Room(q)) = <<>> <=> q = <<>>
           /\ \A i \in 1 .. Room(q) : SubSeq(q, 1, Room(q))[i] = q[i]
<1>1. Room(q) \in 0 .. Len(q) /\ Room(q) <= MaxPending /\ Len(q) \in Nat
      /\ (q # <<>> => Room(q) > 0)
  BY RoomIs
<1>2. 1 \in 1 .. Len(q) + 1 /\ Room(q) \in 1 - 1 .. Len(q)
      /\ Room(q) - 1 + 1 = Room(q) /\ \A i \in 1 .. Room(q) : 1 + i - 1 = i
  BY <1>1
<1> DEFINE p == SubSeq(q, 1, Room(q))
<1>3. p \in Seq(Batch) /\ Len(p) = Room(q) - 1 + 1
      /\ \A i \in 1 .. Room(q) - 1 + 1 : p[i] = q[1 + i - 1]
  BY <1>2, SubSeqIs
<1> HIDE DEF p
<1>4. p \in Seq(Batch) /\ Len(p) = Room(q) /\ \A i \in 1 .. Room(q) : p[i] = q[i]
  BY <1>2, <1>3
<1>5. p = <<>> <=> q = <<>>
  BY <1>1, <1>4
<1> QED BY <1>1, <1>4, <1>5 DEF p

\* What a queue without its first batch keeps of the order.
LEMMA TailKeepsOrder ==
    ASSUME TypeOK, QueuesOrdered, PipelineIsHead, pipeline # <<>>
    PROVE  LET q == [queue EXCEPT ![user] = Tail(@)]
           IN  /\ q \in [Users -> Seq(Batch)]
               /\ \A u \in Users : Increasing(q[u])
               /\ \A u \in Users : \A i \in DOMAIN q[u] :
                      /\ q[u][i].id < nextId
                      /\ q[u][i].w <= Len(writer)
                      /\ writer[q[u][i].w] = u
                      /\ \A j \in DOMAIN q[u] : i < j =>
                             /\ q[u][i].id < q[u][j].id
                             /\ q[u][i].w < q[u][j].w
<1> DEFINE t == Tail(queue[user])
           q == [queue EXCEPT ![user] = t]
           N == Len(queue[user])
<1>1. /\ queue \in [Users -> Seq(Batch)] /\ user \in Users
      /\ queue[user] \in Seq(Batch) /\ N \in Nat
      /\ DOMAIN queue[user] = 1 .. N
  BY DEF TypeOK
<1>2. /\ t \in Seq(Batch) /\ Len(t) = N - 1
      /\ \A i \in 1 .. N - 1 : t[i] = queue[user][i + 1]
  BY PipelineHead
<1> HIDE DEF t
<1>3. q \in [Users -> Seq(Batch)] /\ q[user] = t
      /\ \A u \in Users \ {user} : q[u] = queue[u]
  BY <1>1, <1>2
<1>4. ASSUME NEW u \in Users, NEW i \in DOMAIN q[u]
      PROVE  /\ q[u][i].id < nextId
             /\ q[u][i].w <= Len(writer)
             /\ writer[q[u][i].w] = u
             /\ \A j \in DOMAIN q[u] : i < j =>
                    /\ q[u][i].id < q[u][j].id
                    /\ q[u][i].w < q[u][j].w
  <2> HIDE DEF q
  <2>1. CASE u # user
    <3>1. q[u] = queue[u]
      BY <1>3, <2>1
    <3> QED BY <3>1, <1>4 DEF QueuesOrdered
  <2>2. CASE u = user
    <3> DEFINE r == queue[user]
    <3>1. DOMAIN q[u] = 1 .. N - 1 /\ q[u] = t
      BY <1>2, <1>3, <2>2
    <3>2. i \in 1 .. N - 1 /\ i + 1 \in 1 .. N /\ q[u][i] = r[i + 1]
      BY <1>1, <1>2, <1>4, <3>1
    <3>3. /\ r[i + 1].id < nextId /\ r[i + 1].w <= Len(writer)
          /\ writer[r[i + 1].w] = u
      BY <1>1, <2>2, <3>2 DEF QueuesOrdered
    <3>4. ASSUME NEW j \in 1 .. N - 1, i < j
          PROVE  /\ q[u][i].id < q[u][j].id
                 /\ q[u][i].w < q[u][j].w
      <4>1. j + 1 \in 1 .. N /\ i + 1 < j + 1 /\ q[u][j] = r[j + 1]
        BY <1>1, <1>2, <3>1, <3>2, <3>4
      <4>2. r[i + 1].id < r[j + 1].id /\ r[i + 1].w < r[j + 1].w
        BY <1>1, <3>2, <4>1 DEF QueuesOrdered
      <4> HIDE DEF r
      <4> QED BY <3>2, <4>1, <4>2
    <3> HIDE DEF r
    <3> QED BY <3>1, <3>2, <3>3, <3>4
  <2> QED BY <2>1, <2>2
<1>5. \A u \in Users : Increasing(q[u])
  <2> HIDE DEF q
  <2> QED BY <1>4 DEF Increasing
<1> HIDE DEF q
<1>6. [queue EXCEPT ![user] = Tail(@)] = q
  BY DEF q, t
<1> QED BY <1>3, <1>4, <1>5, <1>6

\* A callback that is left when the first batch is settled is about one of
\* the others.
LEMMA TailKeepsCallbacks ==
    ASSUME TypeOK, QueuesOrdered, PipelineIsHead, CallbacksFit,
           NEW o, SettlesHead(o)
    PROVE  callbacks' \in [Users -> SUBSET Batch] /\ CallbacksFit'
<1> DEFINE t == Tail(queue[user])
           N == Len(queue[user])
           b == Head(queue[user])
<1>1. /\ queue \in [Users -> Seq(Batch)] /\ user \in Users
      /\ callbacks \in [Users -> SUBSET Batch]
      /\ queue[user] \in Seq(Batch) /\ N \in Nat
      /\ DOMAIN queue[user] = 1 .. N
  BY DEF TypeOK
<1>2. /\ pipeline # <<>>
      /\ queue' = [queue EXCEPT ![user] = t]
      /\ callbacks' = [callbacks EXCEPT ![user] = {c \in @ : c.id # b.id}]
  BY DEF SettlesHead
<1>3. /\ t \in Seq(Batch) /\ Len(t) = N - 1 /\ b = queue[user][1]
      /\ \A i \in 1 .. N - 1 : t[i] = queue[user][i + 1]
  BY <1>2, PipelineHead
<1> HIDE DEF t
<1>4. callbacks' \in [Users -> SUBSET Batch]
  BY <1>1, <1>2
<1>5. ASSUME NEW u \in Users, NEW c \in callbacks'[u]
      PROVE  \E i \in DOMAIN queue'[u] : queue'[u][i] = c
  <2>1. CASE u # user
    <3>1. queue'[u] = queue[u] /\ callbacks'[u] = callbacks[u]
      BY <1>1, <1>2, <2>1
    <3> QED BY <1>5, <3>1 DEF CallbacksFit
  <2>2. CASE u = user
    <3>1. c \in callbacks[user] /\ c.id # b.id /\ queue'[u] = t
      BY <1>1, <1>2, <1>5, <2>2
    <3>2. PICK i \in 1 .. N : queue[user][i] = c
      BY <1>1, <3>1 DEF CallbacksFit
    <3>3. i # 1
      BY <1>3, <3>1, <3>2
    <3>4. i - 1 \in 1 .. N - 1 /\ t[i - 1] = c
      <4>1. i - 1 \in 1 .. N - 1 /\ (i - 1) + 1 = i
        BY <1>1, <3>3
      <4> QED BY <1>3, <3>2, <4>1
    <3>5. DOMAIN t = 1 .. N - 1
      BY <1>3
    <3> QED BY <3>1, <3>4, <3>5
  <2> QED BY <2>1, <2>2
<1> QED BY <1>4, <1>5 DEF CallbacksFit

\* What the app can have been told of a write.
Outcomes == {"waiting", "ok", "error"}

\* Telling an outcome keeps the type of told.
LEMMA ToldIsTyped ==
    ASSUME ClientInv, pipeline # <<>>, NEW o \in Outcomes,
           NEW t \in {told, [told EXCEPT ![Head(queue[user]).w] = o]}
    PROVE  t \in Seq(Outcomes) /\ Len(t) = Len(writer)
<1>1. told \in Seq(Outcomes) /\ Len(told) = Len(writer)
  BY DEF ClientInv, TypeOK, Outcomes
<1>2. Head(queue[user]).w \in 1 .. Len(told)
  <2> DEFINE q == queue[user]
  <2>1. q \in Seq(Batch) /\ q # <<>> /\ Head(q) = q[1] /\ Head(q) \in Batch
    BY PipelineHead, QueueIncreasing DEF ClientInv, TypeOK
  <2>2. 1 \in DOMAIN q
    BY <2>1
  <2>3. q[1].w <= Len(writer)
    BY <2>2 DEF ClientInv, QueuesOrdered, TypeOK
  <2>4. q[1].w \in Writes
    BY <2>1 DEF Batch
  <2> HIDE DEF q
  <2>5. Head(q).w \in 1 .. Len(told)
    BY <1>1, <2>1, <2>3, <2>4, WritesAssumption DEF Writes
  <2> QED BY <2>5 DEF q
<1> QED BY <1>1, <1>2, ExceptSeq

\* What leaves the queues alone keeps QueueInv.
LEMMA QueueInvKept ==
    ASSUME ClientInv,
           UNCHANGED <<user, queue, nextId, callbacks, pipeline, writer, told>>
    PROVE  QueueInv'
<1>1. ClientTypes'
  BY DEF ClientInv, TypeOK, ClientTypes
<1>2. QueuesOrdered'
  BY DEF ClientInv, QueuesOrdered
<1>3. PipelineIsHead'
  BY DEF ClientInv, PipelineIsHead
<1>4. CallbacksFit'
  BY DEF ClientInv, CallbacksFit
<1> QED BY <1>1, <1>2, <1>3, <1>4 DEF QueueInv

\* Settling the head keeps QueueInv.
LEMMA QueueInvSettled ==
    ASSUME ClientInv, NEW o \in Outcomes, SettlesHead(o),
           UNCHANGED <<user, nextId, writer>>,
           pipeline' = SubSeq(Tail(queue[user]), 1, Room(Tail(queue[user])))
    PROVE  QueueInv'
<1> USE DEF ClientInv
<1> DEFINE t == Tail(queue[user])
<1>1. pipeline # <<>> /\ queue' = [queue EXCEPT ![user] = t]
      /\ told' \in {told, [told EXCEPT ![Head(queue[user]).w] = o]}
  BY DEF SettlesHead
<1>2. t \in Seq(Batch)
  BY <1>1, PipelineHead
<1>3. queue' \in [Users -> Seq(Batch)] /\ QueuesOrdered'
  BY <1>1, TailKeepsOrder DEF QueuesOrdered
<1>4. callbacks' \in [Users -> SUBSET Batch] /\ CallbacksFit'
  BY TailKeepsCallbacks
<1>5. told' \in Seq(Outcomes) /\ Len(told') = Len(writer)
  BY <1>1, ToldIsTyped
<1>6. user' \in Users /\ nextId' \in Nat /\ writer' \in Seq(Users)
      /\ queue'[user'] = t
  BY <1>1 DEF TypeOK
<1> HIDE DEF t
<1>7. pipeline' \in Seq(Batch) /\ Len(pipeline') <= MaxPending
  BY <1>2, HeadOfQueue DEF t
<1>8. PipelineIsHead'
  BY <1>6 DEF PipelineIsHead, Room, t
<1> QED BY <1>3, <1>4, <1>5, <1>6, <1>7, <1>8
        DEF QueueInv, ClientTypes, Outcomes

\* Going on with another user's queue keeps QueueInv.
LEMMA QueueInvMoved ==
    ASSUME ClientInv, user' \in Users, UNCHANGED <<queue, callbacks, writer, told>>,
           nextId' \in {nextId, LoadNextBatchIdFromDb(queue)},
           pipeline' = SubSeq(queue[user'], 1, Room(queue[user']))
    PROVE  QueueInv'
<1> USE DEF ClientInv
<1>1. queue \in [Users -> Seq(Batch)] /\ nextId \in Nat
      /\ queue[user'] \in Seq(Batch)
  BY DEF TypeOK
<1>2. nextId' \in Nat /\ \A u \in Users : \A i \in DOMAIN queue[u] :
                             queue[u][i].id < nextId'
  <2>1. \A u \in Users : \A i \in DOMAIN queue[u] : queue[u][i].id < nextId
    BY DEF QueuesOrdered
  <2>2. LoadNextBatchIdFromDb(queue) \in Nat
        /\ \A u \in Users : \A i \in DOMAIN queue[u] :
               queue[u][i].id < LoadNextBatchIdFromDb(queue)
    BY <1>1, <2>1, LoadNextIs
  <2> QED BY <1>1, <2>1, <2>2
<1>3. QueuesOrdered' /\ CallbacksFit'
  BY <1>2 DEF QueuesOrdered, CallbacksFit
<1>4. pipeline' \in Seq(Batch) /\ Len(pipeline') <= MaxPending
  BY <1>1, HeadOfQueue
<1>5. PipelineIsHead'
  BY DEF PipelineIsHead, Room
<1> QED BY <1>1, <1>2, <1>3, <1>4, <1>5 DEF QueueInv, ClientTypes, TypeOK

\* Starting again keeps QueueInv.
LEMMA QueueInvRestarted ==
    ASSUME ClientInv, user' \in Users, writer' = writer,
           \/ queue' = queue
           \/ pipeline # <<>> /\ queue' = [queue EXCEPT ![user] = Tail(@)],
           \/ told' = told
           \/ /\ pipeline # <<>>
              /\ told' \in {told, [told EXCEPT ![Head(queue[user]).w] = "ok"]},
           nextId' = LoadNextBatchIdFromDb(queue'),
           callbacks' = [u \in Users |-> {}],
           pipeline' = SubSeq(queue'[user'], 1, Room(queue'[user']))
    PROVE  QueueInv'
<1> USE DEF ClientInv
<1>1. nextId \in Nat /\ writer' \in Seq(Users)
  BY DEF TypeOK
<1>2. /\ queue' \in [Users -> Seq(Batch)]
      /\ \A u \in Users : \A i \in DOMAIN queue'[u] :
             /\ queue'[u][i].id < nextId
             /\ queue'[u][i].w <= Len(writer)
             /\ writer[queue'[u][i].w] = u
             /\ \A j \in DOMAIN queue'[u] : i < j =>
                    /\ queue'[u][i].id < queue'[u][j].id
                    /\ queue'[u][i].w < queue'[u][j].w
  <2>1. CASE queue' = queue
    BY <2>1 DEF TypeOK, QueuesOrdered
  <2>2. CASE pipeline # <<>> /\ queue' = [queue EXCEPT ![user] = Tail(@)]
    BY <2>2, TailKeepsOrder
  <2> QED BY <2>1, <2>2
<1>3. nextId' \in Nat /\ \A u \in Users : \A i \in DOMAIN queue'[u] :
                             queue'[u][i].id < nextId'
  BY <1>1, <1>2, LoadNextIs
<1>4. QueuesOrdered'
  BY <1>2, <1>3 DEF QueuesOrdered
<1>5. told' \in Seq(Outcomes) /\ Len(told') = Len(writer')
  <2>1. told \in Seq(Outcomes) /\ Len(told) = Len(writer) /\ "ok" \in Outcomes
    BY DEF TypeOK, Outcomes
  <2> QED BY <2>1, ToldIsTyped
<1>6. callbacks' \in [Users -> SUBSET Batch] /\ CallbacksFit'
  BY DEF CallbacksFit
<1>7. pipeline' \in Seq(Batch) /\ Len(pipeline') <= MaxPending
  BY <1>2, HeadOfQueue
<1>8. PipelineIsHead'
  BY DEF PipelineIsHead, Room
<1> QED BY <1>1, <1>2, <1>3, <1>4, <1>5, <1>6, <1>7, <1>8
        DEF QueueInv, ClientTypes, Outcomes

\* WriteMutations keeps QueueInv.
LEMMA QueueInvIssued ==
    ASSUME ClientInv, WriteMutations
    PROVE  QueueInv'
<1> USE DEF ClientInv
<1> DEFINE q == queue[user]
           r == Append(q, NewBatch)
           N == Len(q)
<1>1. /\ Len(writer) < MaxWrites
      /\ nextId' = nextId + 1
      /\ callbacks' = [callbacks EXCEPT ![user] =
             IF \E c \in @ : c.id = NewBatch.id THEN @ ELSE @ \cup {NewBatch}]
      /\ writer' = Append(writer, user)
      /\ told' = Append(told, "waiting")
      /\ user' = user
  BY DEF WriteMutations, NewBatch
<1>2. /\ queue \in [Users -> Seq(Batch)] /\ user \in Users /\ nextId \in Nat
      /\ callbacks \in [Users -> SUBSET Batch] /\ writer \in Seq(Users)
      /\ told \in Seq(Outcomes) /\ "waiting" \in Outcomes
      /\ Len(told) = Len(writer) /\ q \in Seq(Batch) /\ N \in Nat
      /\ DOMAIN q = 1 .. N
  BY DEF TypeOK, Outcomes
<1>3. queue' = [queue EXCEPT ![user] = r] /\ pipeline' = SubSeq(r, 1, Room(r))
  BY WriteMutationsIs DEF Refills
<1>4. /\ NewBatch \in Batch /\ r \in Seq(Batch) /\ Increasing(r)
      /\ NewBatch.id = nextId /\ NewBatch.w = Len(writer) + 1
      /\ Len(r) = N + 1
      /\ \A i \in 1 .. N : r[i] = q[i]
      /\ r[N + 1] = NewBatch
  BY <1>1, NewBatchIs
<1> HIDE DEF r
<1>5. /\ writer' \in Seq(Users) /\ Len(writer') = Len(writer) + 1
      /\ \A i \in 1 .. Len(writer) : writer'[i] = writer[i]
      /\ writer'[Len(writer) + 1] = user /\ Len(writer) \in Nat
  BY <1>1, <1>2, AppendProperties
<1>6. told' \in Seq(Outcomes) /\ Len(told') = Len(writer')
  BY <1>1, <1>2, <1>5, AppendProperties
<1>7. queue' \in [Users -> Seq(Batch)] /\ queue'[user] = r
      /\ \A u \in Users \ {user} : queue'[u] = queue[u]
  BY <1>2, <1>3, <1>4
<1>8. callbacks' \in [Users -> SUBSET Batch]
      /\ callbacks'[user] \subseteq callbacks[user] \cup {NewBatch}
      /\ \A u \in Users \ {user} : callbacks'[u] = callbacks[u]
  BY <1>1, <1>2, <1>4
<1>9. QueuesOrdered'
  <2>1. ASSUME NEW u \in Users, NEW i \in DOMAIN queue[u]
        PROVE  /\ queue[u][i].id < nextId'
               /\ queue[u][i].w <= Len(writer')
               /\ queue[u][i].w < Len(writer) + 1
               /\ writer'[queue[u][i].w] = u
    <3>1. queue[u] \in Seq(Batch)
      BY <1>2
    <3>2. queue[u][i] \in Batch
      BY <3>1
    <3>3. queue[u][i].id \in Nat /\ queue[u][i].w \in 1 .. MaxWrites
      BY <3>2 DEF Batch, Writes
    <3>4. queue[u][i].id < nextId /\ queue[u][i].w <= Len(writer)
          /\ writer[queue[u][i].w] = u
      BY DEF QueuesOrdered
    <3>5. queue[u][i].w \in 1 .. Len(writer)
      BY <1>5, <3>3, <3>4, WritesAssumption
    <3> QED BY <1>1, <1>2, <1>5, <3>3, <3>4, <3>5
  <2>2. ASSUME NEW u \in Users, NEW i \in DOMAIN queue'[u]
        PROVE  /\ queue'[u][i].id < nextId'
               /\ queue'[u][i].w <= Len(writer')
               /\ writer'[queue'[u][i].w] = u
               /\ \A j \in DOMAIN queue'[u] : i < j =>
                    /\ queue'[u][i].id < queue'[u][j].id
                    /\ queue'[u][i].w < queue'[u][j].w
    <3>1. CASE u # user
      <4>1. queue'[u] = queue[u]
        BY <1>7, <3>1
      <4> QED BY <2>1, <2>2, <4>1 DEF QueuesOrdered
    <3>2. CASE u = user
      <4>1. queue'[u] = r /\ DOMAIN queue'[u] = 1 .. N + 1
        BY <1>4, <1>7, <3>2
      <4>2. CASE i = N + 1
        <5>1. queue'[u][i] = NewBatch
          BY <1>4, <4>1, <4>2
        <5>2. \A j \in DOMAIN queue'[u] : ~(i < j)
          BY <1>2, <4>1, <4>2
        <5>3. nextId < nextId + 1
          BY <1>2
        <5> QED BY <1>1, <1>4, <1>5, <3>2, <5>1, <5>2, <5>3
      <4>3. CASE i # N + 1
        <5>1. i \in 1 .. N /\ queue'[u][i] = q[i]
          BY <1>2, <1>4, <2>2, <4>1, <4>3
        <5>2. /\ q[i].id < nextId'
              /\ q[i].w <= Len(writer')
              /\ q[i].w < Len(writer) + 1
              /\ writer'[q[i].w] = u
          BY <1>2, <2>1, <3>2, <5>1
        <5>3. ASSUME NEW j \in 1 .. N + 1, i < j
              PROVE  /\ q[i].id < queue'[u][j].id
                     /\ q[i].w < queue'[u][j].w
          <6>1. CASE j = N + 1
            <7>1. queue'[u][j] = NewBatch
              BY <1>4, <4>1, <6>1
            <7>2. q[i].id < nextId
              BY <1>2, <5>1 DEF QueuesOrdered
            <7> QED BY <1>4, <5>2, <7>1, <7>2
          <6>2. CASE j # N + 1
            <7>1. j \in 1 .. N /\ queue'[u][j] = q[j]
              BY <1>2, <1>4, <4>1, <6>2
            <7> QED BY <1>2, <5>1, <5>3, <7>1 DEF QueuesOrdered
          <6> QED BY <6>1, <6>2
        <5> HIDE DEF q, N
        <5> QED BY <4>1, <5>1, <5>2, <5>3
      <4> QED BY <4>2, <4>3
    <3> QED BY <3>1, <3>2
  <2> QED BY <2>2 DEF QueuesOrdered
<1>10. CallbacksFit'
  <2> SUFFICES ASSUME NEW u \in Users, NEW c \in callbacks'[u]
               PROVE  \E i \in DOMAIN queue'[u] : queue'[u][i] = c
    BY DEF CallbacksFit
  <2>1. CASE u # user
    <3>1. queue'[u] = queue[u] /\ c \in callbacks[u]
      BY <1>7, <1>8, <2>1
    <3> QED BY <3>1 DEF CallbacksFit
  <2>2. CASE u = user /\ c \in callbacks[user]
    <3>1. PICK i \in 1 .. N : q[i] = c
      BY <1>2, <2>2 DEF CallbacksFit
    <3>2. i \in 1 .. N + 1 /\ r[i] = c /\ DOMAIN r = 1 .. N + 1
      BY <1>2, <1>4, <3>1
    <3> QED BY <1>7, <2>2, <3>2
  <2>3. CASE u = user /\ c = NewBatch
    <3>1. N + 1 \in 1 .. N + 1 /\ DOMAIN r = 1 .. N + 1
      BY <1>2, <1>4
    <3> QED BY <1>4, <1>7, <2>3, <3>1
  <2> QED BY <1>8, <2>1, <2>2, <2>3
<1>11. pipeline' \in Seq(Batch) /\ Len(pipeline') <= MaxPending
  BY <1>3, <1>4, HeadOfQueue
<1>12. PipelineIsHead'
  BY <1>1, <1>3, <1>7 DEF PipelineIsHead, Room
<1>13. user' \in Users /\ nextId' \in Nat
  BY <1>1, <1>2
<1> QED BY <1>5, <1>6, <1>7, <1>8, <1>9, <1>10, <1>11, <1>12, <1>13
        DEF QueueInv, ClientTypes, Outcomes

\* What the three places a crash can hit leave behind.
LEMMA CrashIs ==
    ASSUME ClientInv, Crash \/ CrashAcknowledging \/ CrashRejecting
    PROVE  /\ user' = authUser /\ authUser \in Users
           /\ UNCHANGED <<authUser, authEvents, serverVars, writer>>
           /\ mainQ' = <<>> /\ workerQ' = <<>>
           /\ faults < MaxFaults /\ faults' = faults + 1
           /\ \/ queue' = queue
              \/ pipeline # <<>> /\ queue' = [queue EXCEPT ![user] = Tail(@)]
           /\ \/ told' = told
              \/ /\ pipeline # <<>> /\ stream.handshake /\ answers # <<>>
                 /\ told' \in {told, [told EXCEPT ![Head(queue[user]).w] = "ok"]}
           /\ nextId' = LoadNextBatchIdFromDb(queue')
           /\ callbacks' = [u \in Users |-> {}]
           /\ answers' = <<>> /\ verdict' = "none"
           /\ Restarts(queue'[user'], {})
<1> USE DEF ClientInv
<1>1. authUser \in Users /\ queue \in [Users -> Seq(Batch)]
      /\ \A u \in Users : Increasing(queue[u])
  BY QueueIncreasing DEF TypeOK
<1>2. CASE Crash
  <2>1. Restarted(queue) /\ told' = told
    BY <1>2 DEF Crash
  <2>2. answers' = <<>> /\ verdict' = "none" /\ Restarts(queue[authUser], {})
    BY <1>1, <2>1, RestartedIs
  <2> QED BY <1>1, <2>1, <2>2 DEF Restarted
<1>3. CASE CrashAcknowledging
  <2>1. Restarted(queue) /\ told' = Notified(Head(pipeline), "ok")
        /\ pipeline # <<>> /\ stream.handshake /\ answers # <<>>
    BY <1>3 DEF CrashAcknowledging
  <2>2. answers' = <<>> /\ verdict' = "none" /\ Restarts(queue[authUser], {})
    BY <1>1, <2>1, RestartedIs
  <2>3. told' \in {told, [told EXCEPT ![Head(queue[user]).w] = "ok"]}
    BY <2>1, NotifiedIs
  <2> QED BY <1>1, <2>1, <2>2, <2>3 DEF Restarted
<1>4. CASE CrashRejecting
  <2> DEFINE q == [queue EXCEPT ![user] = Tail(@)]
  <2>1. Restarted([queue EXCEPT ![user] =
                       RemoveMutationBatch(@, Head(pipeline))])
        /\ told' = told /\ pipeline # <<>>
    BY <1>4 DEF CrashRejecting
  <2>2. [queue EXCEPT ![user] = RemoveMutationBatch(@, Head(pipeline))] = q
    BY <2>1, PipelineHead
  <2>3. q \in [Users -> Seq(Batch)] /\ \A u \in Users : Increasing(q[u])
    BY <2>1, TailKeepsOrder
  <2>4. Restarted(q)
    BY <2>1, <2>2
  <2> HIDE DEF q
  <2>5. answers' = <<>> /\ verdict' = "none" /\ Restarts(q[authUser], {})
    BY <1>1, <2>3, <2>4, RestartedIs
  <2>6. queue' = q
    BY <2>4 DEF Restarted
  <2> QED BY <1>1, <2>1, <2>4, <2>5, <2>6 DEF Restarted, q
<1> QED BY <1>2, <1>3, <1>4

\* HandleCredentialChange goes on with the queue of the notified user.
LEMMA CredentialChangeIs ==
    ASSUME ClientInv, HandleCredentialChange
    PROVE  /\ user' = workerQ[1].user /\ user' \in Users
           /\ workerQ # <<>> /\ workerQ[1].kind = "notify"
           /\ answers' = <<>> /\ verdict' = "none"
           /\ Restarts(queue[user'], DeadRequests(asked))
<1> USE DEF ClientInv
<1>1. workerQ # <<>> /\ Head(workerQ).kind = "notify"
      /\ user' = Head(workerQ).user /\ RestartNetwork(queue[user'], asked)
  BY DEF HandleCredentialChange
<1>2. workerQ \in Seq(Message)
  BY DEF TypeOK
<1>3. 1 \in DOMAIN workerQ /\ Head(workerQ) = workerQ[1]
  BY <1>1, <1>2
<1>4. user' \in Users
  BY <1>1, <1>3 DEF NoticesNameUsers, NamesUsers
<1>5. answers' = <<>> /\ verdict' = "none"
      /\ Restarts(queue[user'], DeadRequests(asked))
  BY <1>1, <1>4, RestartNetworkIs
<1> QED BY <1>1, <1>3, <1>4, <1>5

\* Every step of the client that leaves the queues and the pipeline alone.
KeepsQueues ==
    UNCHANGED <<user, queue, nextId, callbacks, pipeline, writer, told>>

\* Every step keeps QueueInv.
LEMMA QueueStep ==
    ASSUME ClientInv, Next
    PROVE  QueueInv'
<1> USE DEF ClientInv
<1>1. ASSUME KeepsQueues PROVE QueueInv'
  BY <1>1, QueueInvKept DEF KeepsQueues
<1>2. ASSUME NEW permanent \in BOOLEAN, CloseWithError(permanent),
             UNCHANGED <<user, nextId, writer>>
      PROVE  QueueInv'
  <2>1. CASE /\ SettlesHead("error")
             /\ Restarts(Tail(queue[user]), DeadRequests(asked))
    <3>1. pipeline' = SubSeq(Tail(queue[user]), 1, Room(Tail(queue[user])))
      BY <2>1 DEF Restarts
    <3>2. "error" \in Outcomes
      BY DEF Outcomes
    <3> QED BY <1>2, <2>1, <3>1, <3>2, QueueInvSettled
  <2>2. CASE Fails
    BY <1>1, <1>2, <2>2 DEF Fails, KeepsQueues
  <2> QED BY <1>2, <2>1, <2>2, CloseWithErrorIs
<1>3. CASE Auth
  <2>1. KeepsQueues
    BY <1>3 DEF Auth, UpdateCurrentUser, GetTokenForcingRefresh,
                AuthStateDidChange, GetTokenCallback, KeepsQueues, clientVars,
                history
  <2> QED BY <1>1, <2>1
<1>4. CASE HandleCredentialChange
  <2>1. /\ user' \in Users
        /\ pipeline' = SubSeq(queue[user'], 1, Room(queue[user']))
    BY <1>4, CredentialChangeIs DEF Restarts
  <2>2. /\ nextId' \in {nextId, LoadNextBatchIdFromDb(queue)}
        /\ UNCHANGED <<queue, callbacks, writer, told>>
    BY <1>4 DEF HandleCredentialChange, history
  <2> QED BY <2>1, <2>2, QueueInvMoved
<1>5. CASE ResumeStartWithCredentials
  <2>1. CASE CloseWithError(FALSE)
    BY <1>2, <1>5, <2>1 DEF ResumeStartWithCredentials
  <2>2. CASE ~CloseWithError(FALSE)
    BY <1>1, <1>5, <2>2 DEF ResumeStartWithCredentials, KeepsQueues
  <2> QED BY <2>1, <2>2
<1>6. CASE WriteMutations
  BY <1>6, QueueInvIssued
<1>7. CASE OnWriteStreamHandshakeComplete
  BY <1>1, <1>7 DEF OnWriteStreamHandshakeComplete, KeepsQueues, clientVars,
                    history
<1>8. CASE OnWriteStreamMutationResult
  <2>1. SettlesHead("ok")
        /\ pipeline' = SubSeq(Tail(queue[user]), 1, Room(Tail(queue[user])))
    BY <1>8, MutationResultIs DEF Refills
  <2>2. "ok" \in Outcomes /\ UNCHANGED <<user, nextId, writer>>
    BY <1>8 DEF OnWriteStreamMutationResult, Outcomes
  <2> QED BY <2>1, <2>2, QueueInvSettled
<1>9. CASE OnStreamFinish
  <2>1. CloseWithError(verdict = "permanent")
        /\ UNCHANGED <<user, nextId, writer>>
        /\ (verdict = "permanent") \in BOOLEAN
    BY <1>9 DEF OnStreamFinish
  <2> QED BY <1>2, <2>1
<1>10. CASE BackoffElapsed
  BY <1>1, <1>10 DEF BackoffElapsed, KeepsQueues, clientVars, history
<1>11. CASE IdleTimeout
  BY <1>1, <1>11 DEF IdleTimeout, KeepsQueues, clientVars, history
<1>12. ASSUME NEW available \in BOOLEAN, ConnectivityChanged(available)
       PROVE  QueueInv'
  <2>1. UNCHANGED <<user, nextId, writer>>
    BY <1>12 DEF ConnectivityChanged
  <2>2. CASE available
    <3>1. RestartNetwork(queue[user], asked) /\ UNCHANGED <<queue, callbacks, told>>
      BY <1>12, <2>2 DEF ConnectivityChanged
    <3>2. user \in Users /\ user' = user
      BY <2>1 DEF TypeOK
    <3>3. pipeline' = SubSeq(queue[user], 1, Room(queue[user]))
      BY <3>1, <3>2, RestartNetworkIs DEF Restarts
    <3> QED BY <2>1, <3>1, <3>2, <3>3, QueueInvMoved
  <2>3. CASE ~available
    BY <1>2, <1>12, <2>1, <2>3 DEF ConnectivityChanged
  <2> QED BY <2>2, <2>3
<1>13. CASE ServerShakesHands \/ ServerApplies \/ ServerRefuses
            \/ ConnectionBreaks
  BY <1>1, <1>13 DEF ServerShakesHands, ServerApplies, ServerRefuses,
                     ConnectionBreaks, KeepsQueues, clientVars, history
<1>14. CASE Crash \/ CrashAcknowledging \/ CrashRejecting
  <2>1. /\ user' \in Users /\ writer' = writer
        /\ pipeline' = SubSeq(queue'[user'], 1, Room(queue'[user']))
    BY <1>14, CrashIs DEF Restarts
  <2> QED BY <1>14, <2>1, CrashIs, QueueInvRestarted
<1> QED BY <1>3, <1>4, <1>5, <1>6, <1>7, <1>8, <1>9, <1>10, <1>11, <1>12,
           <1>13, <1>14 DEF Next, Worker, Environment

-----------------------------------------------------------------------------
(* The messages between the executors *)

\* The part of ClientInv about the messages between the executors.
MessageInv ==
    /\ authUser \in Users
    /\ mainQ \in Seq(Message) /\ workerQ \in Seq(Message)
    /\ asked \subseteq Request
    /\ authEvents \in 0 .. MaxAuthEvents /\ faults \in 0 .. MaxFaults
    /\ NoticesNameUsers
    /\ LiveRequests

\* The messages of q after the user changed: none is about the current one.
Stale(q) == [i \in DOMAIN q |-> [q[i] EXCEPT !.fresh = FALSE]]

\* Stale changes only the freshness of messages.
LEMMA StaleIs ==
    ASSUME NEW q \in Seq(Message)
    PROVE  /\ Stale(q) \in Seq(Message) /\ Len(Stale(q)) = Len(q)
           /\ DOMAIN Stale(q) = DOMAIN q
           /\ \A i \in DOMAIN q :
                  /\ Stale(q)[i].kind = q[i].kind
                  /\ Stale(q)[i].user = q[i].user
                  /\ Stale(q)[i].live = q[i].live
                  /\ Stale(q)[i].fresh = FALSE
<1>1. DOMAIN q = 1 .. Len(q) /\ Len(q) \in Nat
  OBVIOUS
<1>2. \A i \in 1 .. Len(q) : q[i] \in Message
  OBVIOUS
<1>3. Stale(q) \in [1 .. Len(q) -> Message]
  BY <1>1, <1>2 DEF Stale, Message
<1>4. \A i \in 1 .. Len(q) :
          /\ Stale(q)[i].kind = q[i].kind
          /\ Stale(q)[i].user = q[i].user
          /\ Stale(q)[i].live = q[i].live
          /\ Stale(q)[i].fresh = FALSE
  BY <1>1, <1>2 DEF Stale, Message
<1> QED BY <1>1, <1>3, <1>4, FunctionIsSeq

\* Stale messages name the same users and are as live as before.
LEMMA StaleKeeps ==
    ASSUME NEW q \in Seq(Message)
    PROVE  /\ NamesUsers(q) => NamesUsers(Stale(q))
           /\ NoneLive(q) => NoneLive(Stale(q))
           /\ OneLive(q) => OneLive(Stale(q))
<1> DEFINE s == Stale(q)
<1>1. DOMAIN s = DOMAIN q
      /\ \A i \in DOMAIN q : s[i].kind = q[i].kind /\ s[i].user = q[i].user
                             /\ s[i].live = q[i].live
  BY StaleIs
<1> HIDE DEF s
<1>2. \A i \in DOMAIN q : LiveToken(s[i]) <=> LiveToken(q[i])
  BY <1>1 DEF LiveToken
<1>3. NamesUsers(q) => NamesUsers(s)
  BY <1>1 DEF NamesUsers
<1>4. NoneLive(q) => NoneLive(s)
  BY <1>1, <1>2 DEF NoneLive
<1>5. OneLive(q) => OneLive(s)
  BY <1>1, <1>2 DEF OneLive
<1> QED BY <1>3, <1>4, <1>5 DEF s

\* Dead messages name the same users, and none is live.
LEMMA DeadKeeps ==
    ASSUME NEW q \in Seq(Message)
    PROVE  /\ NamesUsers(q) => NamesUsers(Dead(q))
           /\ NoneLive(Dead(q))
<1> DEFINE s == Dead(q)
<1>1. DOMAIN s = DOMAIN q
      /\ \A i \in DOMAIN q : s[i].kind = q[i].kind /\ s[i].user = q[i].user
                             /\ s[i].live = FALSE
  BY DeadIs
<1> HIDE DEF s
<1>2. NamesUsers(q) => NamesUsers(s)
  BY <1>1 DEF NamesUsers
<1>3. NoneLive(s)
  BY <1>1 DEF NoneLive, LiveToken
<1> QED BY <1>2, <1>3 DEF s

\* What one more message does to the predicates above.
LEMMA AppendMessage ==
    ASSUME NEW q \in Seq(Message), NEW m \in Message
    PROVE  LET s == Append(q, m)
           IN  /\ s \in Seq(Message)
               /\ DOMAIN s = DOMAIN q \cup {Len(q) + 1}
               /\ Len(q) + 1 \notin DOMAIN q
               /\ \A i \in DOMAIN q : s[i] = q[i]
               /\ s[Len(q) + 1] = m
               /\ NamesUsers(q) /\ (m.kind = "notify" => m.user \in Users)
                      => NamesUsers(s)
               /\ NoneLive(q) /\ ~LiveToken(m) => NoneLive(s)
               /\ NoneLive(q) /\ LiveToken(m) => OneLive(s)
               /\ OneLive(q) /\ ~LiveToken(m) => OneLive(s)
<1> DEFINE s == Append(q, m)
           n == Len(q) + 1
<1>1. /\ s \in Seq(Message)
      /\ DOMAIN s = DOMAIN q \cup {n} /\ n \notin DOMAIN q
      /\ \A i \in DOMAIN q : s[i] = q[i]
      /\ s[n] = m
  <2>1. /\ s \in Seq(Message) /\ Len(s) = Len(q) + 1 /\ Len(q) \in Nat
        /\ \A i \in 1 .. Len(q) : s[i] = q[i]
        /\ s[Len(q) + 1] = m
        /\ DOMAIN q = 1 .. Len(q)
    BY AppendProperties
  <2> HIDE DEF s
  <2>2. DOMAIN s = 1 .. Len(q) + 1
    BY <2>1
  <2> QED BY <2>1, <2>2
<1> HIDE DEF s, n
<1>2. NamesUsers(q) /\ (m.kind = "notify" => m.user \in Users) => NamesUsers(s)
  BY <1>1 DEF NamesUsers
<1>3. NoneLive(q) /\ ~LiveToken(m) => NoneLive(s)
  BY <1>1 DEF NoneLive
<1>4. NoneLive(q) /\ LiveToken(m) => OneLive(s)
  BY <1>1 DEF NoneLive, OneLive
<1>5. OneLive(q) /\ ~LiveToken(m) => OneLive(s)
  BY <1>1 DEF OneLive
<1> QED BY <1>1, <1>2, <1>3, <1>4, <1>5 DEF s, n

\* What handling a message does to them.
LEMMA TailMessages ==
    ASSUME NEW q \in Seq(Message), q # <<>>
    PROVE  /\ Head(q) = q[1] /\ q[1] \in Message /\ 1 \in DOMAIN q
           /\ Tail(q) \in Seq(Message)
           /\ \A i \in DOMAIN Tail(q) :
                  i + 1 \in DOMAIN q /\ Tail(q)[i] = q[i + 1]
           /\ \A i \in DOMAIN q : i # 1 =>
                  i - 1 \in DOMAIN Tail(q) /\ Tail(q)[i - 1] = q[i]
           /\ NamesUsers(q) => NamesUsers(Tail(q))
           /\ NoneLive(q) => NoneLive(Tail(q))
           /\ OneLive(q) /\ ~LiveToken(q[1]) => OneLive(Tail(q))
           /\ OneLive(q) /\ LiveToken(q[1]) => NoneLive(Tail(q))
<1> DEFINE t == Tail(q)
           N == Len(q)
<1>1. /\ Head(q) = q[1] /\ N \in Nat \ {0}
      /\ DOMAIN q = 1 .. N /\ DOMAIN t = 1 .. N - 1
      /\ t \in Seq(Message)
      /\ \A i \in 1 .. N - 1 : t[i] = q[i + 1]
  OBVIOUS
<1>2. q[1] \in Message
  BY <1>1
<1> HIDE DEF t, N
<1>3. \A i \in DOMAIN t : i + 1 \in DOMAIN q /\ t[i] = q[i + 1]
  BY <1>1
<1>4. \A i \in DOMAIN q : i # 1 => i - 1 \in DOMAIN t /\ t[i - 1] = q[i]
  <2> SUFFICES ASSUME NEW i \in 1 .. N, i # 1
               PROVE  i - 1 \in 1 .. N - 1 /\ t[i - 1] = q[i]
    BY <1>1
  <2>1. i - 1 \in 1 .. N - 1 /\ (i - 1) + 1 = i
    BY <1>1
  <2> QED BY <1>1, <2>1
<1>5. 1 \in DOMAIN q
  BY <1>1
<1>6. NamesUsers(q) => NamesUsers(t)
  BY <1>3 DEF NamesUsers
<1>7. NoneLive(q) => NoneLive(t)
  BY <1>3 DEF NoneLive
<1>8. OneLive(q) /\ ~LiveToken(q[1]) => OneLive(t)
  <2> SUFFICES ASSUME OneLive(q), ~LiveToken(q[1]) PROVE OneLive(t)
    OBVIOUS
  <2>1. PICK i \in DOMAIN q : LiveToken(q[i])
                              /\ \A j \in DOMAIN q : j # i => ~LiveToken(q[j])
    BY DEF OneLive
  <2>2. i # 1 /\ i - 1 \in DOMAIN t /\ LiveToken(t[i - 1])
    BY <1>4, <2>1
  <2>3. ASSUME NEW j \in DOMAIN t, j # i - 1 PROVE ~LiveToken(t[j])
    <3>1. j + 1 # i
      BY <1>1, <2>1, <2>3
    <3> QED BY <1>3, <2>1, <3>1
  <2> QED BY <2>2, <2>3 DEF OneLive
<1>9. OneLive(q) /\ LiveToken(q[1]) => NoneLive(t)
  <2> SUFFICES ASSUME OneLive(q), LiveToken(q[1]), NEW j \in DOMAIN t
               PROVE  ~LiveToken(t[j])
    BY DEF NoneLive
  <2>1. PICK i \in DOMAIN q : LiveToken(q[i])
                              /\ \A k \in DOMAIN q : k # i => ~LiveToken(q[k])
    BY DEF OneLive
  <2>2. i = 1
    BY <1>5, <2>1
  <2>3. j + 1 # 1
    BY <1>1
  <2> QED BY <1>3, <2>1, <2>2, <2>3
<1> QED BY <1>1, <1>2, <1>3, <1>4, <1>5, <1>6, <1>7, <1>8, <1>9 DEF t

\* What giving up requests, and making one, does to the requests.
LEMMA RequestsAre ==
    ASSUME NEW rs, rs \subseteq Request
    PROVE  /\ DeadRequests(rs) \subseteq Request
           /\ NoneAsked(DeadRequests(rs))
           /\ rs \cup {NewRequest} \subseteq Request
           /\ NoneAsked(rs) => OneAsked(rs \cup {NewRequest})
<1>1. ASSUME NEW r \in DeadRequests(rs) PROVE r \in Request /\ ~r.live
  <2>1. PICK o \in rs : r = [o EXCEPT !.live = FALSE]
    BY <1>1 DEF DeadRequests
  <2>2. o \in Request
    OBVIOUS
  <2> QED BY <2>1, <2>2 DEF Request
<1>2. NewRequest \in Request /\ NewRequest.live
  BY DEF NewRequest, Request
<1>3. NoneAsked(rs) => OneAsked(rs \cup {NewRequest})
  BY <1>2 DEF NoneAsked, OneAsked
<1> QED BY <1>1, <1>2, <1>3 DEF NoneAsked

\* Ending a call gives up every token that was asked for; a new call asks for
\* one.
LEMMA MessageInvDead ==
    ASSUME ClientInv, NEW q \in Seq(Message), NamesUsers(q),
           mainQ' = Dead(mainQ), workerQ' = Dead(q),
           \/ /\ asked' = DeadRequests(asked) /\ stream'.state # "Starting"
           \/ /\ asked' = DeadRequests(asked) \cup {NewRequest}
              /\ stream'.state = "Starting",
           authUser' = authUser, authEvents' = authEvents,
           faults' \in 0 .. MaxFaults
    PROVE  MessageInv'
<1> USE DEF ClientInv
<1>1. /\ mainQ \in Seq(Message) /\ asked \subseteq Request
      /\ authUser \in Users /\ authEvents \in 0 .. MaxAuthEvents
      /\ NamesUsers(mainQ)
  BY DEF TypeOK, NoticesNameUsers
<1>2. /\ mainQ' \in Seq(Message) /\ NamesUsers(mainQ') /\ NoneLive(mainQ')
      /\ workerQ' \in Seq(Message) /\ NamesUsers(workerQ')
      /\ NoneLive(workerQ')
  BY <1>1, DeadIs, DeadKeeps
<1>3. NoticesNameUsers'
  BY <1>2 DEF NoticesNameUsers
<1> DEFINE ds == DeadRequests(asked)
<1>4. /\ ds \subseteq Request /\ NoneAsked(ds)
      /\ ds \cup {NewRequest} \subseteq Request
      /\ OneAsked(ds \cup {NewRequest})
  <2>1. ds \subseteq Request /\ NoneAsked(ds)
    BY <1>1, RequestsAre
  <2> HIDE DEF ds
  <2> QED BY <2>1, RequestsAre
<1>5. asked' \subseteq Request
  BY <1>4
<1>6. LiveRequests'
  BY <1>2, <1>4 DEF LiveRequests
<1> QED BY <1>1, <1>2, <1>3, <1>5, <1>6 DEF MessageInv

\* What leaves the messages alone keeps MessageInv.
LEMMA MessageInvKept ==
    ASSUME ClientInv, UNCHANGED <<authUser, mainQ, asked, workerQ, authEvents>>,
           stream'.state = stream.state, faults' \in 0 .. MaxFaults
    PROVE  MessageInv'
BY DEF ClientInv, TypeOK, MessageInv, NoticesNameUsers, LiveRequests

\* Every step of FIRAuth keeps MessageInv.
LEMMA MessageInvAuth ==
    ASSUME ClientInv, Auth
    PROVE  MessageInv'
<1> USE DEF ClientInv
<1>1. /\ mainQ \in Seq(Message) /\ workerQ \in Seq(Message)
      /\ asked \subseteq Request
      /\ authUser \in Users /\ authEvents \in 0 .. MaxAuthEvents
      /\ faults \in 0 .. MaxFaults
      /\ NamesUsers(mainQ) /\ NamesUsers(workerQ)
  BY DEF TypeOK, NoticesNameUsers
<1>2. stream' = stream
  BY DEF Auth, UpdateCurrentUser, GetTokenForcingRefresh, AuthStateDidChange,
         GetTokenCallback
<1>3. ASSUME NEW u \in Users, UpdateCurrentUser(u) PROVE MessageInv'
  <2> DEFINE m == [kind |-> "notify", live |-> FALSE, fresh |-> FALSE, user |-> u]
  <2>1. /\ authEvents < MaxAuthEvents /\ authEvents' = authEvents + 1
        /\ authUser' = u /\ mainQ' = Append(mainQ, m)
        /\ UNCHANGED <<asked, workerQ, faults>>
    BY <1>3 DEF UpdateCurrentUser
  <2>2. m \in Message /\ m.user \in Users /\ ~LiveToken(m)
    BY DEF Message, LiveToken
  <2> HIDE DEF m
  <2>3. /\ mainQ' \in Seq(Message) /\ NamesUsers(mainQ')
        /\ NoneLive(mainQ) => NoneLive(mainQ')
        /\ OneLive(mainQ) => OneLive(mainQ')
    BY <1>1, <2>1, <2>2, AppendMessage
  <2>4. LiveRequests'
    BY <1>2, <2>1, <2>3 DEF LiveRequests
  <2>5. authEvents' \in 0 .. MaxAuthEvents
    BY <1>1, <2>1, WritesAssumption
  <2> QED BY <1>1, <2>1, <2>3, <2>4, <2>5 DEF MessageInv, NoticesNameUsers
<1>4. ASSUME NEW r \in asked, NEW fails \in BOOLEAN,
             GetTokenForcingRefresh(r, fails)
      PROVE  MessageInv'
  <2> DEFINE m == [kind |-> "token", live |-> r.live, fresh |-> r.fresh,
                   user |-> IF fails THEN NoToken ELSE authUser]
  <2>1. /\ asked' = asked \ {r} /\ mainQ' = Append(mainQ, m)
        /\ UNCHANGED <<authUser, authEvents, workerQ>>
        /\ fails => faults < MaxFaults
        /\ faults' = IF fails THEN faults + 1 ELSE faults
    BY <1>4 DEF GetTokenForcingRefresh
  <2>2. r \in Request
    BY <1>1
  <2>3. m \in Message /\ m.kind # "notify" /\ (LiveToken(m) <=> r.live)
    BY <1>1, <2>2 DEF Message, LiveToken, Request
  <2> HIDE DEF m
  <2>4. /\ mainQ' \in Seq(Message) /\ NamesUsers(mainQ')
        /\ NoneLive(mainQ) /\ ~r.live => NoneLive(mainQ')
        /\ NoneLive(mainQ) /\ r.live => OneLive(mainQ')
        /\ OneLive(mainQ) /\ ~r.live => OneLive(mainQ')
    BY <1>1, <2>1, <2>3, AppendMessage
  <2>5. /\ NoneAsked(asked) => ~r.live /\ NoneAsked(asked')
        /\ OneAsked(asked) /\ r.live => NoneAsked(asked')
        /\ OneAsked(asked) /\ ~r.live => OneAsked(asked')
    BY <2>1 DEF NoneAsked, OneAsked
  <2>6. LiveRequests'
    BY <1>2, <2>1, <2>4, <2>5 DEF LiveRequests
  <2>7. faults' \in 0 .. MaxFaults
    BY <1>1, <2>1, WritesAssumption
  <2> QED BY <1>1, <2>1, <2>4, <2>6, <2>7 DEF MessageInv, NoticesNameUsers
<1>5. CASE AuthStateDidChange
  <2> DEFINE h == Head(mainQ)
             t == Tail(mainQ)
  <2>1. /\ mainQ # <<>> /\ h.kind = "notify" /\ mainQ' = Stale(t)
        /\ asked' = {[r EXCEPT !.fresh = FALSE] : r \in asked}
        /\ workerQ' = Append(workerQ, h)
        /\ UNCHANGED <<authUser, authEvents, faults>>
    BY <1>5 DEF AuthStateDidChange, Stale
  <2>2. /\ h = mainQ[1] /\ h \in Message /\ 1 \in DOMAIN mainQ
        /\ ~LiveToken(h)
        /\ t \in Seq(Message) /\ NamesUsers(t)
        /\ NoneLive(mainQ) => NoneLive(t)
        /\ OneLive(mainQ) => OneLive(t)
    BY <1>1, <2>1, TailMessages DEF LiveToken
  <2>3. h.user \in Users
    BY <1>1, <2>1, <2>2 DEF NamesUsers
  <2> HIDE DEF h, t
  <2>4. /\ mainQ' \in Seq(Message) /\ NamesUsers(mainQ')
        /\ NoneLive(mainQ) => NoneLive(mainQ')
        /\ OneLive(mainQ) => OneLive(mainQ')
    BY <2>1, <2>2, StaleIs, StaleKeeps
  <2>5. /\ workerQ' \in Seq(Message) /\ NamesUsers(workerQ')
        /\ NoneLive(workerQ) => NoneLive(workerQ')
        /\ OneLive(workerQ) => OneLive(workerQ')
    BY <1>1, <2>1, <2>2, <2>3, AppendMessage
  <2>6. \A r \in asked : /\ [r EXCEPT !.fresh = FALSE] \in Request
                         /\ [r EXCEPT !.fresh = FALSE].live = r.live
    <3> SUFFICES ASSUME NEW r \in asked
                 PROVE  /\ [r EXCEPT !.fresh = FALSE] \in Request
                        /\ [r EXCEPT !.fresh = FALSE].live = r.live
      OBVIOUS
    <3>1. r \in Request
      BY <1>1
    <3> QED BY <3>1 DEF Request
  <2>7. asked' \subseteq Request
    BY <2>1, <2>6
  <2>8. NoneAsked(asked) => NoneAsked(asked')
    BY <2>1, <2>6 DEF NoneAsked
  <2>9. OneAsked(asked) => OneAsked(asked')
    <3> SUFFICES ASSUME OneAsked(asked) PROVE OneAsked(asked')
      OBVIOUS
    <3>1. PICK r \in asked : r.live /\ \A o \in asked : o # r => ~o.live
      BY DEF OneAsked
    <3> DEFINE n == [r EXCEPT !.fresh = FALSE]
    <3>2. n \in asked' /\ n.live
      BY <2>1, <2>6, <3>1
    <3>3. ASSUME NEW o \in asked', o # n PROVE ~o.live
      <4>1. PICK a \in asked : o = [a EXCEPT !.fresh = FALSE]
        BY <2>1
      <4>2. a # r
        BY <3>3, <4>1
      <4> QED BY <2>6, <3>1, <4>1, <4>2
    <3> HIDE DEF n
    <3> QED BY <3>2, <3>3 DEF OneAsked
  <2>10. LiveRequests'
    BY <1>2, <2>4, <2>5, <2>8, <2>9 DEF LiveRequests
  <2> QED BY <1>1, <2>1, <2>4, <2>5, <2>7, <2>10 DEF MessageInv,
             NoticesNameUsers
<1>6. CASE GetTokenCallback
  <2> DEFINE h == Head(mainQ)
             r == [live |-> h.live, fresh |-> TRUE]
  <2>1. /\ mainQ # <<>> /\ h.kind = "token" /\ mainQ' = Tail(mainQ)
        /\ \/ workerQ' = Append(workerQ, h) /\ asked' = asked
           \/ asked' = asked \cup {r} /\ workerQ' = workerQ
        /\ UNCHANGED <<authUser, authEvents, faults>>
    BY <1>6 DEF GetTokenCallback
  <2>2. /\ h = mainQ[1] /\ h \in Message /\ 1 \in DOMAIN mainQ
        /\ mainQ' \in Seq(Message) /\ NamesUsers(mainQ')
        /\ NoneLive(mainQ) => NoneLive(mainQ') /\ ~LiveToken(h)
        /\ OneLive(mainQ) /\ ~LiveToken(h) => OneLive(mainQ')
        /\ OneLive(mainQ) /\ LiveToken(h) => NoneLive(mainQ')
    BY <1>1, <2>1, TailMessages DEF NoneLive
  <2>3. r \in Request /\ (r.live <=> LiveToken(h))
    BY <2>1, <2>2 DEF Request, LiveToken, Message
  <2> HIDE DEF h, r
  <2>4. CASE workerQ' = Append(workerQ, h) /\ asked' = asked
    <3>1. /\ workerQ' \in Seq(Message) /\ NamesUsers(workerQ')
          /\ NoneLive(workerQ) /\ ~LiveToken(h) => NoneLive(workerQ')
          /\ NoneLive(workerQ) /\ LiveToken(h) => OneLive(workerQ')
          /\ OneLive(workerQ) /\ ~LiveToken(h) => OneLive(workerQ')
      BY <1>1, <2>1, <2>2, <2>4, AppendMessage
    <3>2. LiveRequests'
      BY <1>2, <2>2, <2>4, <3>1 DEF LiveRequests
    <3> QED BY <1>1, <2>1, <2>2, <2>4, <3>1, <3>2 DEF MessageInv,
               NoticesNameUsers
  <2>5. CASE asked' = asked \cup {r} /\ workerQ' = workerQ
    <3>1. /\ NoneAsked(asked) /\ ~r.live => NoneAsked(asked')
          /\ NoneAsked(asked) /\ r.live => OneAsked(asked')
          /\ OneAsked(asked) /\ ~r.live => OneAsked(asked')
      BY <2>5 DEF NoneAsked, OneAsked
    <3>2. LiveRequests'
      BY <1>2, <2>2, <2>3, <2>5, <3>1 DEF LiveRequests
    <3> QED BY <1>1, <2>1, <2>2, <2>3, <2>5, <3>2 DEF MessageInv,
               NoticesNameUsers
  <2> QED BY <2>1, <2>4, <2>5
<1> QED BY <1>3, <1>4, <1>5, <1>6 DEF Auth

\* A stream that restarts asks for a token.
LEMMA RestartsState ==
    ASSUME NEW q, NEW rs, Restarts(q, rs)
    PROVE  \/ stream'.state # "Starting" /\ asked' = rs
           \/ stream'.state = "Starting" /\ asked' = rs \cup {NewRequest}
<1>1. "Starting" \in StreamStates
  BY DEF StreamStates
<1>2. StreamIn("Starting").state = "Starting"
      /\ InitialStream.state = "Initial"
  BY <1>1, StreamInIs, InitialStreamIs
<1> HIDE DEF InitialStream
<1> QED BY <1>2 DEF Restarts

\* A stream that fails waits for its backoff before it asks for one.
LEMMA FailsState ==
    ASSUME Fails
    PROVE  stream'.state # "Starting" /\ asked' = DeadRequests(asked)
<1>1. "Backoff" \in StreamStates /\ "Error" \in StreamStates
  BY DEF StreamStates
<1>2. StreamIn("Backoff").state = "Backoff" /\ StreamIn("Error").state = "Error"
  BY <1>1, StreamInIs
<1>3. stream' = StreamIn("Backoff") \/ stream' = StreamIn("Error")
  BY DEF Fails
<1> QED BY <1>2, <1>3 DEF Fails

\* Every step keeps MessageInv.
LEMMA MessageStep ==
    ASSUME ClientInv, Next
    PROVE  MessageInv'
<1> USE DEF ClientInv
<1>1. /\ mainQ \in Seq(Message) /\ workerQ \in Seq(Message)
      /\ asked \subseteq Request
      /\ authUser \in Users /\ authEvents \in 0 .. MaxAuthEvents
      /\ faults \in 0 .. MaxFaults /\ stream \in Stream
      /\ NamesUsers(mainQ) /\ NamesUsers(workerQ)
  BY DEF TypeOK, NoticesNameUsers, Stream
<1>2. workerQ # <<>> =>
          /\ Head(workerQ) = workerQ[1] /\ 1 \in DOMAIN workerQ
          /\ Tail(workerQ) \in Seq(Message) /\ NamesUsers(Tail(workerQ))
          /\ NoneLive(workerQ) => NoneLive(Tail(workerQ))
          /\ OneLive(workerQ) /\ ~LiveToken(workerQ[1]) => OneLive(Tail(workerQ))
          /\ OneLive(workerQ) /\ LiveToken(workerQ[1]) => NoneLive(Tail(workerQ))
  BY <1>1, TailMessages
<1>3. ASSUME NEW permanent \in BOOLEAN, CloseWithError(permanent),
             NEW q \in Seq(Message), NamesUsers(q), workerQ' = Dead(q),
             UNCHANGED <<authUser, authEvents>>, faults' \in 0 .. MaxFaults
      PROVE  MessageInv'
  <2>1. /\ mainQ' = Dead(mainQ)
        /\ \/ Restarts(Tail(queue[user]), DeadRequests(asked))
           \/ Fails
    BY <1>3, CloseWithErrorIs
  <2>2. \/ asked' = DeadRequests(asked) /\ stream'.state # "Starting"
        \/ /\ asked' = DeadRequests(asked) \cup {NewRequest}
           /\ stream'.state = "Starting"
    BY <2>1, RestartsState, FailsState
  <2> QED BY <1>3, <2>1, <2>2, MessageInvDead
<1>4. CASE Auth
  BY <1>4, MessageInvAuth
<1>5. CASE HandleCredentialChange
  <2>1. Restarts(queue[user'], DeadRequests(asked)) /\ workerQ # <<>>
    BY <1>5, CredentialChangeIs
  <2>2. \/ asked' = DeadRequests(asked) /\ stream'.state # "Starting"
        \/ /\ asked' = DeadRequests(asked) \cup {NewRequest}
           /\ stream'.state = "Starting"
    BY <2>1, RestartsState
  <2>3. /\ workerQ' = Dead(Tail(workerQ)) /\ mainQ' = Dead(mainQ)
        /\ UNCHANGED <<authUser, authEvents, faults>>
    BY <1>5 DEF HandleCredentialChange
  <2> QED BY <1>1, <1>2, <2>1, <2>2, <2>3, MessageInvDead
<1>6. CASE ResumeStartWithCredentials
  <2>1. /\ workerQ # <<>> /\ Head(workerQ).kind = "token"
        /\ UNCHANGED <<authUser, authEvents, faults>>
    BY <1>6 DEF ResumeStartWithCredentials
  <2>2. CASE /\ ~Head(workerQ).live /\ workerQ' = Tail(workerQ)
             /\ UNCHANGED <<asked, mainQ, stream>>
    <3>1. ~LiveToken(workerQ[1])
      BY <1>2, <2>1, <2>2 DEF LiveToken
    <3>2. LiveRequests'
      BY <1>2, <2>1, <2>2, <3>1 DEF LiveRequests
    <3> QED BY <1>1, <1>2, <2>1, <2>2, <3>2 DEF MessageInv, NoticesNameUsers
  <2>3. CASE CloseWithError(FALSE) /\ workerQ' = Dead(Tail(workerQ))
    BY <1>1, <1>2, <1>3, <2>1, <2>3
  <2>4. CASE /\ Head(workerQ).live /\ workerQ' = Tail(workerQ)
             /\ stream' = [stream EXCEPT !.state = "Open",
                                         !.token = Head(workerQ).user]
             /\ UNCHANGED <<asked, mainQ>>
    <3>1. LiveToken(workerQ[1])
      BY <1>2, <2>1, <2>4 DEF LiveToken
    <3>2. ~NoneLive(workerQ)
      BY <1>2, <2>1, <3>1 DEF NoneLive
    <3>3. NoneAsked(asked) /\ NoneLive(mainQ) /\ NoneLive(Tail(workerQ))
      BY <1>2, <2>1, <3>1, <3>2 DEF LiveRequests
    <3>4. stream'.state = "Open"
      BY <1>1, <2>4 DEF Stream
    <3>5. LiveRequests'
      BY <2>4, <3>3, <3>4 DEF LiveRequests
    <3> QED BY <1>1, <1>2, <2>1, <2>4, <3>5 DEF MessageInv, NoticesNameUsers
  <2> QED BY <1>6, <2>2, <2>3, <2>4 DEF ResumeStartWithCredentials
<1>7. CASE WriteMutations
  <2>1. UNCHANGED <<authUser, authEvents, mainQ, workerQ, faults>>
    BY <1>7 DEF WriteMutations
  <2>2. CASE stream'.state = stream.state /\ asked' = asked
    BY <1>1, <2>1, <2>2, MessageInvKept
  <2>3. CASE /\ ~IsStarted(stream) /\ stream' = Start(stream)
             /\ asked' = IF Asks(stream) THEN asked \cup {NewRequest} ELSE asked
    <3>1. stream.state # "Starting"
      BY <2>3 DEF IsStarted
    <3>2. NoneAsked(asked) /\ NoneLive(mainQ) /\ NoneLive(workerQ)
      BY <3>1 DEF LiveRequests
    <3>3. asked \cup {NewRequest} \subseteq Request
          /\ OneAsked(asked \cup {NewRequest})
      BY <1>1, <3>2, RequestsAre
    <3>4. CASE stream.state = "Error"
      <4>1. stream'.state = "Backoff" /\ asked' = asked
        BY <1>1, <2>3, <3>4 DEF Start, Asks, Stream
      <4>2. LiveRequests'
        BY <2>1, <3>2, <4>1 DEF LiveRequests
      <4> QED BY <1>1, <2>1, <4>1, <4>2 DEF MessageInv, NoticesNameUsers
    <3>5. CASE stream.state # "Error"
      <4>1. stream'.state = "Starting" /\ asked' = asked \cup {NewRequest}
        BY <1>1, <2>3, <3>5 DEF Start, Asks, Stream
      <4>2. LiveRequests'
        BY <2>1, <3>2, <3>3, <4>1 DEF LiveRequests
      <4> QED BY <1>1, <2>1, <3>3, <4>1, <4>2 DEF MessageInv, NoticesNameUsers
    <3> QED BY <3>4, <3>5
  <2> QED BY <1>7, <2>2, <2>3, WriteMutationsIs
<1>8. CASE OnWriteStreamHandshakeComplete
  <2>1. UNCHANGED <<authUser, mainQ, asked, workerQ, authEvents, faults>>
    BY <1>8 DEF OnWriteStreamHandshakeComplete, authVars
  <2>2. stream'.state = stream.state
    BY <1>1, <1>8 DEF OnWriteStreamHandshakeComplete, Stream
  <2> QED BY <1>1, <2>1, <2>2, MessageInvKept
<1>9. CASE OnWriteStreamMutationResult
  <2>1. UNCHANGED <<authUser, mainQ, workerQ, authEvents, faults>>
    BY <1>9 DEF OnWriteStreamMutationResult
  <2>2. stream'.state = stream.state /\ asked' = asked
    BY <1>9, MutationResultIs
  <2> QED BY <1>1, <2>1, <2>2, MessageInvKept
<1>10. CASE OnStreamFinish
  <2>1. /\ CloseWithError(verdict = "permanent") /\ workerQ' = Dead(workerQ)
        /\ UNCHANGED <<authUser, authEvents, faults>>
        /\ (verdict = "permanent") \in BOOLEAN
    BY <1>10 DEF OnStreamFinish
  <2> QED BY <1>1, <1>3, <2>1
<1>11. CASE BackoffElapsed
  <2>1. /\ stream.state = "Backoff" /\ stream' = Start(InhibitBackoff(stream))
        /\ asked' = asked \cup {NewRequest}
        /\ UNCHANGED <<authUser, authEvents, mainQ, workerQ, faults>>
    BY <1>11 DEF BackoffElapsed
  <2>2. NoneAsked(asked) /\ NoneLive(mainQ) /\ NoneLive(workerQ)
    BY <2>1 DEF LiveRequests
  <2>3. stream'.state = "Starting"
    <3> DEFINE s == [stream EXCEPT !.state = "Initial"]
    <3>1. s \in Stream /\ s.state = "Initial"
      BY <1>1 DEF Stream, StreamStates
    <3>2. stream' = Start(s)
      BY <2>1 DEF InhibitBackoff
    <3> HIDE DEF s
    <3> QED BY <3>1, <3>2 DEF Start, Stream
  <2>4. asked' \subseteq Request /\ OneAsked(asked')
    BY <1>1, <2>1, <2>2, RequestsAre
  <2>5. LiveRequests'
    BY <2>1, <2>2, <2>3, <2>4 DEF LiveRequests
  <2> QED BY <1>1, <2>1, <2>4, <2>5 DEF MessageInv, NoticesNameUsers
<1>12. CASE IdleTimeout
  <2>1. /\ stream.idle /\ stream' = Closed(stream, TRUE)
        /\ UNCHANGED <<authUser, asked, authEvents, mainQ, workerQ, faults>>
    BY <1>12 DEF IdleTimeout, authVars
  <2>2. stream.state = "Open"
    BY <1>1, <2>1 DEF CallNeedsStream, IsOpen, Stream
  <2>3. NoneAsked(asked) /\ NoneLive(mainQ) /\ NoneLive(workerQ)
    BY <2>2 DEF LiveRequests
  <2>4. stream'.state = "Initial"
    <3> DEFINE s == [stream EXCEPT !.state = "Initial", !.idle = FALSE]
    <3>1. s \in Stream /\ s.state = "Initial"
      BY <1>1 DEF Stream, StreamStates
    <3>2. Close(stream, TRUE) = s
      BY <2>2 DEF Close, IsStarted
    <3> HIDE DEF s
    <3> QED BY <2>1, <3>1, <3>2 DEF Closed, Stream
  <2>5. LiveRequests'
    BY <2>1, <2>3, <2>4 DEF LiveRequests
  <2> QED BY <1>1, <2>1, <2>5 DEF MessageInv, NoticesNameUsers
<1>13. ASSUME NEW available \in BOOLEAN, ConnectivityChanged(available)
       PROVE  MessageInv'
  <2>1. /\ workerQ' = Dead(workerQ) /\ UNCHANGED <<authUser, authEvents>>
        /\ faults < MaxFaults /\ faults' = faults + 1
    BY <1>13 DEF ConnectivityChanged
  <2>2. faults' \in 0 .. MaxFaults
    BY <1>1, <2>1, WritesAssumption
  <2>3. CASE available
    <3>1. RestartNetwork(queue[user], asked) /\ mainQ' = Dead(mainQ)
      BY <1>13, <2>3 DEF ConnectivityChanged
    <3>2. user \in Users
      BY DEF TypeOK
    <3>3. Restarts(queue[user], DeadRequests(asked))
      BY <3>1, <3>2, RestartNetworkIs
    <3>4. \/ asked' = DeadRequests(asked) /\ stream'.state # "Starting"
          \/ /\ asked' = DeadRequests(asked) \cup {NewRequest}
             /\ stream'.state = "Starting"
      BY <3>3, RestartsState
    <3> QED BY <1>1, <2>1, <2>2, <3>1, <3>4, MessageInvDead
  <2>4. CASE ~available
    <3>1. CloseWithError(FALSE)
      BY <1>13, <2>4 DEF ConnectivityChanged
    <3> QED BY <1>1, <1>3, <2>1, <2>2, <3>1
  <2> QED BY <2>3, <2>4
<1>14. CASE ServerShakesHands \/ ServerApplies \/ ServerRefuses
            \/ ConnectionBreaks
  <2>1. UNCHANGED <<authUser, mainQ, asked, workerQ, authEvents, stream>>
    BY <1>14 DEF ServerShakesHands, ServerApplies, ServerRefuses,
                 ConnectionBreaks, authVars
  <2>2. faults' \in {faults, faults + 1}
        /\ (faults' # faults => faults < MaxFaults)
    BY <1>14 DEF ServerShakesHands, ServerApplies, ServerRefuses,
                 ConnectionBreaks
  <2>3. faults' \in 0 .. MaxFaults
    BY <1>1, <2>2, WritesAssumption
  <2> QED BY <2>1, <2>3, MessageInvKept
<1>15. CASE Crash \/ CrashAcknowledging \/ CrashRejecting
  <2>1. /\ UNCHANGED <<authUser, authEvents>> /\ mainQ' = <<>> /\ workerQ' = <<>>
        /\ faults < MaxFaults /\ faults' = faults + 1
        /\ Restarts(queue'[user'], {})
    BY <1>15, CrashIs
  <2>2. faults' \in 0 .. MaxFaults
    BY <1>1, <2>1, WritesAssumption
  <2>3. \/ stream'.state # "Starting" /\ asked' = {}
        \/ stream'.state = "Starting" /\ asked' = {} \cup {NewRequest}
    BY <2>1, RestartsState
  <2>4. asked' \subseteq Request /\ (asked' = {} => NoneAsked(asked'))
        /\ (asked' # {} => OneAsked(asked'))
    BY <2>3, RequestsAre DEF NoneAsked
  <2>5. /\ mainQ' \in Seq(Message) /\ workerQ' \in Seq(Message)
        /\ NoneLive(mainQ') /\ NoneLive(workerQ')
        /\ NamesUsers(mainQ') /\ NamesUsers(workerQ')
    BY <2>1 DEF NoneLive, NamesUsers
  <2>6. LiveRequests'
    BY <2>3, <2>4, <2>5 DEF LiveRequests
  <2> QED BY <1>1, <2>1, <2>2, <2>4, <2>5, <2>6 DEF MessageInv, NoticesNameUsers
<1> QED BY <1>4, <1>5, <1>6, <1>7, <1>8, <1>9, <1>10, <1>11, <1>12, <1>13,
           <1>14, <1>15 DEF Next, Worker, Environment

-----------------------------------------------------------------------------
(* The stream and its call *)

\* The part of ClientInv about the stream and its call.
CallInv ==
    /\ stream \in Stream
    /\ wire \in Seq(Nat) /\ answers \in Seq(Nat)
    /\ verdict \in {"none", "transient", "permanent"}
    /\ CallMatchesPipeline
    /\ CallNeedsStream
    /\ PendingIsStarted

\* Writes are numbers.
LEMMA PayloadIsNat ==
    ASSUME NEW p \in Seq(Batch)
    PROVE  Payload(p) \in Seq(Nat)
<1>1. Writes \subseteq Nat
  BY WritesAssumption DEF Writes
<1> QED BY <1>1, PayloadIs, SeqMonotonic

\* The second part of a concatenation.
LEMMA ConcatLater ==
    ASSUME NEW s \in Seq(Nat), NEW t \in Seq(Nat),
           NEW i \in Len(s) + 1 .. Len(s) + Len(t)
    PROVE  (s \o t)[i] = t[i - Len(s)]
<1> DEFINE c == s \o t
<1>1. \A j \in 1 .. Len(s) + Len(t) :
          c[j] = IF j <= Len(s) THEN s[j] ELSE t[j - Len(s)]
  BY ConcatProperties
<1>2. i \in 1 .. Len(s) + Len(t) /\ ~(i <= Len(s))
  OBVIOUS
<1> HIDE DEF c
<1>3. c[i] = t[i - Len(s)]
  BY <1>1, <1>2
<1> QED BY <1>3 DEF c

\* Concatenation is associative.
LEMMA ConcatNat ==
    ASSUME NEW x \in Seq(Nat), NEW y \in Seq(Nat), NEW z \in Seq(Nat)
    PROVE  (x \o y) \o z = x \o (y \o z)
BY ConcatAssociative

\* The tail of a concatenation.
LEMMA TailConcat ==
    ASSUME NEW s \in Seq(Nat), NEW t \in Seq(Nat), s # <<>>
    PROVE  Tail(s \o t) = Tail(s) \o t
<1> DEFINE a == Tail(s \o t)
           b == Tail(s) \o t
           m == Len(s)
           n == Len(t)
<1>1. m \in Nat \ {0} /\ n \in Nat
  OBVIOUS
<1>2. /\ s \o t \in Seq(Nat) /\ Len(s \o t) = m + n
      /\ \A i \in 1 .. m + n :
             (s \o t)[i] = IF i <= m THEN s[i] ELSE t[i - m]
  BY ConcatProperties
<1>3. /\ Tail(s) \in Seq(Nat) /\ Len(Tail(s)) = m - 1
      /\ \A i \in 1 .. m - 1 : Tail(s)[i] = s[i + 1]
  OBVIOUS
<1>4. /\ a \in Seq(Nat) /\ Len(a) = m + n - 1
      /\ \A i \in 1 .. m + n - 1 : a[i] = (s \o t)[i + 1]
  <2> DEFINE c == s \o t
  <2>1. c # <<>> /\ c \in Seq(Nat) /\ Len(c) = m + n
    BY <1>1, <1>2
  <2> HIDE DEF c
  <2>2. /\ Tail(c) \in Seq(Nat) /\ Len(Tail(c)) = Len(c) - 1
        /\ \A i \in 1 .. Len(c) - 1 : Tail(c)[i] = c[i + 1]
    BY <2>1
  <2> QED BY <2>1, <2>2 DEF c
<1>5. /\ b \in Seq(Nat) /\ Len(b) = m - 1 + n
      /\ \A i \in 1 .. m - 1 + n :
             b[i] = IF i <= m - 1 THEN Tail(s)[i] ELSE t[i - (m - 1)]
  <2> DEFINE r == Tail(s)
  <2> HIDE DEF r
  <2>1. /\ r \o t \in Seq(Nat) /\ Len(r \o t) = Len(r) + n
        /\ \A i \in 1 .. Len(r) + n :
               (r \o t)[i] = IF i <= Len(r) THEN r[i] ELSE t[i - Len(r)]
    BY <1>3, ConcatProperties DEF r
  <2>2. Len(r) = m - 1
    BY <1>3 DEF r
  <2> QED BY <2>1, <2>2 DEF r
<1> HIDE DEF a, b, m, n
<1>6. ASSUME NEW i \in 1 .. m + n - 1 PROVE a[i] = b[i]
  <2>1. i \in 1 .. m - 1 + n /\ i + 1 \in 1 .. m + n /\ i \in Int
    BY <1>1
  <2>2. CASE i <= m - 1
    <3>1. i \in 1 .. m - 1 /\ i + 1 <= m
      BY <1>1, <2>1, <2>2
    <3> QED BY <1>2, <1>3, <1>4, <1>5, <2>1, <2>2, <3>1
  <2>3. CASE ~(i <= m - 1)
    <3>1. ~(i + 1 <= m) /\ i - (m - 1) = i + 1 - m
      BY <1>1, <2>1, <2>3
    <3>2. a[i] = (s \o t)[i + 1]
      BY <1>4
    <3>3. (s \o t)[i + 1] = t[i + 1 - m]
      <4>1. i + 1 \in m + 1 .. m + n
        BY <1>1, <2>1, <3>1
      <4> QED BY <4>1, ConcatLater DEF m, n
    <3>4. b[i] = t[i - (m - 1)]
      BY <1>5, <2>1, <2>3
    <3> QED BY <3>1, <3>2, <3>3, <3>4
  <2> QED BY <2>2, <2>3
<1>7. Len(a) = Len(b) /\ \A i \in 1 .. Len(a) : a[i] = b[i]
  BY <1>1, <1>4, <1>5, <1>6
<1>8. a = b
  BY <1>4, <1>5, <1>7, SeqEqual
<1> QED BY <1>8 DEF a, b

\* Moving a message from one sequence to the end of another.
LEMMA HandledOne ==
    ASSUME NEW s \in Seq(Nat), NEW t \in Seq(Nat), t # <<>>
    PROVE  /\ Append(s, Head(t)) \in Seq(Nat) /\ Tail(t) \in Seq(Nat)
           /\ Append(s, Head(t)) \o Tail(t) = s \o t
<1>1. Head(t) \in Nat /\ Tail(t) \in Seq(Nat) /\ Head(t) = t[1]
      /\ Len(t) \in Nat \ {0}
  OBVIOUS
<1>2. Append(s, Head(t)) \in Seq(Nat) /\ Append(s, Head(t)) = s \o <<Head(t)>>
  BY <1>1, AppendProperties, AppendIsConcat
<1>3. t = <<Head(t)>> \o Tail(t)
  <2>1. 1 \in 1 .. Len(t) /\ Len(t) \in 1 .. Len(t) /\ 1 + 1 = 2
    BY <1>1
  <2>2. SubSeq(t, 1, Len(t)) = <<t[1]>> \o SubSeq(t, 2, Len(t))
    BY <2>1, SubSeqRecursiveFirst
  <2>3. SubSeq(t, 1, Len(t)) = t
    BY SubSeqFull
  <2>4. Tail(t) = SubSeq(t, 2, Len(t))
    BY TailIsSubSeq
  <2> QED BY <1>1, <2>2, <2>3, <2>4
<1>4. (s \o <<Head(t)>>) \o Tail(t) = s \o (<<Head(t)>> \o Tail(t))
  <2> DEFINE h == <<Head(t)>>
             r == Tail(t)
  <2>1. h \in Seq(Nat) /\ r \in Seq(Nat)
    BY <1>1
  <2> HIDE DEF h, r
  <2>2. \A x, y, z \in Seq(Nat) : (x \o y) \o z = x \o (y \o z)
    BY ConcatNat, Zenon
  <2>3. (s \o h) \o r = s \o (h \o r)
    BY <2>1, <2>2, Zenon
  <2> QED BY <2>3 DEF h, r
<1> QED BY <1>1, <1>2, <1>3, <1>4

\* Which write of the pipeline each message and each answer is about.
LEMMA CallIndex ==
    ASSUME ClientInv, stream.handshake, verdict # "transient"
    PROVE  /\ Len(answers) + Len(wire) = Len(pipeline)
           /\ Len(answers) \in Nat /\ Len(wire) \in Nat
           /\ \A i \in 1 .. Len(answers) : answers[i] = pipeline[i].w
           /\ \A i \in 1 .. Len(wire) : wire[i] = pipeline[Len(answers) + i].w
<1> USE DEF ClientInv
<1>1. pipeline \in Seq(Batch) /\ wire \in Seq(Nat) /\ answers \in Seq(Nat)
      /\ stream \in Stream
  BY DEF TypeOK, Stream
<1> DEFINE c == answers \o wire
           m == Len(answers)
           n == Len(wire)
<1>2. c = Payload(pipeline)
  <2>1. IsOpen(stream)
    BY <1>1 DEF CallNeedsStream, Stream
  <2> QED BY <2>1 DEF CallMatchesPipeline
<1>3. /\ Len(c) = m + n /\ m \in Nat /\ n \in Nat
      /\ \A i \in 1 .. m + n :
             c[i] = IF i <= m THEN answers[i] ELSE wire[i - m]
  BY <1>1, ConcatProperties
<1>4. Len(c) = Len(pipeline) /\ \A i \in 1 .. Len(pipeline) : c[i] = pipeline[i].w
  BY <1>1, <1>2, PayloadIs
<1> HIDE DEF c, m, n
<1>5. ASSUME NEW i \in 1 .. m PROVE answers[i] = pipeline[i].w
  <2>1. i \in 1 .. m + n /\ i <= m
    BY <1>3
  <2> QED BY <1>3, <1>4, <2>1
<1>6. ASSUME NEW i \in 1 .. n PROVE wire[i] = pipeline[m + i].w
  <2>1. m + i \in 1 .. m + n /\ ~(m + i <= m) /\ (m + i) - m = i
    BY <1>3
  <2>2. c[m + i] = wire[i]
    BY <1>3, <2>1
  <2> QED BY <1>3, <1>4, <2>1, <2>2
<1>7. m + n = Len(pipeline) /\ m \in Nat /\ n \in Nat
  BY <1>3, <1>4
<1> QED BY <1>5, <1>6, <1>7 DEF m, n

\* What the server is about to handle.
LEMMA NextMessage ==
    ASSUME ClientInv, wire # <<>>, verdict # "transient"
    PROVE  /\ IsOpen(stream)
           /\ Head(wire) = Handshake => ~stream.handshake
           /\ Head(wire) # Handshake =>
                  /\ stream.handshake
                  /\ Len(answers) + 1 \in 1 .. Len(pipeline)
                  /\ Len(answers) + 1 \in DOMAIN queue[user]
                  /\ pipeline[Len(answers) + 1] = queue[user][Len(answers) + 1]
                  /\ Head(wire) = queue[user][Len(answers) + 1].w
                  /\ Head(wire) \in Writes
                  /\ Head(wire) \in 1 .. Len(writer)
                  /\ writer[Head(wire)] = user
<1> USE DEF ClientInv
<1>1. pipeline \in Seq(Batch) /\ wire \in Seq(Nat) /\ answers \in Seq(Nat)
      /\ stream \in Stream /\ user \in Users /\ queue[user] \in Seq(Batch)
      /\ writer \in Seq(Users)
  BY DEF TypeOK, Stream
<1>2. IsOpen(stream)
  BY DEF CallNeedsStream
<1> DEFINE k == Len(answers) + 1
<1>3. ASSUME stream.handshake
      PROVE  /\ k \in 1 .. Len(pipeline) /\ Head(wire) = pipeline[k].w
             /\ k \in DOMAIN queue[user] /\ pipeline[k] = queue[user][k]
             /\ Head(wire) \in Writes
             /\ Head(wire) \in 1 .. Len(writer) /\ writer[Head(wire)] = user
  <2> DEFINE q == queue[user]
             b == q[k]
  <2>1. /\ Len(answers) + Len(wire) = Len(pipeline)
        /\ Len(answers) \in Nat /\ Len(wire) \in Nat
        /\ \A i \in 1 .. Len(wire) : wire[i] = pipeline[Len(answers) + i].w
    BY <1>3, CallIndex
  <2>2. 1 \in 1 .. Len(wire) /\ Head(wire) = wire[1]
    BY <1>1
  <2>3. k \in 1 .. Len(pipeline) /\ Head(wire) = pipeline[k].w
    BY <2>1, <2>2
  <2>4. /\ pipeline = SubSeq(q, 1, Room(q))
        /\ Len(pipeline) = Room(q)
        /\ \A i \in 1 .. Room(q) : pipeline[i] = q[i]
    BY <1>1, HeadOfQueue DEF PipelineIsHead, Room
  <2>5. Room(q) \in 0 .. Len(q)
    BY <1>1, RoomIs
  <2>6. k \in DOMAIN q /\ pipeline[k] = q[k]
    BY <1>1, <2>3, <2>4, <2>5
  <2>7. b \in Batch /\ b.w <= Len(writer) /\ writer[b.w] = user
    BY <1>1, <2>6 DEF QueuesOrdered
  <2>8. b.w \in Writes
    BY <2>7 DEF Batch
  <2> HIDE DEF b, k, q
  <2>9. b.w \in 1 .. Len(writer)
    BY <1>1, <2>7, <2>8, WritesAssumption DEF Writes
  <2> QED BY <2>3, <2>6, <2>7, <2>8, <2>9 DEF b, q
<1>4. stream.handshake => Head(wire) # Handshake
  BY <1>3 DEF Writes, Handshake
<1>5. ASSUME ~stream.handshake PROVE Head(wire) = Handshake
  <2> DEFINE c == answers \o wire
             m == Len(answers)
             n == Len(wire)
  <2>1. c = <<Handshake>>
    BY <1>2, <1>5 DEF CallMatchesPipeline
  <2>2. /\ Len(c) = m + n /\ m \in Nat /\ n \in Nat \ {0} /\ Head(wire) = wire[1]
        /\ \A i \in 1 .. m + n :
               c[i] = IF i <= m THEN answers[i] ELSE wire[i - m]
    BY <1>1, ConcatProperties
  <2>3. Len(c) = 1 /\ c[1] = Handshake
    BY <2>1
  <2> HIDE DEF c, m, n
  <2>7. m + n = 1 /\ m \in Nat /\ n \in Nat \ {0}
    BY <2>2, <2>3
  <2>4. m = 0 /\ n = 1
    BY <2>7
  <2>5. 1 \in 1 .. m + n /\ ~(1 <= m) /\ 1 - m = 1
    BY <2>4
  <2>6. c[1] = wire[1]
    BY <2>2, <2>5
  <2> QED BY <2>2, <2>3, <2>6
<1> QED BY <1>2, <1>3, <1>4, <1>5

\* What leaves the stream and its call alone keeps CallInv.
LEMMA CallInvKept ==
    ASSUME ClientInv, UNCHANGED <<pipeline, stream, callVars>>
    PROVE  CallInv'
BY DEF ClientInv, TypeOK, CallInv, Stream, callVars, CallMatchesPipeline,
       CallNeedsStream, PendingIsStarted

\* A stream without a call keeps CallInv.
LEMMA CallInvClosed ==
    ASSUME stream' \in Stream, ~IsOpen(stream'), ~stream'.handshake,
           ~stream'.idle, pipeline' # <<>> => IsStarted(stream'),
           wire' = <<>>, answers' = <<>>, verdict' = "none"
    PROVE  CallInv'
<1>1. wire' \in Seq(Nat) /\ answers' \in Seq(Nat)
  OBVIOUS
<1> QED BY <1>1 DEF CallInv, CallMatchesPipeline, CallNeedsStream,
                    PendingIsStarted

\* Restarting the stream keeps CallInv.
LEMMA CallInvRestarts ==
    ASSUME NEW q \in Seq(Batch), NEW rs, Restarts(q, rs),
           answers' = <<>>, verdict' = "none"
    PROVE  CallInv'
<1>1. "Starting" \in StreamStates
  BY DEF StreamStates
<1>2. pipeline' = SubSeq(q, 1, Room(q)) /\ wire' = <<>>
  BY DEF Restarts
<1>3. pipeline' = <<>> <=> q = <<>>
  BY <1>2, HeadOfQueue
<1>4. CASE q = <<>>
  <2>1. stream' = InitialStream
    BY <1>4 DEF Restarts
  <2> HIDE DEF InitialStream
  <2>2. stream' \in Stream /\ ~IsOpen(stream') /\ ~stream'.handshake
        /\ ~stream'.idle
    BY <2>1, InitialStreamIs DEF IsOpen
  <2> QED BY <1>2, <1>3, <1>4, <2>2, CallInvClosed
<1>5. CASE q # <<>>
  <2>1. stream' = StreamIn("Starting")
    BY <1>5 DEF Restarts
  <2>2. stream' \in Stream /\ ~IsOpen(stream') /\ ~stream'.handshake
        /\ ~stream'.idle /\ IsStarted(stream')
    BY <1>1, <2>1, StreamInIs DEF IsOpen, IsStarted
  <2> QED BY <1>2, <2>2, CallInvClosed
<1> QED BY <1>4, <1>5

\* Failing the stream keeps CallInv.
LEMMA CallInvFails ==
    ASSUME Fails, answers' = <<>>, verdict' = "none"
    PROVE  CallInv'
<1>1. "Backoff" \in StreamStates /\ "Error" \in StreamStates
  BY DEF StreamStates
<1>2. wire' = <<>> /\ pipeline' = pipeline
  BY DEF Fails
<1>3. CASE pipeline # <<>>
  <2>1. stream' = StreamIn("Backoff")
    BY <1>3 DEF Fails
  <2>2. stream' \in Stream /\ ~IsOpen(stream') /\ ~stream'.handshake
        /\ ~stream'.idle /\ IsStarted(stream')
    BY <1>1, <2>1, StreamInIs DEF IsOpen, IsStarted
  <2> QED BY <1>2, <2>2, CallInvClosed
<1>4. CASE pipeline = <<>>
  <2>1. stream' = StreamIn("Error")
    BY <1>4 DEF Fails
  <2>2. stream' \in Stream /\ ~IsOpen(stream') /\ ~stream'.handshake
        /\ ~stream'.idle
    BY <1>1, <2>1, StreamInIs DEF IsOpen, IsStarted
  <2> QED BY <1>2, <1>4, <2>2, CallInvClosed
<1> QED BY <1>3, <1>4

\* The beginning of a call: the handshake.
LEMMA CallInvResumed ==
    ASSUME ClientInv, ResumeStartWithCredentials, Head(workerQ).live,
           Head(workerQ).user # NoToken
    PROVE  CallInv'
<1> USE DEF ClientInv
<1> DEFINE h == Head(workerQ)
<1>1. /\ workerQ # <<>> /\ h.kind = "token" /\ wire' = <<Handshake>>
      /\ stream' = [stream EXCEPT !.state = "Open", !.token = h.user]
      /\ UNCHANGED <<pipeline, answers, verdict>>
  BY DEF ResumeStartWithCredentials
<1>2. workerQ \in Seq(Message) /\ stream \in Stream
  BY DEF TypeOK, Stream
<1>3. h = workerQ[1] /\ h \in Message /\ 1 \in DOMAIN workerQ
  BY <1>1, <1>2, TailMessages
<1>4. ~NoneLive(workerQ)
  BY <1>1, <1>3 DEF NoneLive, LiveToken
<1>5. stream.state = "Starting"
  BY <1>4 DEF LiveRequests
<1>6. ~stream.handshake /\ ~stream.idle /\ wire = <<>> /\ answers = <<>>
      /\ verdict = "none"
  BY <1>5 DEF CallNeedsStream, IsOpen
<1>7. h.user \in Users \cup {NoToken}
  BY <1>3 DEF Message
<1> HIDE DEF h
<1>8. /\ stream' \in Stream /\ stream'.state = "Open" /\ ~stream'.handshake
      /\ ~stream'.idle
  BY <1>1, <1>2, <1>6, <1>7 DEF Stream, StreamStates
<1>9. wire' \in Seq(Nat) /\ answers' \in Seq(Nat)
      /\ answers' \o wire' = <<Handshake>>
  <2>1. <<Handshake>> \in Seq(Nat)
    BY DEF Handshake
  <2>2. <<>> \o <<Handshake>> = <<Handshake>>
    BY <2>1, ConcatEmptySeq
  <2> QED BY <1>1, <1>6, <2>1, <2>2
<1>10. CallMatchesPipeline'
  BY <1>8, <1>9 DEF CallMatchesPipeline
<1>11. CallNeedsStream'
  BY <1>1, <1>6, <1>8 DEF CallNeedsStream, IsOpen
<1>12. PendingIsStarted'
  BY <1>8 DEF PendingIsStarted, IsStarted
<1> QED BY <1>1, <1>6, <1>8, <1>9, <1>10, <1>11, <1>12 DEF CallInv

\* WriteMutations keeps CallInv.
LEMMA CallInvIssued ==
    ASSUME ClientInv, WriteMutations
    PROVE  CallInv'
<1> USE DEF ClientInv
<1> DEFINE r == Append(queue[user], NewBatch)
<1>1. /\ stream \in Stream /\ pipeline \in Seq(Batch)
      /\ wire \in Seq(Nat) /\ answers \in Seq(Nat)
      /\ verdict \in {"none", "transient", "permanent"}
      /\ answers' = answers /\ verdict' = verdict
  BY DEF TypeOK, Stream, WriteMutations
<1>2. r \in Seq(Batch) /\ r # <<>>
  BY NewBatchIs DEF WriteMutations
<1>3. Refills(r, pipeline)
  BY WriteMutationsIs
<1>4. pipeline' # <<>>
  BY <1>2, <1>3, HeadOfQueue DEF Refills
<1>5. PICK new \in Seq(Batch) :
          /\ pipeline' = pipeline \o new
          /\ wire' = IF Ready(stream) THEN wire \o Payload(new) ELSE wire
  BY <1>3 DEF Refills
<1>6. CASE Ready(stream)
  <2>1. /\ stream' \in Stream
        /\ stream'.state = stream.state
        /\ stream'.handshake = stream.handshake
        /\ stream'.idle = FALSE
    BY <1>6, WriteMutationsIs
  <2>2. stream.state = "Open" /\ stream.handshake
    BY <1>6 DEF Ready, IsOpen
  <2>3. Payload(new) \in Seq(Nat) /\ wire' = wire \o Payload(new)
    BY <1>5, <1>6, PayloadIsNat
  <2>4. wire' \in Seq(Nat)
    BY <1>1, <2>3, ConcatProperties
  <2>5. answers \o wire' = (answers \o wire) \o Payload(new)
    <3> DEFINE p == Payload(new)
    <3> HIDE DEF p
    <3>1. p \in Seq(Nat) /\ wire' = wire \o p
      BY <2>3 DEF p
    <3>2. answers \o (wire \o p) = (answers \o wire) \o p
      BY <1>1, <3>1, ConcatNat
    <3> QED BY <3>1, <3>2 DEF p
  <2>6. CallMatchesPipeline'
    <3> SUFFICES ASSUME verdict # "transient"
                 PROVE  answers' \o wire' = Payload(pipeline')
      BY <1>1, <2>1, <2>2 DEF CallMatchesPipeline
    <3>1. answers \o wire = Payload(pipeline)
      BY <2>2 DEF CallMatchesPipeline, IsOpen
    <3>2. Payload(pipeline') = Payload(pipeline) \o Payload(new)
      BY <1>1, <1>5, PayloadConcat
    <3> QED BY <1>1, <2>5, <3>1, <3>2
  <2>7. CallNeedsStream'
    BY <1>1, <2>1, <2>2 DEF CallNeedsStream, IsOpen
  <2>8. PendingIsStarted'
    BY <2>1, <2>2 DEF PendingIsStarted, IsStarted
  <2> QED BY <1>1, <2>1, <2>4, <2>6, <2>7, <2>8 DEF CallInv
<1>7. CASE ~Ready(stream) /\ IsStarted(stream)
  <2>1. stream' = stream /\ wire' = wire
    BY <1>5, <1>7, WriteMutationsIs
  <2>2. CallMatchesPipeline'
    <3> SUFFICES ASSUME IsOpen(stream), verdict # "transient"
                 PROVE  answers' \o wire' = <<Handshake>> /\ ~stream.handshake
      BY <1>1, <2>1 DEF CallMatchesPipeline
    <3>1. ~stream.handshake
      BY <1>7 DEF Ready
    <3> QED BY <1>1, <2>1, <3>1 DEF CallMatchesPipeline
  <2>3. ~stream.idle
    BY <1>7 DEF CallNeedsStream, Ready
  <2>4. CallNeedsStream'
    BY <1>1, <2>1, <2>3 DEF CallNeedsStream
  <2>5. PendingIsStarted'
    BY <1>7, <2>1 DEF PendingIsStarted
  <2> QED BY <1>1, <2>1, <2>2, <2>4, <2>5 DEF CallInv
<1>8. CASE ~Ready(stream) /\ ~IsStarted(stream)
  <2>1. stream' = Start(stream) /\ wire' = wire
    BY <1>5, <1>8, WriteMutationsIs
  <2>2. ~IsOpen(stream)
    BY <1>8 DEF IsOpen, IsStarted
  <2>3. /\ ~stream.handshake /\ ~stream.idle /\ wire = <<>> /\ answers = <<>>
        /\ verdict = "none"
    BY <2>2 DEF CallNeedsStream
  <2>4. /\ stream' \in Stream /\ stream'.handshake = stream.handshake
        /\ stream'.idle = stream.idle
        /\ stream'.state \in {"Backoff", "Starting"}
    <3> DEFINE st == IF stream.state = "Error" THEN "Backoff" ELSE "Starting"
    <3>1. st \in {"Backoff", "Starting"} /\ st \in StreamStates
      BY DEF StreamStates
    <3>2. stream' = [stream EXCEPT !.state = st]
      BY <2>1 DEF Start
    <3> HIDE DEF st
    <3> QED BY <1>1, <3>1, <3>2 DEF Stream
  <2>5. ~IsOpen(stream') /\ IsStarted(stream')
    BY <2>4 DEF IsOpen, IsStarted
  <2> QED BY <1>1, <2>1, <2>3, <2>4, <2>5, CallInvClosed
<1> QED BY <1>6, <1>7, <1>8

\* OnWriteStreamMutationResult keeps CallInv.
LEMMA CallInvAnswered ==
    ASSUME ClientInv, OnWriteStreamMutationResult
    PROVE  CallInv'
<1> USE DEF ClientInv
<1>1. /\ stream \in Stream /\ pipeline \in Seq(Batch)
      /\ wire \in Seq(Nat) /\ answers \in Seq(Nat)
      /\ verdict \in {"none", "transient", "permanent"}
      /\ answers # <<>> /\ answers' = Tail(answers) /\ verdict' = verdict
      /\ stream.handshake /\ pipeline # <<>>
  BY DEF TypeOK, Stream, OnWriteStreamMutationResult
<1>2. verdict # "transient" /\ IsOpen(stream)
  BY <1>1 DEF CallNeedsStream
<1>3. /\ Ready(stream) /\ Refills(Tail(queue[user]), Tail(pipeline))
      /\ stream' \in Stream
      /\ stream'.state = stream.state
      /\ stream'.handshake = stream.handshake
      /\ stream'.idle => pipeline' = <<>>
  BY MutationResultIs
<1>4. PICK new \in Seq(Batch) : /\ pipeline' = Tail(pipeline) \o new
                                /\ wire' = wire \o Payload(new)
  BY <1>3 DEF Refills
<1>5. Payload(new) \in Seq(Nat) /\ Tail(answers) \in Seq(Nat)
      /\ Tail(pipeline) \in Seq(Batch)
  BY <1>1, PayloadIsNat
<1>6. wire' \in Seq(Nat)
  BY <1>1, <1>4, <1>5, ConcatProperties
<1>7. answers' \o wire' = Payload(pipeline')
  <2> DEFINE a == Tail(answers)
             p == Payload(new)
  <2>1. a \in Seq(Nat) /\ p \in Seq(Nat) /\ answers' = a /\ wire' = wire \o p
    BY <1>1, <1>4, <1>5
  <2>2. answers \o wire = Payload(pipeline)
    BY <1>1, <1>2 DEF CallMatchesPipeline
  <2>3. Tail(answers \o wire) = a \o wire
    BY <1>1, TailConcat
  <2>4. Payload(Tail(pipeline)) = Tail(Payload(pipeline))
    BY <1>1, PayloadTail
  <2>5. a \o wire = Payload(Tail(pipeline))
    BY <2>2, <2>3, <2>4
  <2> HIDE DEF a, p
  <2>6. a \o (wire \o p) = (a \o wire) \o p
    BY <1>1, <2>1, ConcatNat
  <2>7. Payload(pipeline') = Payload(Tail(pipeline)) \o p
    BY <1>4, <1>5, PayloadConcat DEF p
  <2> QED BY <2>1, <2>5, <2>6, <2>7
<1>8. CallMatchesPipeline'
  BY <1>1, <1>3, <1>7 DEF CallMatchesPipeline
<1>9. CallNeedsStream'
  BY <1>1, <1>2, <1>3 DEF CallNeedsStream, IsOpen
<1>10. PendingIsStarted'
  BY <1>2, <1>3 DEF PendingIsStarted, IsStarted, IsOpen
<1> QED BY <1>1, <1>3, <1>5, <1>6, <1>8, <1>9, <1>10 DEF CallInv

\* A message that is alone on a call.
LEMMA OneMessage ==
    ASSUME NEW s \in Seq(Nat), NEW t \in Seq(Nat), s # <<>>, NEW x,
           s \o t = <<x>>
    PROVE  Tail(s) = <<>> /\ t = <<>> /\ Tail(s) \in Seq(Nat)
<1> DEFINE c == s \o t
<1>1. Len(c) = Len(s) + Len(t)
  BY ConcatProperties
<1>2. Len(c) = 1
  OBVIOUS
<1> HIDE DEF c
<1>3. Len(s) \in Nat \ {0} /\ Len(t) \in Nat
  OBVIOUS
<1>4. \A m \in Nat \ {0}, n \in Nat : m + n = 1 => m = 1 /\ n = 0
  OBVIOUS
<1>5. Len(s) = 1 /\ Len(t) = 0
  BY <1>1, <1>2, <1>3, <1>4
<1>6. t = <<>>
  BY <1>5
<1>7. Tail(s) \in Seq(Nat) /\ Len(Tail(s)) = 0
  BY <1>5
<1>8. Tail(s) = <<>>
  <2> DEFINE r == Tail(s)
  <2> HIDE DEF r
  <2>1. r \in Seq(Nat) /\ Len(r) = 0
    BY <1>7 DEF r
  <2>2. r = <<>>
    BY <2>1
  <2> QED BY <2>2 DEF r
<1> QED BY <1>6, <1>7, <1>8

\* After the handshake everything in the pipeline is sent.
LEMMA CallInvShaken ==
    ASSUME ClientInv, OnWriteStreamHandshakeComplete
    PROVE  CallInv' /\ answers' = <<>>
<1> USE DEF ClientInv
<1>1. /\ stream \in Stream /\ pipeline \in Seq(Batch)
      /\ wire \in Seq(Nat) /\ answers \in Seq(Nat)
      /\ verdict \in {"none", "transient", "permanent"}
      /\ answers # <<>> /\ answers' = Tail(answers)
      /\ verdict' = verdict /\ pipeline' = pipeline
      /\ ~stream.handshake
      /\ wire' = wire \o Payload(pipeline)
      /\ stream' = [stream EXCEPT !.handshake = TRUE,
                                  !.idle = @ /\ pipeline = <<>>]
  BY DEF TypeOK, Stream, OnWriteStreamHandshakeComplete
<1>2. verdict # "transient" /\ stream.state = "Open"
  BY <1>1 DEF CallNeedsStream, IsOpen
<1>3. answers \o wire = <<Handshake>>
  BY <1>1, <1>2 DEF CallMatchesPipeline, IsOpen
<1>5. Tail(answers) = <<>> /\ wire = <<>> /\ Tail(answers) \in Seq(Nat)
  BY <1>1, <1>3, OneMessage
<1>7. Payload(pipeline) \in Seq(Nat)
  BY <1>1, PayloadIsNat
<1>8. wire' = Payload(pipeline)
  BY <1>1, <1>5, <1>7, ConcatEmptySeq
<1>9. answers' = <<>> /\ answers' \o wire' = Payload(pipeline')
  BY <1>1, <1>5, <1>7, <1>8, ConcatEmptySeq
<1>10. /\ stream' \in Stream /\ stream'.state = "Open"
       /\ stream'.handshake = TRUE /\ stream'.idle = FALSE
  <2> DEFINE b == stream.idle /\ pipeline = <<>>
  <2>1. ~stream.idle
    BY <1>1 DEF CallNeedsStream
  <2>2. b = FALSE
    BY <2>1
  <2>3. stream' = [stream EXCEPT !.handshake = TRUE, !.idle = b]
    BY <1>1
  <2> HIDE DEF b
  <2>4. stream' = [stream EXCEPT !.handshake = TRUE, !.idle = FALSE]
    BY <2>2, <2>3
  <2> QED BY <1>1, <1>2, <2>4 DEF Stream
<1>11. CallMatchesPipeline'
  BY <1>9, <1>10 DEF CallMatchesPipeline
<1>12. CallNeedsStream'
  BY <1>9, <1>10 DEF CallNeedsStream, IsOpen
<1>13. PendingIsStarted'
  BY <1>10 DEF PendingIsStarted, IsStarted
<1> QED BY <1>1, <1>5, <1>7, <1>8, <1>9, <1>10, <1>11, <1>12, <1>13 DEF CallInv

\* The server handles one message.
LEMMA CallInvHandled ==
    ASSUME ClientInv, verdict = "none", wire # <<>>, wire' = Tail(wire),
           answers' = Append(answers, Head(wire)),
           UNCHANGED <<stream, pipeline, verdict>>
    PROVE  CallInv'
<1> USE DEF ClientInv
<1>1. /\ stream \in Stream /\ pipeline \in Seq(Batch)
      /\ wire \in Seq(Nat) /\ answers \in Seq(Nat)
  BY DEF TypeOK, Stream
<1>2. wire' \in Seq(Nat) /\ answers' \in Seq(Nat)
      /\ answers' \o wire' = answers \o wire
  BY <1>1, HandledOne
<1>3. IsOpen(stream)
  BY NextMessage
<1>4. CallMatchesPipeline'
  BY <1>2 DEF CallMatchesPipeline
<1>5. CallNeedsStream'
  BY <1>3 DEF CallNeedsStream
<1>6. PendingIsStarted'
  BY DEF PendingIsStarted
<1> QED BY <1>1, <1>2, <1>4, <1>5, <1>6 DEF CallInv

\* Every step keeps CallInv.
LEMMA CallStep ==
    ASSUME ClientInv, Next
    PROVE  CallInv'
<1> USE DEF ClientInv
<1>1. /\ queue \in [Users -> Seq(Batch)] /\ user \in Users /\ stream \in Stream
      /\ wire \in Seq(Nat) /\ answers \in Seq(Nat)
      /\ verdict \in {"none", "transient", "permanent"}
  BY DEF TypeOK, Stream
<1>2. ASSUME NEW permanent \in BOOLEAN, CloseWithError(permanent)
      PROVE  CallInv'
  <2>1. answers' = <<>> /\ verdict' = "none"
    BY <1>2, CloseWithErrorIs
  <2>2. CASE SettlesHead("error")
             /\ Restarts(Tail(queue[user]), DeadRequests(asked))
    <3>1. Tail(queue[user]) \in Seq(Batch)
      BY <2>2, PipelineHead DEF SettlesHead
    <3> QED BY <2>1, <2>2, <3>1, CallInvRestarts
  <2>3. CASE Fails
    BY <2>1, <2>3, CallInvFails
  <2> QED BY <1>2, <2>2, <2>3, CloseWithErrorIs
<1>3. CASE Auth
  <2>1. UNCHANGED <<pipeline, stream, callVars>>
    BY <1>3 DEF Auth, UpdateCurrentUser, GetTokenForcingRefresh,
                AuthStateDidChange, GetTokenCallback
  <2> QED BY <2>1, CallInvKept
<1>4. CASE HandleCredentialChange
  <2>1. /\ user' \in Users /\ answers' = <<>> /\ verdict' = "none"
        /\ Restarts(queue[user'], DeadRequests(asked))
    BY <1>4, CredentialChangeIs
  <2> QED BY <1>1, <2>1, CallInvRestarts
<1>5. CASE ResumeStartWithCredentials
  <2>1. CASE UNCHANGED <<pipeline, stream, callVars>>
    BY <2>1, CallInvKept
  <2>2. CASE CloseWithError(FALSE)
    BY <1>2, <2>2
  <2>3. CASE Head(workerQ).live /\ Head(workerQ).user # NoToken
    BY <1>5, <2>3, CallInvResumed
  <2> QED BY <1>5, <2>1, <2>2, <2>3 DEF ResumeStartWithCredentials
<1>6. CASE WriteMutations
  BY <1>6, CallInvIssued
<1>7. CASE OnWriteStreamHandshakeComplete
  BY <1>7, CallInvShaken
<1>8. CASE OnWriteStreamMutationResult
  BY <1>8, CallInvAnswered
<1>9. CASE OnStreamFinish
  <2>1. CloseWithError(verdict = "permanent")
        /\ (verdict = "permanent") \in BOOLEAN
    BY <1>9 DEF OnStreamFinish
  <2> QED BY <1>2, <2>1
<1>10. CASE BackoffElapsed
  <2>1. /\ stream.state = "Backoff" /\ stream' = Start(InhibitBackoff(stream))
        /\ UNCHANGED <<pipeline, callVars>>
    BY <1>10 DEF BackoffElapsed
  <2>2. /\ ~stream.handshake /\ ~stream.idle /\ wire = <<>> /\ answers = <<>>
        /\ verdict = "none"
    BY <2>1 DEF CallNeedsStream, IsOpen
  <2> DEFINE s == [stream EXCEPT !.state = "Initial"]
  <2>3. /\ s \in Stream /\ s.state = "Initial"
        /\ s.handshake = stream.handshake /\ s.idle = stream.idle
    BY <1>1 DEF Stream, StreamStates
  <2>4. stream' = Start(s)
    BY <2>1 DEF InhibitBackoff
  <2> HIDE DEF s
  <2>5. stream' = [s EXCEPT !.state = "Starting"]
    BY <2>3, <2>4 DEF Start
  <2>6. /\ stream' \in Stream /\ stream'.state = "Starting"
        /\ stream'.handshake = s.handshake /\ stream'.idle = s.idle
    BY <2>3, <2>5 DEF Stream, StreamStates
  <2>7. ~IsOpen(stream') /\ IsStarted(stream')
    BY <2>6 DEF IsOpen, IsStarted
  <2> QED BY <2>1, <2>2, <2>3, <2>6, <2>7, CallInvClosed DEF callVars
<1>11. CASE IdleTimeout
  <2>1. /\ stream.idle /\ stream' = Closed(stream, TRUE)
        /\ wire' = <<>> /\ answers' = <<>> /\ verdict' = "none"
        /\ pipeline' = pipeline
    BY <1>11 DEF IdleTimeout, CallIsOver
  <2>2. stream.state = "Open" /\ pipeline = <<>>
    BY <1>1, <2>1 DEF CallNeedsStream, IsOpen, Stream
  <2> DEFINE s == [stream EXCEPT !.state = "Initial", !.idle = FALSE]
  <2>3. s \in Stream /\ s.state = "Initial" /\ s.idle = FALSE
    BY <1>1 DEF Stream, StreamStates
  <2>4. Close(stream, TRUE) = s
    BY <2>2 DEF Close, IsStarted
  <2> HIDE DEF s
  <2>5. stream' = [s EXCEPT !.handshake = FALSE, !.token = NoToken]
    BY <2>1, <2>4 DEF Closed
  <2>6. /\ stream' \in Stream /\ stream'.state = "Initial"
        /\ stream'.handshake = FALSE /\ stream'.idle = FALSE
    BY <2>3, <2>5 DEF Stream
  <2>7. ~IsOpen(stream')
    BY <2>6 DEF IsOpen
  <2> QED BY <2>1, <2>2, <2>6, <2>7, CallInvClosed
<1>12. ASSUME NEW available \in BOOLEAN, ConnectivityChanged(available)
       PROVE  CallInv'
  <2>1. CASE available
    <3>1. RestartNetwork(queue[user], asked)
      BY <1>12, <2>1 DEF ConnectivityChanged
    <3>2. answers' = <<>> /\ verdict' = "none"
          /\ Restarts(queue[user], DeadRequests(asked))
      BY <1>1, <3>1, RestartNetworkIs
    <3> QED BY <1>1, <3>2, CallInvRestarts
  <2>2. CASE ~available
    BY <1>2, <1>12, <2>2 DEF ConnectivityChanged
  <2> QED BY <2>1, <2>2
<1>13. CASE ServerShakesHands \/ ServerApplies
  BY <1>13, CallInvHandled DEF ServerShakesHands, ServerApplies
<1>14. CASE ServerRefuses
  <2>1. /\ verdict = "none" /\ wire # <<>> /\ verdict' = "permanent"
        /\ UNCHANGED <<stream, pipeline, wire, answers>>
    BY <1>14 DEF ServerRefuses
  <2>2. IsOpen(stream)
    BY <2>1, NextMessage
  <2>3. CallMatchesPipeline' /\ CallNeedsStream' /\ PendingIsStarted'
    BY <2>1, <2>2 DEF CallMatchesPipeline, CallNeedsStream, PendingIsStarted
  <2> QED BY <1>1, <2>1, <2>3 DEF CallInv
<1>15. CASE ConnectionBreaks
  <2>1. /\ IsOpen(stream) /\ verdict' = "transient" /\ answers' = <<>>
        /\ UNCHANGED <<stream, pipeline, wire>>
    BY <1>15 DEF ConnectionBreaks
  <2>2. CallMatchesPipeline' /\ CallNeedsStream' /\ PendingIsStarted'
    BY <2>1 DEF CallMatchesPipeline, CallNeedsStream, PendingIsStarted
  <2>3. answers' \in Seq(Nat)
    BY <2>1
  <2> QED BY <1>1, <2>1, <2>2, <2>3 DEF CallInv
<1>16. CASE Crash \/ CrashAcknowledging \/ CrashRejecting
  <2>1. /\ answers' = <<>> /\ verdict' = "none"
        /\ Restarts(queue'[user'], {})
    BY <1>16, CrashIs
  <2>2. queue'[user'] \in Seq(Batch)
    BY QueueStep DEF QueueInv, ClientTypes
  <2> QED BY <2>1, <2>2, CallInvRestarts
<1> QED BY <1>3, <1>4, <1>5, <1>6, <1>7, <1>8, <1>9, <1>10, <1>11, <1>12,
           <1>13, <1>14, <1>15, <1>16 DEF Next, Worker, Environment

-----------------------------------------------------------------------------
(* The backend, and the theorems *)

\* The types of what the backend keeps.
ServerTypes ==
    /\ server \in [Users -> Nat]
    /\ applied \subseteq Writes \X (Users \cup {NoToken})
    /\ refused \subseteq Writes

\* Every step keeps ServerTypes.
LEMMA ServerStep ==
    ASSUME ClientInv, Next
    PROVE  ServerTypes'
<1> USE DEF ClientInv
<1>1. ServerTypes /\ stream \in Stream
  BY DEF TypeOK, ServerTypes, Stream
<1>2. CASE ServerApplies
  <2>1. /\ verdict = "none" /\ wire # <<>> /\ Head(wire) # Handshake
        /\ server' = [server EXCEPT ![writer[Head(wire)]] = Head(wire)]
        /\ applied' = applied \cup {<<Head(wire), stream.token>>}
        /\ refused' = refused
    BY <1>2 DEF ServerApplies
  <2>2. Head(wire) \in Writes
    BY <2>1, NextMessage
  <2>3. Head(wire) \in Nat
    BY <2>2, WritesAssumption DEF Writes
  <2>4. server' \in [Users -> Nat]
    BY <1>1, <2>1, <2>3 DEF ServerTypes
  <2>5. stream.token \in Users \cup {NoToken}
    BY <1>1 DEF Stream
  <2> QED BY <1>1, <2>1, <2>2, <2>4, <2>5 DEF ServerTypes
<1>3. CASE ServerRefuses
  <2>1. /\ verdict = "none" /\ wire # <<>> /\ UNCHANGED <<server, applied>>
        /\ refused' = refused \cup ({Head(wire)} \ {Handshake})
    BY <1>3 DEF ServerRefuses
  <2>2. Head(wire) # Handshake => Head(wire) \in Writes
    BY <2>1, NextMessage
  <2> QED BY <1>1, <2>1, <2>2 DEF ServerTypes
<1>4. CASE UNCHANGED serverVars
  BY <1>1, <1>4 DEF ServerTypes, serverVars
<1>5. ServerApplies \/ ServerRefuses \/ UNCHANGED serverVars
  BY CrashIs DEF Next, Auth, Worker, Environment, UpdateCurrentUser,
         GetTokenForcingRefresh, AuthStateDidChange, GetTokenCallback,
         HandleCredentialChange, ResumeStartWithCredentials, WriteMutations,
         OnWriteStreamHandshakeComplete, OnWriteStreamMutationResult,
         OnStreamFinish, BackoffElapsed, IdleTimeout, ConnectivityChanged,
         ServerShakesHands, ConnectionBreaks
<1> QED BY <1>2, <1>3, <1>4, <1>5

\* ClientInv is the conjunction of its four parts.
LEMMA ClientInvParts ==
    ClientInv <=> QueueInv /\ MessageInv /\ CallInv /\ ServerTypes
BY DEF ClientInv, QueueInv, MessageInv, CallInv, ServerTypes, TypeOK,
       ClientTypes, Stream

\* ClientInv holds initially.
LEMMA ClientInvInit ==
    ASSUME Init
    PROVE  ClientInv
<1>1. /\ InitialStream \in Stream /\ InitialStream.state = "Initial"
      /\ ~InitialStream.idle /\ ~InitialStream.handshake
  BY InitialStreamIs
<1> HIDE DEF InitialStream
<1>2. stream = InitialStream /\ SignedOut \in Users
  BY WritesAssumption DEF Init
<1>3. queue[user] = <<>> /\ queue[user] \in Seq(Batch) /\ Len(queue[user]) = 0
  BY <1>2 DEF Init
<1>4. Room(queue[user]) = 0
  <2>1. Room(queue[user]) \in 0 .. 0
    BY <1>3, RoomIs
  <2> QED BY <2>1
<1>5. PipelineIsHead
  <2>1. SubSeq(queue[user], 1, 0) = <<>>
    BY <1>3, EmptyStart
  <2>2. Min({MaxPending, Len(queue[user])}) = 0
    BY <1>4 DEF Room
  <2>3. pipeline = <<>>
    BY DEF Init
  <2> QED BY <2>1, <2>2, <2>3 DEF PipelineIsHead
<1>6. ClientTypes
  <2>1. MaxPending \in Nat /\ 0 <= MaxPending
    BY WritesAssumption
  <2> QED BY <1>2, <2>1 DEF Init, ClientTypes
<1>7. QueuesOrdered /\ CallbacksFit
  BY DEF Init, QueuesOrdered, CallbacksFit
<1>8. MessageInv
  BY <1>1, <1>2, WritesAssumption DEF Init, MessageInv, NoticesNameUsers,
     NamesUsers, LiveRequests, NoneLive, NoneAsked
<1>9. CallInv
  <2>1. ~IsOpen(stream)
    BY <1>1, <1>2 DEF IsOpen
  <2> QED BY <1>1, <1>2, <2>1 DEF Init, CallInv, CallMatchesPipeline,
                                  CallNeedsStream, PendingIsStarted
<1>10. ServerTypes
  BY DEF Init, ServerTypes
<1> QED BY <1>5, <1>6, <1>7, <1>8, <1>9, <1>10, ClientInvParts DEF QueueInv

\* Every step keeps ClientInv.
LEMMA ClientInvNext ==
    ASSUME ClientInv, [Next]_vars
    PROVE  ClientInv'
<1>1. CASE Next
  <2>1. QueueInv' /\ MessageInv' /\ CallInv' /\ ServerTypes'
    BY <1>1, QueueStep, MessageStep, CallStep, ServerStep
  <2> QED BY <2>1 DEF ClientInv, QueueInv, MessageInv, CallInv, ServerTypes,
                      TypeOK, ClientTypes, Stream
<1>2. CASE UNCHANGED vars
  <2>1. /\ UNCHANGED <<authUser, mainQ, asked, authEvents, workerQ, user,
                       queue, nextId, callbacks, pipeline, stream, wire,
                       answers, verdict, server, applied, refused, writer,
                       told, faults>>
    BY <1>2 DEF vars, authVars, clientVars, callVars, serverVars, history
  <2>2. QueueInv'
    BY <2>1, QueueInvKept
  <2>3. MessageInv'
    BY <2>1, MessageInvKept DEF ClientInv, TypeOK
  <2>4. CallInv'
    BY <2>1, CallInvKept DEF callVars
  <2>5. ServerTypes'
    BY <2>1 DEF ClientInv, TypeOK, ServerTypes
  <2> QED BY <2>2, <2>3, <2>4, <2>5 DEF ClientInv, QueueInv, MessageInv,
                      CallInv, ServerTypes, TypeOK, ClientTypes, Stream
<1> QED BY <1>1, <1>2

\* ClientInv always holds: the queues, the pipeline, the executors' messages and
\* the call of RemoteStore's write path fit each other after every step.
THEOREM ClientIsConsistent == Spec => []ClientInv
<1>1. Init => ClientInv
  BY ClientInvInit
<1>2. ClientInv /\ [Next]_vars => ClientInv'
  BY ClientInvNext
<1> QED BY <1>1, <1>2, PTL DEF Spec

\* The variables have their types: MaxPending, the bound that
\* CanAddToWritePipeline keeps on the pipeline, included.
THEOREM TypeCorrect == Spec => []TypeOK
<1>1. ClientInv => TypeOK
  BY DEF ClientInv
<1> QED BY <1>1, ClientIsConsistent, PTL

\* RemoteStore's write pipeline is always the head of the current user's
\* mutation queue, whatever credential changes, errors and crashes come
\* between.
THEOREM PipelineIsAlwaysHead == Spec => []PipelineIsHead
<1>1. ClientInv => PipelineIsHead
  BY DEF ClientInv
<1> QED BY <1>1, ClientIsConsistent, PTL

\* After the handshake the writes on the wire and the answers under way are the
\* pipeline's, in its order, so that an answer settles its own batch.
THEOREM CallAlwaysMatches == Spec => []CallMatchesPipeline
<1>1. ClientInv => CallMatchesPipeline
  BY DEF ClientInv
<1> QED BY <1>1, ClientIsConsistent, PTL

\* SyncEngine's callbacks are of batches that are still in their user's queue:
\* no answer finds the callback of another write.
THEOREM CallbacksAlwaysFit == Spec => []CallbacksFit
<1>1. ClientInv => CallbacksFit
  BY DEF ClientInv
<1> QED BY <1>1, ClientIsConsistent, PTL

\* The idle timer that FillWritePipeline sets never runs while a batch is
\* waiting.
THEOREM IdleIsAlwaysDrained == Spec => []IdleIsDrained
<1>1. ClientInv => IdleIsDrained
  BY DEF ClientInv, CallNeedsStream, IdleIsDrained
<1> QED BY <1>1, ClientIsConsistent, PTL

\* NoneLive and OneLive count the tokens that NeverStalls counts.
LEMMA LiveIsCounted ==
    ASSUME NEW q
    PROVE  LET live == {i \in DOMAIN q : q[i].kind = "token" /\ q[i].live}
           IN  /\ NoneLive(q) => Cardinality(live) = 0
               /\ OneLive(q) => Cardinality(live) = 1
<1> DEFINE live == {i \in DOMAIN q : q[i].kind = "token" /\ q[i].live}
<1>1. NoneLive(q) => live = {}
  BY DEF NoneLive, LiveToken
<1>2. OneLive(q) => \E i : live = {i}
  <2> SUFFICES ASSUME OneLive(q) PROVE \E i : live = {i}
    OBVIOUS
  <2>1. PICK i \in DOMAIN q :
            LiveToken(q[i]) /\ \A j \in DOMAIN q : j # i => ~LiveToken(q[j])
    BY DEF OneLive
  <2>2. live = {i}
    BY <2>1 DEF LiveToken
  <2> QED BY <2>2
<1> HIDE DEF live
<1>3. NoneLive(q) => Cardinality(live) = 0
  BY <1>1, FS_EmptySet
<1>4. OneLive(q) => Cardinality(live) = 1
  BY <1>2, FS_Singleton
<1> QED BY <1>3, <1>4 DEF live

\* NoneAsked and OneAsked count the requests that it counts.
LEMMA AskedIsCounted ==
    ASSUME NEW rs
    PROVE  /\ NoneAsked(rs) => Cardinality({r \in rs : r.live}) = 0
           /\ OneAsked(rs) => Cardinality({r \in rs : r.live}) = 1
<1> DEFINE live == {r \in rs : r.live}
<1>1. NoneAsked(rs) => live = {}
  BY DEF NoneAsked
<1>2. OneAsked(rs) => \E r : live = {r}
  BY DEF OneAsked
<1> HIDE DEF live
<1>3. NoneAsked(rs) => Cardinality(live) = 0
  BY <1>1, FS_EmptySet
<1>4. OneAsked(rs) => Cardinality(live) = 1
  BY <1>2, FS_Singleton
<1> QED BY <1>3, <1>4 DEF live

\* A pipeline with a batch always has something that will move it: an open
\* call, a backoff, or exactly one token on its way.
THEOREM ClientNeverStalls == Spec => []NeverStalls
<1>1. ASSUME ClientInv PROVE NeverStalls
  <2> DEFINE live(q) == {i \in DOMAIN q : q[i].kind = "token" /\ q[i].live}
             a == Cardinality({r \in asked : r.live})
             m == Cardinality(live(mainQ))
             w == Cardinality(live(workerQ))
  <2>1. /\ NoneAsked(asked) => a = 0
        /\ OneAsked(asked) => a = 1
    BY AskedIsCounted
  <2>2. /\ NoneLive(mainQ) => m = 0
        /\ OneLive(mainQ) => m = 1
        /\ NoneLive(workerQ) => w = 0
        /\ OneLive(workerQ) => w = 1
    BY LiveIsCounted
  <2> HIDE DEF a, m, w
  <2>3. a + m + w = IF stream.state = "Starting" THEN 1 ELSE 0
    <3>1. CASE stream.state = "Starting"
      <4>1. \/ a = 1 /\ m = 0 /\ w = 0
            \/ a = 0 /\ m = 1 /\ w = 0
            \/ a = 0 /\ m = 0 /\ w = 1
        BY <1>1, <2>1, <2>2, <3>1 DEF ClientInv, LiveRequests
      <4> QED BY <3>1, <4>1
    <3>2. CASE stream.state # "Starting"
      <4>1. a = 0 /\ m = 0 /\ w = 0
        BY <1>1, <2>1, <2>2, <3>2 DEF ClientInv, LiveRequests
      <4> QED BY <3>2, <4>1
    <3> QED BY <3>1, <3>2
  <2>4. pipeline # <<>> => IsStarted(stream)
    BY <1>1 DEF ClientInv, PendingIsStarted
  <2> QED BY <2>3, <2>4 DEF NeverStalls, a, m, w
<1> QED BY <1>1, ClientIsConsistent, PTL
=============================================================================
