---------------------- MODULE PayloadEventQueue_proofs ----------------------
(***************************************************************************)
(* What the operations of a payload event queue do to its payloads, to     *)
(* their order and to the event its reader sleeps on.                      *)
(***************************************************************************)
EXTENDS PayloadEventQueue, SequenceTheorems, FiniteSetTheorems,
        WellFoundedInduction, TLAPS

Entry(T) == [trans : T, left : Nat]
Queue(T) == [due : Seq(Entry(T)), event : SUBSET Nat]

Trans(q, i) == q.due[i].trans
Left(q, i) == q.due[i].left

\* The payloads lie in the queue in the order they come due,
Sorted(q) == \A i, j \in 1 .. Len(q.due) : i <= j => Left(q, i) <= Left(q, j)

\* none of them twice,
Distinct(q) == \A i, j \in 1 .. Len(q.due) : Trans(q, i) = Trans(q, j) => i = j

\* and the event happens for a payload that is due.
EventIsDue(q) == \A e \in q.event : q.due # <<>> /\ Left(q, 1) <= e

-----------------------------------------------------------------------------
LEMMA QueueFields ==
  ASSUME NEW T, NEW q \in Queue(T)
  PROVE  /\ q.due \in Seq(Entry(T)) /\ q.event \in SUBSET Nat
         /\ Len(q.due) \in Nat /\ DOMAIN q.due = 1 .. Len(q.due)
         /\ q.due # <<>> <=> Len(q.due) >= 1
         /\ Payloads(q) = {Trans(q, i) : i \in 1 .. Len(q.due)}
         /\ q.due # <<>> => Head(q.due) = q.due[1]
<1>1. q.due \in Seq(Entry(T)) /\ q.event \in SUBSET Nat
  BY DEF Queue
<1>2. Len(q.due) \in Nat /\ DOMAIN q.due = 1 .. Len(q.due)
  BY <1>1, LenProperties
<1>3. q.due # <<>> <=> Len(q.due) >= 1
  BY <1>1, <1>2, EmptySeq
<1>4. q.due # <<>> => Head(q.due) = q.due[1]
  BY <1>1
<1> QED BY <1>1, <1>2, <1>3, <1>4 DEF Payloads, Trans

LEMMA EntryFields ==
  ASSUME NEW T, NEW q \in Queue(T), NEW i \in 1 .. Len(q.due)
  PROVE  q.due[i] \in Entry(T) /\ Trans(q, i) \in T /\ Left(q, i) \in Nat
<1>1. q.due[i] \in Entry(T)
  BY QueueFields, ElementOfSeq
<1> QED BY <1>1 DEF Entry, Trans, Left

LEMMA EmptyIsQueue ==
  ASSUME NEW T
  PROVE  /\ EmptyQueue \in Queue(T) /\ Payloads(EmptyQueue) = {}
         /\ Sorted(EmptyQueue) /\ Distinct(EmptyQueue)
         /\ EventIsDue(EmptyQueue)
<1>1. EmptyQueue.due = <<>> /\ EmptyQueue.event = {} /\ Len(<<>>) = 0
  BY EmptySeq DEF EmptyQueue, NoEvent
<1>2. EmptyQueue \in Queue(T)
  BY EmptySeq DEF EmptyQueue, Queue, NoEvent
<1>3. 1 .. 0 = {}
  OBVIOUS
<1> QED BY <1>1, <1>2, <1>3, QueueFields DEF Sorted, Distinct, EventIsDue

-----------------------------------------------------------------------------
\* Insertion

\* r is s with e at position p
WithInserted(r, s, p, e) ==
  /\ Len(r) = Len(s) + 1
  /\ \A i \in 1 .. Len(s) + 1 :
       /\ i < p => r[i] = s[i]
       /\ i = p => r[i] = e
       /\ i > p => r[i] = s[i - 1]

LEMMA Inserted ==
  ASSUME NEW E, NEW s \in Seq(E), NEW p \in 1 .. Len(s) + 1, NEW e \in E
  PROVE  InsertAt(s, p, e) \in Seq(E) /\ WithInserted(InsertAt(s, p, e), s, p, e)
<1> DEFINE n == Len(s)
           a == SubSeq(s, 1, p - 1)
           b == SubSeq(s, p, n)
           ae == a \o <<e>>
<1>1. n \in Nat /\ p \in Int /\ 1 <= p /\ p <= n + 1
  BY LenProperties
<1>2. \A i \in 1 .. n : s[i] \in E
  BY ElementOfSeq
<1>3. /\ a \in Seq(E) /\ Len(a) = p - 1
      /\ \A i \in 1 .. p - 1 : a[i] = s[i]
  <2>1. \A i \in 1 .. p - 1 : s[i] \in E
    BY <1>1, <1>2
  <2>2. /\ a \in Seq(E)
        /\ Len(a) = IF 1 <= p - 1 THEN (p - 1) - 1 + 1 ELSE 0
        /\ \A i \in 1 .. (p - 1) - 1 + 1 : a[i] = s[1 + i - 1]
    BY <1>1, <2>1, SubSeqProperties
  <2>3. /\ (p - 1) - 1 + 1 = p - 1 /\ (~ (1 <= p - 1) => p - 1 = 0)
        /\ \A i \in Int : 1 + i - 1 = i
    BY <1>1
  <2> QED BY <2>2, <2>3
<1>4. /\ b \in Seq(E) /\ Len(b) = (n - p) + 1
      /\ \A i \in 1 .. (n - p) + 1 : b[i] = s[(p + i) - 1]
  <2>1. \A i \in p .. n : s[i] \in E
    BY <1>1, <1>2
  <2>2. /\ b \in Seq(E)
        /\ Len(b) = IF p <= n THEN n - p + 1 ELSE 0
        /\ \A i \in 1 .. n - p + 1 : b[i] = s[p + i - 1]
    BY <1>1, <2>1, SubSeqProperties
  <2>3. /\ n - p + 1 = (n - p) + 1 /\ (~ (p <= n) => (n - p) + 1 = 0)
        /\ \A i \in Int : p + i - 1 = (p + i) - 1
    BY <1>1
  <2> QED BY <2>2, <2>3
<1>5. <<e>> \in Seq(E) /\ Len(<<e>>) = 1 /\ <<e>>[1] = e
  OBVIOUS
<1> HIDE DEF a, b
<1>6. /\ ae \in Seq(E) /\ Len(ae) = p
      /\ \A i \in 1 .. p : ae[i] = IF i <= p - 1 THEN a[i] ELSE <<e>>[i - (p - 1)]
  <2>1. /\ ae \in Seq(E) /\ Len(ae) = (p - 1) + 1
        /\ \A i \in 1 .. (p - 1) + 1 :
             ae[i] = IF i <= p - 1 THEN a[i] ELSE <<e>>[i - (p - 1)]
    BY <1>3, <1>5, ConcatProperties
  <2> QED BY <1>1, <2>1
<1>7. \A i \in 1 .. p - 1 : ae[i] = s[i]
  BY <1>1, <1>3, <1>6
<1>8. ae[p] = e
  <2>1. p - (p - 1) = 1 /\ ~ (p <= p - 1) /\ p \in 1 .. p
    BY <1>1
  <2>2. ae[p] = <<e>>[p - (p - 1)]
    BY <2>1, <1>6
  <2> QED BY <2>1, <2>2, <1>5
<1> HIDE DEF ae
<1>9. /\ ae \o b \in Seq(E) /\ Len(ae \o b) = p + ((n - p) + 1)
      /\ \A i \in 1 .. p + ((n - p) + 1) :
           (ae \o b)[i] = IF i <= p THEN ae[i] ELSE b[i - p]
  <2>1. ae \in Seq(E) /\ b \in Seq(E)
    BY <1>4, <1>6
  <2>2. /\ ae \o b \in Seq(E) /\ Len(ae \o b) = Len(ae) + Len(b)
        /\ \A i \in 1 .. Len(ae) + Len(b) :
             (ae \o b)[i] = IF i <= Len(ae) THEN ae[i] ELSE b[i - Len(ae)]
    BY <2>1, ConcatProperties
  <2> QED BY <2>2, <1>4, <1>6
<1>10. p + ((n - p) + 1) = n + 1
  BY <1>1
<1>11. InsertAt(s, p, e) = ae \o b
  BY DEF InsertAt, ae, a, b
<1>12. ASSUME NEW i \in 1 .. n + 1, i > p
       PROVE  (ae \o b)[i] = s[i - 1]
  <2>1. i - p \in 1 .. (n - p) + 1 /\ (p + (i - p)) - 1 = i - 1 /\ ~ (i <= p)
    BY <1>1, <1>12
  <2>2. (ae \o b)[i] = b[i - p]
    BY <2>1, <1>9, <1>10
  <2> QED BY <2>1, <2>2, <1>4
<1>13. ASSUME NEW i \in 1 .. n + 1, i < p
       PROVE  (ae \o b)[i] = s[i]
  BY <1>1, <1>7, <1>9, <1>10, <1>13
<1>14. (ae \o b)[p] = e
  BY <1>1, <1>8, <1>9, <1>10
<1> QED BY <1>9, <1>10, <1>11, <1>12, <1>13, <1>14 DEF WithInserted

-----------------------------------------------------------------------------
\* notify(trans, d)

SoonerThan(q, d) == {i \in DOMAIN q.due : q.due[i].left <= d}

LEMMA SoonerCount ==
  ASSUME NEW T, NEW q \in Queue(T), NEW d \in Nat
  PROVE  /\ Cardinality(SoonerThan(q, d)) \in 0 .. Len(q.due)
         /\ Cardinality(SoonerThan(q, d)) = 0 =>
              \A i \in 1 .. Len(q.due) : ~ (Left(q, i) <= d)
<1> DEFINE n == Len(q.due)
           A == SoonerThan(q, d)
<1>1. n \in Nat /\ DOMAIN q.due = 1 .. n
  BY QueueFields
<1>2. A \in SUBSET (1 .. n)
  BY <1>1 DEF SoonerThan
<1>3. IsFiniteSet(1 .. n) /\ Cardinality(1 .. n) = n
  <2>1. IsFiniteSet(1 .. n) /\ Cardinality(1 .. n) = IF 1 > n THEN 0 ELSE n - 1 + 1
    BY <1>1, FS_Interval
  <2>2. (IF 1 > n THEN 0 ELSE n - 1 + 1) = n
    BY <1>1
  <2> QED BY <2>1, <2>2
<1>4. IsFiniteSet(A) /\ Cardinality(A) <= n
  BY <1>2, <1>3, FS_Subset
<1>5. Cardinality(A) \in Nat /\ (Cardinality(A) = 0 => A = {})
  BY <1>4, FS_CardinalityType, FS_EmptySet
<1>6. A = {} => \A i \in 1 .. n : ~ (Left(q, i) <= d)
  BY <1>1 DEF SoonerThan, Left
<1> QED BY <1>1, <1>4, <1>5, <1>6

(* In a sorted queue the payloads due no later than d are the first ones.  *)
LEMMA SoonerAreFirst ==
  ASSUME NEW T, NEW q \in Queue(T), NEW d \in Nat, Sorted(q)
  PROVE  \A i \in 1 .. Len(q.due) :
           Left(q, i) <= d <=> i <= Cardinality(SoonerThan(q, d))
<1> DEFINE n == Len(q.due)
           A == SoonerThan(q, d)
           B == {i \in 1 .. n + 1 : i \notin A}
<1>1. n \in Nat /\ DOMAIN q.due = 1 .. n
  BY QueueFields
<1>2. A = {i \in 1 .. n : Left(q, i) <= d}
  BY <1>1 DEF SoonerThan, Left
<1> HIDE DEF A
<1>3. B \subseteq Nat /\ n + 1 \in B
  BY <1>1, <1>2
<1>4. PICK m \in B : \A y \in B : ~ (<<y, m>> \in OpToRel(<, Nat))
  BY <1>3, NatLessThanWellFounded, WFMin
<1>5. \A y \in B : ~ (y < m)
  BY <1>3, <1>4 DEF OpToRel
<1>6. m \in 1 .. n + 1 /\ m \notin A
  BY <1>4
<1>7. \A i \in 1 .. m - 1 : i \in A
  BY <1>1, <1>5, <1>6
<1>8. ASSUME NEW i \in 1 .. n, i >= m
      PROVE  i \notin A
  <2>1. m \in 1 .. n /\ ~ (Left(q, m) <= d)
    BY <1>1, <1>2, <1>6, <1>8
  <2>2. Left(q, m) <= Left(q, i) /\ Left(q, m) \in Nat /\ Left(q, i) \in Nat
    BY <1>8, <2>1, EntryFields DEF Sorted
  <2> QED BY <2>1, <2>2, <1>2
<1>9. A = 1 .. m - 1
  BY <1>1, <1>2, <1>6, <1>7, <1>8
<1>10. Cardinality(A) = m - 1
  <2>1. m - 1 \in Nat
    BY <1>1, <1>6
  <2>2. Cardinality(1 .. m - 1) = IF 1 > m - 1 THEN 0 ELSE (m - 1) - 1 + 1
    BY <2>1, FS_Interval
  <2>3. (IF 1 > m - 1 THEN 0 ELSE (m - 1) - 1 + 1) = m - 1
    BY <2>1
  <2> QED BY <1>9, <2>2, <2>3
<1> QED BY <1>1, <1>2, <1>6, <1>9, <1>10 DEF A

(* The queue after notify: the payload at position p, the later ones       *)
(* behind it.                                                              *)
Place(q, d) == Cardinality(SoonerThan(q, d)) + 1

LEMMA NotifyShape ==
  ASSUME NEW T, NEW q \in Queue(T), NEW t \in T, NEW d \in Nat
  PROVE  /\ Notify(q, t, d) \in Queue(T)
         /\ Notify(q, t, d).event = NotifyEvent(q.event, d)
         /\ Len(Notify(q, t, d).due) = Len(q.due) + 1
         /\ Place(q, d) \in 1 .. Len(q.due) + 1
         /\ Trans(Notify(q, t, d), Place(q, d)) = t
         /\ Left(Notify(q, t, d), Place(q, d)) = d
         /\ \A i \in 1 .. Len(q.due) + 1 :
              /\ i < Place(q, d) =>
                   /\ Trans(Notify(q, t, d), i) = Trans(q, i)
                   /\ Left(Notify(q, t, d), i) = Left(q, i)
              /\ i > Place(q, d) =>
                   /\ Trans(Notify(q, t, d), i) = Trans(q, i - 1)
                   /\ Left(Notify(q, t, d), i) = Left(q, i - 1)
<1> DEFINE n == Len(q.due)
           p == Place(q, d)
           e == [trans |-> t, left |-> d]
           r == Notify(q, t, d)
<1>1. n \in Nat /\ q.due \in Seq(Entry(T)) /\ q.event \in SUBSET Nat
  BY QueueFields
<1>2. p \in 1 .. n + 1
  <2>1. Cardinality(SoonerThan(q, d)) \in 0 .. n
    BY SoonerCount
  <2> QED BY <1>1, <2>1 DEF Place
<1>3. e \in Entry(T) /\ e.trans = t /\ e.left = d
  BY DEF Entry
<1>4. r = [due |-> InsertAt(q.due, p, e), event |-> NotifyEvent(q.event, d)]
  BY DEF Notify, Place, SoonerThan
<1>5. r.due = InsertAt(q.due, p, e) /\ r.event = NotifyEvent(q.event, d)
  BY <1>4
<1>6. NotifyEvent(q.event, d) \in SUBSET Nat
  BY <1>1 DEF NotifyEvent
<1> HIDE DEF p, e, r
<1>7. /\ r.due \in Seq(Entry(T)) /\ Len(r.due) = n + 1
      /\ \A i \in 1 .. n + 1 :
           /\ i < p => r.due[i] = q.due[i]
           /\ i = p => r.due[i] = e
           /\ i > p => r.due[i] = q.due[i - 1]
  <2>1. q.due \in Seq(Entry(T)) /\ p \in 1 .. Len(q.due) + 1 /\ e \in Entry(T)
    BY <1>1, <1>2, <1>3
  <2>2. r.due \in Seq(Entry(T)) /\ WithInserted(r.due, q.due, p, e)
    BY <2>1, <1>5, Inserted
  <2> QED BY <2>2 DEF WithInserted
<1>8. r \in Queue(T)
  BY <1>4, <1>5, <1>6, <1>7 DEF Queue
<1>9. /\ Trans(r, p) = t /\ Left(r, p) = d
      /\ \A i \in 1 .. n + 1 :
           /\ i < p => Trans(r, i) = Trans(q, i) /\ Left(r, i) = Left(q, i)
           /\ i > p => Trans(r, i) = Trans(q, i - 1) /\ Left(r, i) = Left(q, i - 1)
  BY <1>2, <1>3, <1>7 DEF Trans, Left
<1> QED BY <1>2, <1>5, <1>7, <1>8, <1>9 DEF p, r

-----------------------------------------------------------------------------
\* What notify keeps

LEMMA NotifyKeepsEvent ==
  ASSUME NEW ev \in SUBSET Nat, NEW d \in Nat
  PROVE  /\ \E e \in NotifyEvent(ev, d) : e <= d
         /\ \A h \in Nat : (\E e \in ev : e <= h) => \E e \in NotifyEvent(ev, d) : e <= h
         /\ \A e \in NotifyEvent(ev, d) : e \in ev \/ e = d
BY DEF NotifyEvent

LEMMA NotifyPayloads ==
  ASSUME NEW T, NEW q \in Queue(T), NEW t \in T, NEW d \in Nat
  PROVE  Payloads(Notify(q, t, d)) = Payloads(q) \cup {t}
<1> DEFINE n == Len(q.due)
           p == Place(q, d)
           r == Notify(q, t, d)
<1>1. n \in Nat /\ Payloads(q) = {Trans(q, i) : i \in 1 .. n}
  BY QueueFields
<1>2. r \in Queue(T) /\ Len(r.due) = n + 1 /\ p \in 1 .. n + 1
  BY NotifyShape
<1>3. Payloads(r) = {Trans(r, i) : i \in 1 .. n + 1}
  BY <1>2, QueueFields
<1>4. /\ Trans(r, p) = t
      /\ \A i \in 1 .. n + 1 : i < p => Trans(r, i) = Trans(q, i)
      /\ \A i \in 1 .. n + 1 : i > p => Trans(r, i) = Trans(q, i - 1)
  BY NotifyShape
<1> HIDE DEF p, r
<1>5. ASSUME NEW i \in 1 .. n + 1
      PROVE  Trans(r, i) \in Payloads(q) \cup {t}
  <2>1. CASE i < p
    <3>1. i \in 1 .. n
      BY <1>1, <1>2, <2>1
    <3> QED BY <3>1, <2>1, <1>1, <1>4
  <2>2. CASE i = p
    BY <2>2, <1>4
  <2>3. CASE i > p
    <3>1. i - 1 \in 1 .. n
      BY <1>1, <1>2, <2>3
    <3> QED BY <3>1, <2>3, <1>1, <1>4
  <2> QED BY <1>2, <2>1, <2>2, <2>3
<1>6. ASSUME NEW i \in 1 .. n
      PROVE  Trans(q, i) \in Payloads(r)
  <2>1. CASE i < p
    <3>1. i \in 1 .. n + 1
      BY <1>1
    <3> QED BY <3>1, <2>1, <1>3, <1>4
  <2>2. CASE i >= p
    <3>1. i + 1 \in 1 .. n + 1 /\ i + 1 > p /\ (i + 1) - 1 = i
      BY <1>1, <1>2, <2>2
    <3> QED BY <3>1, <1>3, <1>4
  <2> QED BY <1>2, <2>1, <2>2
<1>7. t \in Payloads(r)
  BY <1>2, <1>3, <1>4
<1> QED BY <1>1, <1>3, <1>5, <1>6, <1>7 DEF r

LEMMA NotifyKeepsDistinct ==
  ASSUME NEW T, NEW q \in Queue(T), NEW t \in T, NEW d \in Nat,
         Distinct(q), t \notin Payloads(q)
  PROVE  Distinct(Notify(q, t, d))
<1> DEFINE n == Len(q.due)
           p == Place(q, d)
           r == Notify(q, t, d)
           Old(i) == IF i < p THEN i ELSE i - 1
<1>1. n \in Nat /\ Payloads(q) = {Trans(q, i) : i \in 1 .. n}
  BY QueueFields
<1>2. Len(r.due) = n + 1 /\ p \in 1 .. n + 1
  BY NotifyShape
<1>3. /\ Trans(r, p) = t
      /\ \A i \in 1 .. n + 1 : i < p => Trans(r, i) = Trans(q, i)
      /\ \A i \in 1 .. n + 1 : i > p => Trans(r, i) = Trans(q, i - 1)
  BY NotifyShape
<1> HIDE DEF p, r
<1>4. ASSUME NEW i \in 1 .. n + 1, i # p
      PROVE  Old(i) \in 1 .. n /\ Trans(r, i) = Trans(q, Old(i))
  <2>1. CASE i < p
    <3>1. i \in 1 .. n
      BY <1>1, <1>2, <2>1
    <3> QED BY <3>1, <2>1, <1>3
  <2>2. CASE i > p
    <3>1. i - 1 \in 1 .. n /\ ~ (i < p)
      BY <1>1, <1>2, <2>2
    <3> QED BY <3>1, <2>2, <1>3
  <2> QED BY <1>2, <1>4, <2>1, <2>2
<1>5. ASSUME NEW i \in 1 .. n + 1, NEW j \in 1 .. n + 1, Trans(r, i) = Trans(r, j)
      PROVE  i = j
  <2>1. CASE i # p /\ j # p
    <3>1. /\ Old(i) \in 1 .. n /\ Trans(r, i) = Trans(q, Old(i))
          /\ Old(j) \in 1 .. n /\ Trans(r, j) = Trans(q, Old(j))
      BY <2>1, <1>4
    <3>2. Old(i) = Old(j)
      BY <3>1, <1>5 DEF Distinct
    <3> QED BY <3>2, <2>1, <1>2
  <2>2. CASE i = p /\ j # p
    BY <2>2, <1>1, <1>3, <1>4, <1>5
  <2>3. CASE i # p /\ j = p
    BY <2>3, <1>1, <1>3, <1>4, <1>5
  <2> QED BY <2>1, <2>2, <2>3
<1> QED BY <1>2, <1>5 DEF Distinct, r

LEMMA NotifyKeepsSorted ==
  ASSUME NEW T, NEW q \in Queue(T), NEW t \in T, NEW d \in Nat, Sorted(q)
  PROVE  Sorted(Notify(q, t, d))
<1> DEFINE n == Len(q.due)
           p == Place(q, d)
           r == Notify(q, t, d)
<1>1. n \in Nat /\ \A i \in 1 .. n : Left(q, i) \in Nat
  BY QueueFields, EntryFields
<1>2. Len(r.due) = n + 1 /\ p \in 1 .. n + 1
  BY NotifyShape
<1>3. /\ Left(r, p) = d
      /\ \A i \in 1 .. n + 1 : i < p => Left(r, i) = Left(q, i)
      /\ \A i \in 1 .. n + 1 : i > p => Left(r, i) = Left(q, i - 1)
  BY NotifyShape
<1>4. \A i \in 1 .. n : Left(q, i) <= d <=> i < p
  <2>1. \A i \in 1 .. n : Left(q, i) <= d <=> i <= Cardinality(SoonerThan(q, d))
    BY SoonerAreFirst
  <2>2. Cardinality(SoonerThan(q, d)) \in 0 .. n
    BY SoonerCount
  <2> QED BY <1>1, <2>1, <2>2 DEF Place
<1>5. \A i, j \in 1 .. n : i <= j => Left(q, i) <= Left(q, j)
  BY DEF Sorted
<1> HIDE DEF p, r
<1>6. ASSUME NEW i \in 1 .. n + 1, NEW j \in 1 .. n + 1, i <= j
      PROVE  Left(r, i) <= Left(r, j)
  <2>1. CASE i < p /\ j < p
    <3>1. i \in 1 .. n /\ j \in 1 .. n
      BY <1>1, <1>2, <2>1
    <3> QED BY <3>1, <2>1, <1>3, <1>5, <1>6
  <2>2. CASE i < p /\ j = p
    <3>1. i \in 1 .. n
      BY <1>1, <1>2, <2>2
    <3> QED BY <3>1, <2>2, <1>3, <1>4
  <2>3. CASE i < p /\ j > p
    <3>1. i \in 1 .. n /\ j - 1 \in 1 .. n /\ i <= j - 1
      BY <1>1, <1>2, <2>3
    <3> QED BY <3>1, <2>3, <1>3, <1>5
  <2>4. CASE i = p /\ j = p
    BY <2>4, <1>3
  <2>5. CASE i = p /\ j > p
    <3>1. j - 1 \in 1 .. n /\ ~ (j - 1 < p)
      BY <1>1, <1>2, <2>5
    <3>2. ~ (Left(q, j - 1) <= d) /\ Left(q, j - 1) \in Nat
      BY <3>1, <1>1, <1>4
    <3>3. Left(r, i) = d /\ Left(r, j) = Left(q, j - 1)
      BY <2>5, <1>3
    <3> QED BY <3>2, <3>3
  <2>6. CASE i > p /\ j > p
    <3>1. i - 1 \in 1 .. n /\ j - 1 \in 1 .. n /\ i - 1 <= j - 1
      BY <1>1, <1>2, <1>6, <2>6
    <3> QED BY <3>1, <2>6, <1>3, <1>5
  <2> QED BY <1>2, <1>6, <2>1, <2>2, <2>3, <2>4, <2>5, <2>6
<1> QED BY <1>2, <1>6 DEF Sorted, r

(* A reader that wakes in time still does after a notify: either the first *)
(* payload stays the first, or the new one is and the event is no later.   *)
LEMMA NotifyKeepsWaking ==
  ASSUME NEW T, NEW q \in Queue(T), NEW t \in T, NEW d \in Nat, WakesInTime(q)
  PROVE  WakesInTime(Notify(q, t, d))
<1> DEFINE p == Place(q, d)
           r == Notify(q, t, d)
<1>1. /\ r \in Queue(T) /\ r.event = NotifyEvent(q.event, d)
      /\ Len(r.due) = Len(q.due) + 1 /\ p \in 1 .. Len(q.due) + 1
  BY NotifyShape
<1>2. Len(q.due) \in Nat /\ q.event \in SUBSET Nat
  BY QueueFields
<1>3. r.due # <<>> /\ Head(r.due).left = Left(r, 1)
  BY <1>1, <1>2, QueueFields DEF Left
<1>4. CASE p = 1
  <2>1. Left(r, 1) = d
    BY <1>4, NotifyShape
  <2> QED BY <2>1, <1>1, <1>2, <1>3, NotifyKeepsEvent DEF WakesInTime
<1>5. CASE p > 1
  <2>1. Len(q.due) >= 1 /\ 1 \in 1 .. Len(q.due) + 1 /\ 1 \in 1 .. Len(q.due) /\ 1 < p
    BY <1>1, <1>2, <1>5
  <2>2. Left(r, 1) = Left(q, 1)
    BY <2>1, NotifyShape
  <2>3. q.due # <<>> /\ Head(q.due).left = Left(q, 1) /\ Left(q, 1) \in Nat
    BY <2>1, QueueFields, EntryFields DEF Left
  <2>4. \E e \in q.event : e <= Left(q, 1)
    BY <2>3 DEF WakesInTime
  <2>5. \E e \in NotifyEvent(q.event, d) : e <= Left(q, 1)
    BY <2>3, <2>4, <1>2, NotifyKeepsEvent
  <2> QED BY <2>2, <2>5, <1>1, <1>3 DEF WakesInTime
<1> QED BY <1>1, <1>2, <1>4, <1>5

(* In a sorted queue the event is never earlier than the first payload:    *)
(* notify asks for it at the payload's own time.                           *)
LEMMA NotifyKeepsEventDue ==
  ASSUME NEW T, NEW q \in Queue(T), NEW t \in T, NEW d \in Nat,
         Sorted(q), EventIsDue(q)
  PROVE  EventIsDue(Notify(q, t, d))
<1> DEFINE r == Notify(q, t, d)
<1>1. /\ r \in Queue(T) /\ r.event = NotifyEvent(q.event, d)
      /\ Len(r.due) = Len(q.due) + 1 /\ Sorted(r)
      /\ Place(q, d) \in 1 .. Len(r.due) /\ Left(r, Place(q, d)) = d
  <2>1. /\ r \in Queue(T) /\ r.event = NotifyEvent(q.event, d)
        /\ Len(r.due) = Len(q.due) + 1
        /\ Place(q, d) \in 1 .. Len(q.due) + 1 /\ Left(r, Place(q, d)) = d
    BY NotifyShape
  <2>2. Sorted(r)
    BY NotifyKeepsSorted
  <2> HIDE DEF r
  <2> QED BY <2>1, <2>2
<1>2. Len(q.due) \in Nat /\ q.event \in SUBSET Nat /\ r.due # <<>>
  BY <1>1, QueueFields
<1>3. \A i \in 1 .. Len(r.due) : Left(r, i) \in Nat
  BY <1>1, EntryFields
<1>4. 1 \in 1 .. Len(r.due) /\ Left(r, 1) <= d
  BY <1>1, <1>2, <1>3 DEF Sorted
<1>5. ASSUME NEW e \in q.event
      PROVE  Left(r, 1) <= e
  <2>1. q.due # <<>> /\ Left(q, 1) <= e /\ e \in Nat
    BY <1>2 DEF EventIsDue
  <2>2. 1 \in 1 .. Len(q.due) /\ Left(q, 1) \in Nat
    BY <2>1, QueueFields, EntryFields
  <2>3. CASE Place(q, d) = 1
    <3>1. ~ (Left(q, 1) <= d)
      <4>1. Cardinality(SoonerThan(q, d)) \in 0 .. Len(q.due)
        BY SoonerCount
      <4>2. Cardinality(SoonerThan(q, d)) = 0
        BY <2>3, <4>1, <1>2 DEF Place
      <4> QED BY <2>2, <4>2, SoonerCount
    <3> QED BY <3>1, <2>1, <2>2, <1>3, <1>4
  <2>4. CASE Place(q, d) # 1
    <3>1. 1 < Place(q, d) /\ 1 \in 1 .. Len(q.due) + 1
      BY <2>4, <1>1, <1>2
    <3>2. Left(r, 1) = Left(q, 1)
      BY <3>1, NotifyShape
    <3> QED BY <3>2, <2>1
  <2> QED BY <2>3, <2>4
<1>6. \A e \in r.event : e \in q.event \/ e = d
  BY <1>1, <1>2, NotifyKeepsEvent
<1> QED BY <1>2, <1>4, <1>5, <1>6 DEF EventIsDue

-----------------------------------------------------------------------------
\* get_next_transaction()

LEMMA TakenShape ==
  ASSUME NEW T, NEW q \in Queue(T), q.due # <<>>
  PROVE  /\ Taken(q) \in Queue(T) /\ Taken(q).event = q.event
         /\ Len(Taken(q).due) = Len(q.due) - 1
         /\ \A i \in 1 .. Len(q.due) - 1 : Taken(q).due[i] = q.due[i + 1]
         /\ NextTransaction(q) = Trans(q, 1) /\ NextTransaction(q) \in T
<1>1. q.due \in Seq(Entry(T)) /\ q.event \in SUBSET Nat /\ Len(q.due) >= 1
  BY QueueFields
<1>2. Taken(q).due = Tail(q.due) /\ Taken(q).event = q.event
  BY DEF Taken, Queue
<1>3. /\ Tail(q.due) \in Seq(Entry(T)) /\ Len(Tail(q.due)) = Len(q.due) - 1
      /\ \A i \in 1 .. Len(Tail(q.due)) : Tail(q.due)[i] = q.due[i + 1]
  BY <1>1, HeadTailProperties
<1>4. Taken(q) \in Queue(T)
  BY <1>1, <1>3 DEF Taken, Queue
<1>5. NextTransaction(q) = Trans(q, 1) /\ 1 \in 1 .. Len(q.due)
  BY <1>1, QueueFields DEF NextTransaction, Trans
<1> QED BY <1>2, <1>3, <1>4, <1>5, EntryFields

LEMMA TakenKeeps ==
  ASSUME NEW T, NEW q \in Queue(T), q.due # <<>>
  PROVE  /\ Sorted(q) => Sorted(Taken(q))
         /\ Distinct(q) => /\ Distinct(Taken(q))
                           /\ Payloads(Taken(q)) = Payloads(q) \ {NextTransaction(q)}
         /\ NextTransaction(q) \in Payloads(q)
         /\ Payloads(Taken(q)) \subseteq Payloads(q)
<1> DEFINE n == Len(q.due)
           r == Taken(q)
<1>1. /\ r \in Queue(T) /\ Len(r.due) = n - 1
      /\ \A i \in 1 .. n - 1 : r.due[i] = q.due[i + 1]
      /\ NextTransaction(q) = Trans(q, 1)
  BY TakenShape
<1>2. n \in Nat /\ n >= 1 /\ Payloads(q) = {Trans(q, i) : i \in 1 .. n}
  BY QueueFields
<1>3. Payloads(r) = {Trans(r, i) : i \in 1 .. n - 1}
  BY <1>1, QueueFields
<1> HIDE DEF r
<1>4. \A i \in 1 .. n - 1 : /\ i + 1 \in 1 .. n
                            /\ Trans(r, i) = Trans(q, i + 1)
                            /\ Left(r, i) = Left(q, i + 1)
  BY <1>1, <1>2 DEF Trans, Left
<1>5. ASSUME Sorted(q) PROVE Sorted(r)
  <2>1. ASSUME NEW i \in 1 .. n - 1, NEW j \in 1 .. n - 1, i <= j
        PROVE  Left(r, i) <= Left(r, j)
    <3>1. i + 1 <= j + 1 /\ i + 1 \in 1 .. n /\ j + 1 \in 1 .. n
      BY <2>1, <1>2
    <3> QED BY <3>1, <1>4, <1>5 DEF Sorted
  <2> QED BY <2>1, <1>1 DEF Sorted
<1>6. ASSUME Distinct(q) PROVE Distinct(r)
  <2>1. ASSUME NEW i \in 1 .. n - 1, NEW j \in 1 .. n - 1, Trans(r, i) = Trans(r, j)
        PROVE  i = j
    <3>1. i + 1 = j + 1
      BY <2>1, <1>4, <1>6 DEF Distinct
    <3> QED BY <3>1
  <2> QED BY <2>1, <1>1 DEF Distinct
<1>7. Payloads(r) \subseteq Payloads(q)
  BY <1>2, <1>3, <1>4
<1>8. NextTransaction(q) \in Payloads(q) /\ 1 \in 1 .. n
  BY <1>1, <1>2
<1>9. ASSUME Distinct(q) PROVE Payloads(r) = Payloads(q) \ {NextTransaction(q)}
  <2>1. \A i \in 1 .. n - 1 : Trans(r, i) # Trans(q, 1)
    <3>1. \A i \in 1 .. n - 1 : i + 1 # 1
      BY <1>2
    <3> QED BY <3>1, <1>4, <1>8, <1>9 DEF Distinct
  <2>2. ASSUME NEW i \in 1 .. n, Trans(q, i) # Trans(q, 1)
        PROVE  Trans(q, i) \in Payloads(r)
    <3>1. i # 1
      BY <2>2
    <3>2. i - 1 \in 1 .. n - 1 /\ (i - 1) + 1 = i
      BY <3>1, <1>2
    <3> QED BY <3>2, <1>3, <1>4
  <2> QED BY <2>1, <2>2, <1>1, <1>2, <1>3, <1>7
<1> QED BY <1>5, <1>6, <1>7, <1>8, <1>9 DEF r

(* A reader that finds nothing to take asks for the event, so that it wakes. *)
LEMMA NothingTakenWakes ==
  ASSUME NEW T, NEW q \in Queue(T)
  PROVE  /\ NothingTaken(q) \in Queue(T) /\ NothingTaken(q).due = q.due
         /\ WakesInTime(NothingTaken(q))
<1>1. CASE q.due = <<>>
  BY <1>1 DEF NothingTaken, WakesInTime
<1>2. CASE q.due # <<>>
  <2> DEFINE h == Head(q.due).left
             r == NothingTaken(q)
  <2>1. h = Left(q, 1) /\ 1 \in 1 .. Len(q.due) /\ q.event \in SUBSET Nat
    BY <1>2, QueueFields DEF Left
  <2>2. h \in Nat
    BY <2>1, EntryFields
  <2> HIDE DEF h
  <2>3. r = [q EXCEPT !.event = NotifyEvent(@, h)]
    BY <1>2 DEF NothingTaken, h
  <2>4. NotifyEvent(q.event, h) \in SUBSET Nat
    BY <2>1, <2>2 DEF NotifyEvent
  <2>5. r.due = q.due /\ r.event = NotifyEvent(q.event, h) /\ r \in Queue(T)
    BY <2>3, <2>4 DEF Queue
  <2>6. \E e \in r.event : e <= h
    <3>1. \E e \in NotifyEvent(q.event, h) : e <= h
      BY <2>1, <2>2, NotifyKeepsEvent
    <3> QED BY <3>1, <2>5
  <2> QED BY <2>5, <2>6 DEF WakesInTime, h
<1> QED BY <1>1, <1>2

-----------------------------------------------------------------------------
\* The event and time

LEMMA FiredShape ==
  ASSUME NEW T, NEW q \in Queue(T)
  PROVE  /\ Fired(q) \in Queue(T) /\ Fired(q).due = q.due /\ Fired(q).event = {}
         /\ EventIsDue(Fired(q))
BY DEF Fired, Queue, NoEvent, EventIsDue

LEMMA SoonerType ==
  /\ \A n \in Nat : Sooner(n) \in Nat
  /\ \A m, n \in Nat : m <= n => Sooner(m) <= Sooner(n)
BY DEF Sooner

LEMMA ElapsedShape ==
  ASSUME NEW T, NEW q \in Queue(T)
  PROVE  /\ Elapsed(q) \in Queue(T) /\ Len(Elapsed(q).due) = Len(q.due)
         /\ Elapsed(q).event = {Sooner(e) : e \in q.event}
         /\ \A i \in 1 .. Len(q.due) : /\ Trans(Elapsed(q), i) = Trans(q, i)
                                      /\ Left(Elapsed(q), i) = Sooner(Left(q, i))
         /\ Payloads(Elapsed(q)) = Payloads(q)
<1> DEFINE n == Len(q.due)
           s == [i \in DOMAIN q.due |-> [q.due[i] EXCEPT !.left = Sooner(@)]]
           v == {Sooner(e) : e \in q.event}
<1>1. n \in Nat /\ DOMAIN q.due = 1 .. n /\ q.event \in SUBSET Nat
  BY QueueFields
<1>2. Elapsed(q) = [due |-> s, event |-> v]
  BY DEF Elapsed
<1>3. \A i \in 1 .. n : q.due[i] \in Entry(T) /\ Left(q, i) \in Nat
  BY EntryFields
<1>4. ASSUME NEW i \in 1 .. n
      PROVE  s[i] \in Entry(T) /\ s[i].trans = Trans(q, i) /\ s[i].left = Sooner(Left(q, i))
  <2>1. s[i] = [q.due[i] EXCEPT !.left = Sooner(@)]
    BY <1>1
  <2>2. Sooner(Left(q, i)) \in Nat
    BY <1>3, SoonerType
  <2> HIDE DEF s
  <2> QED BY <2>1, <2>2, <1>3 DEF Entry, Trans, Left
<1>5. DOMAIN s = 1 .. n /\ s \in [1 .. n -> Entry(T)]
  <2>1. s = [i \in 1 .. n |-> s[i]]
    BY <1>1
  <2> HIDE DEF s
  <2> QED BY <2>1, <1>4
<1>6. v \in SUBSET Nat
  BY <1>1, SoonerType
<1> HIDE DEF s, v
<1>7. s \in Seq(Entry(T))
  BY <1>1, <1>5, SeqDef
<1>8. Len(s) = n
  <2>1. DOMAIN s = 1 .. Len(s) /\ Len(s) \in Nat
    BY <1>7, LenProperties
  <2>2. 1 .. Len(s) = 1 .. n
    BY <2>1, <1>5
  <2>3. Len(s) \in 1 .. Len(s) \/ Len(s) = 0
    BY <2>1
  <2>4. n \in 1 .. n \/ n = 0
    BY <1>1
  <2> QED BY <2>1, <2>2, <2>3, <2>4, <1>1
<1>9. Elapsed(q).due = s /\ Elapsed(q).event = v /\ Elapsed(q) \in Queue(T)
  BY <1>2, <1>6, <1>7 DEF Queue
<1>10. \A i \in 1 .. n : /\ Trans(Elapsed(q), i) = Trans(q, i)
                         /\ Left(Elapsed(q), i) = Sooner(Left(q, i))
  BY <1>4, <1>9 DEF Trans, Left
<1>11. Payloads(Elapsed(q)) = Payloads(q)
  <2>1. Payloads(Elapsed(q)) = {Trans(Elapsed(q), i) : i \in 1 .. n}
    BY <1>8, <1>9, QueueFields
  <2>2. Payloads(q) = {Trans(q, i) : i \in 1 .. n}
    BY QueueFields
  <2> QED BY <2>1, <2>2, <1>10
<1> QED BY <1>8, <1>9, <1>10, <1>11 DEF v

LEMMA ElapsedKeeps ==
  ASSUME NEW T, NEW q \in Queue(T)
  PROVE  /\ Sorted(q) => Sorted(Elapsed(q))
         /\ Distinct(q) => Distinct(Elapsed(q))
         /\ EventIsDue(q) => EventIsDue(Elapsed(q))
         /\ WakesInTime(q) => WakesInTime(Elapsed(q))
<1> DEFINE r == Elapsed(q)
<1>1. /\ r \in Queue(T) /\ Len(r.due) = Len(q.due)
      /\ r.event = {Sooner(e) : e \in q.event}
      /\ \A i \in 1 .. Len(q.due) : /\ Trans(r, i) = Trans(q, i)
                                   /\ Left(r, i) = Sooner(Left(q, i))
  BY ElapsedShape
<1>2. Len(q.due) \in Nat /\ q.event \in SUBSET Nat
  BY QueueFields
<1>3. \A i \in 1 .. Len(q.due) : Left(q, i) \in Nat
  BY EntryFields
<1>4. /\ q.due # <<>> <=> Len(q.due) >= 1
      /\ r.due # <<>> <=> Len(q.due) >= 1
      /\ q.due # <<>> => Head(q.due).left = Left(q, 1) /\ 1 \in 1 .. Len(q.due)
      /\ r.due # <<>> => Head(r.due).left = Left(r, 1)
  <2>1. r.due # <<>> <=> Len(r.due) >= 1
    BY <1>1, QueueFields
  <2> QED BY <2>1, <1>1, <1>2, QueueFields DEF Left
<1> HIDE DEF r
<1>5. Sorted(q) => Sorted(r)
  <2>1. ASSUME Sorted(q), NEW i \in 1 .. Len(q.due), NEW j \in 1 .. Len(q.due), i <= j
        PROVE  Left(r, i) <= Left(r, j)
    <3>1. Left(q, i) <= Left(q, j) /\ Left(q, i) \in Nat /\ Left(q, j) \in Nat
      BY <2>1, <1>3 DEF Sorted
    <3> QED BY <3>1, <1>1, SoonerType
  <2> QED BY <2>1, <1>1 DEF Sorted
<1>6. Distinct(q) => Distinct(r)
  BY <1>1 DEF Distinct
<1>7. EventIsDue(q) => EventIsDue(r)
  BY <1>1, <1>2, <1>3, <1>4, SoonerType DEF EventIsDue
<1>8. ASSUME WakesInTime(q), r.due # <<>>
      PROVE  \E e \in r.event : e <= Head(r.due).left
  <2>1. PICK e \in q.event : e <= Left(q, 1)
    BY <1>4, <1>8 DEF WakesInTime
  <2>2. Sooner(e) <= Sooner(Left(q, 1)) /\ Sooner(e) \in r.event
    BY <2>1, <1>1, <1>2, <1>3, <1>4, <1>8, SoonerType
  <2> QED BY <2>2, <1>1, <1>4, <1>8
<1> QED BY <1>5, <1>6, <1>7, <1>8 DEF r, WakesInTime
=============================================================================
