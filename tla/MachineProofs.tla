---------------------------- MODULE MachineProofs ---------------------------
(***************************************************************************)
(* Theorems about the small machines around the scheduler: the rings of    *)
(* QueueLinks, the frames of IrqContext, the sleeping lock, the system     *)
(* timer, the start of the cores and the property channel.  Each part has  *)
(* its own inductive invariant.                                            *)
(***************************************************************************)
EXTENDS QueueLinks, IrqContext, Slock, Timer, CoreStart, MboxTags, SharedLemmas, FiniteSetTheorems

---------------------------------------------------------------------------
(* QueueLinks: the rings *)

\* enqueue_head moves every entry one place on.
LEMMA FirstPlaces ==
  ASSUME NEW S, NEW s \in Seq(S), NEW t \in S
  PROVE  /\ <<t>> \o s \in Seq(S) /\ Len(<<t>> \o s) = Len(s) + 1
         /\ (<<t>> \o s)[1] = t
         /\ \A k \in 1 .. Len(s) : (<<t>> \o s)[k + 1] = s[k]
<1>1. <<t>> \in Seq(S) /\ Len(<<t>>) = 1 /\ <<t>>[1] = t /\ Len(s) \in Nat
  OBVIOUS
<1>2. /\ <<t>> \o s \in Seq(S) /\ Len(<<t>> \o s) = Len(<<t>>) + Len(s)
      /\ \A j \in 1 .. Len(<<t>>) + Len(s) :
           (<<t>> \o s)[j] = IF j <= Len(<<t>>) THEN <<t>>[j] ELSE s[j - Len(<<t>>)]
  BY <1>1, ConcatProperties
<1>3. (<<t>> \o s)[1] = t
  BY <1>1, <1>2
<1>4. ASSUME NEW k \in 1 .. Len(s) PROVE (<<t>> \o s)[k + 1] = s[k]
  <2>1. k + 1 \in 1 .. Len(<<t>>) + Len(s) /\ ~(k + 1 <= Len(<<t>>)) /\ k + 1 - Len(<<t>>) = k
    BY <1>1
  <2> QED BY <1>2, <2>1
<1> QED BY <1>1, <1>2, <1>3, <1>4

LEMMA EnqueueFirstFacts ==
  ASSUME NEW I, NEW S, NEW Q \in [I -> Seq(S)], NEW i \in I, NEW t \in S
  PROVE  /\ EnqueueFirst(Q, i, t) \in [I -> Seq(S)]
         /\ NoDuplicates(Q) /\ t \notin Queued(Q) => NoDuplicates(EnqueueFirst(Q, i, t))
<1> DEFINE R == EnqueueFirst(Q, i, t)
<1>1. /\ R \in [I -> Seq(S)]
      /\ \A j \in I : R[j] = IF j = i THEN <<t>> \o Q[i] ELSE Q[j]
  BY FirstPlaces DEF EnqueueFirst
<1>2. /\ \A j \in I : Len(Q[j]) \in Nat
      /\ Len(R[i]) = Len(Q[i]) + 1 /\ R[i][1] = t
      /\ \A k \in 1 .. Len(Q[i]) : R[i][k + 1] = Q[i][k]
  <2>1. R[i] = <<t>> \o Q[i] /\ Q[i] \in Seq(S)
    BY <1>1
  <2> HIDE DEF R
  <2> QED BY <2>1, FirstPlaces
<1> HIDE DEF R
<1> DEFINE Old(j, l) == IF j = i THEN l - 1 ELSE l
<1>3. ASSUME NEW j \in I, NEW l \in 1 .. Len(R[j])
      PROVE  \/ j = i /\ l = 1 /\ R[j][l] = t
             \/ Old(j, l) \in 1 .. Len(Q[j]) /\ R[j][l] = Q[j][Old(j, l)]
  <2>1. CASE j = i /\ l # 1
    <3>1. l - 1 \in 1 .. Len(Q[i]) /\ (l - 1) + 1 = l
      BY <1>2, <2>1
    <3> QED BY <1>2, <2>1, <3>1
  <2>2. CASE j # i
    BY <1>1, <2>2
  <2> QED BY <1>2, <2>1, <2>2
<1>4. ASSUME NoDuplicates(Q), t \notin Queued(Q) PROVE NoDuplicates(R)
  <2> SUFFICES ASSUME NEW j \in I, NEW m \in I,
                      NEW l \in 1 .. Len(R[j]), NEW n \in 1 .. Len(R[m]), R[j][l] = R[m][n]
               PROVE  j = m /\ l = n
    BY <1>1 DEF NoDuplicates
  <2>1. \A r \in I : \A o \in 1 .. Len(Q[r]) : Q[r][o] # t
    BY <1>4, QueuedElements
  <2>2. l \in Nat /\ n \in Nat
    BY <1>1, <1>2
  <2>3. CASE R[j][l] = t
    <3> HIDE DEF Old
    <3> QED BY <1>3, <2>1, <2>3
  <2>4. CASE R[j][l] # t
    <3>1. /\ Old(j, l) \in 1 .. Len(Q[j]) /\ Old(m, n) \in 1 .. Len(Q[m])
          /\ Q[j][Old(j, l)] = Q[m][Old(m, n)]
      <4> HIDE DEF Old
      <4> QED BY <1>3, <2>4
    <3>2. j = m /\ Old(j, l) = Old(m, n)
      <4> HIDE DEF Old
      <4> QED BY <1>4, <3>1 DEF NoDuplicates
    <3> QED BY <2>2, <3>2
  <2> QED BY <2>3, <2>4
<1> QED BY <1>1, <1>4 DEF R

\* Where the nodes of the rings are: the entries at their places, the head before
\* and behind them, and no node at two places.
LEMMA QPlaces ==
  ASSUME QTypeOK, NEW q \in QHeads
  PROVE  /\ holds[q] \in Seq(QEntries) /\ Len(holds[q]) \in Nat
         /\ Place(q, 0) = q /\ Place(q, Len(holds[q]) + 1) = q
         /\ \A i \in 1 .. Len(holds[q]) : /\ Place(q, i) = holds[q][i]
                                          /\ Place(q, i) \in QEntries
                                          /\ Place(q, i) \in Queued(holds)
         /\ \A i \in Int : Place(q, i) \in QNodes
<1>1. holds \in [QHeads -> Seq(QEntries)]
  BY DEF QTypeOK
<1>2. holds[q] \in Seq(QEntries) /\ Len(holds[q]) \in Nat
  BY <1>1, LenProperties
<1>3. \A i \in 1 .. Len(holds[q]) : holds[q][i] \in QEntries /\ holds[q][i] \in Queued(holds)
  BY <1>1, <1>2, ElementOfSeq, QueuedElements
<1> QED BY <1>2, <1>3 DEF Place, QNodes

LEMMA PlacesDiffer ==
  ASSUME QTypeOK, NoDuplicates(holds), NEW q \in QHeads, NEW r \in QHeads
  PROVE  /\ \A i \in 0 .. Len(holds[q]), j \in 0 .. Len(holds[r]) :
              Place(q, i) = Place(r, j) => q = r /\ i = j
         /\ \A i \in 1 .. Len(holds[q]) + 1, j \in 1 .. Len(holds[r]) + 1 :
              Place(q, i) = Place(r, j) => q = r /\ i = j
<1>1. /\ Len(holds[q]) \in Nat /\ Len(holds[r]) \in Nat
      /\ Place(q, 0) = q /\ Place(q, Len(holds[q]) + 1) = q
      /\ Place(r, 0) = r /\ Place(r, Len(holds[r]) + 1) = r
      /\ \A i \in 1 .. Len(holds[q]) : Place(q, i) = holds[q][i] /\ Place(q, i) \in QEntries
      /\ \A i \in 1 .. Len(holds[r]) : Place(r, i) = holds[r][i] /\ Place(r, i) \in QEntries
  BY QPlaces
<1>2. \A i \in 1 .. Len(holds[q]), j \in 1 .. Len(holds[r]) :
        Place(q, i) = Place(r, j) => q = r /\ i = j
  BY <1>1 DEF NoDuplicates, QTypeOK
<1>3. ASSUME NEW i \in 0 .. Len(holds[q]), NEW j \in 0 .. Len(holds[r]), Place(q, i) = Place(r, j)
      PROVE  q = r /\ i = j
  <2>1. (i = 0 \/ i \in 1 .. Len(holds[q])) /\ (j = 0 \/ j \in 1 .. Len(holds[r]))
    BY <1>1
  <2> QED BY <1>1, <1>2, <1>3, <2>1, QueueAssumption
<1>4. ASSUME NEW i \in 1 .. Len(holds[q]) + 1, NEW j \in 1 .. Len(holds[r]) + 1, Place(q, i) = Place(r, j)
      PROVE  q = r /\ i = j
  <2>1. /\ i = Len(holds[q]) + 1 \/ i \in 1 .. Len(holds[q])
        /\ j = Len(holds[r]) + 1 \/ j \in 1 .. Len(holds[r])
    BY <1>1
  <2> QED BY <1>1, <1>2, <1>4, <2>1, QueueAssumption
<1> QED BY <1>3, <1>4

\* The two links of a place.
LEMMA RingAt ==
  ASSUME RingLinked, NEW q \in QHeads, NEW i \in 0 .. Len(holds[q])
  PROVE  next[Place(q, i)] = Place(q, i + 1) /\ prev[Place(q, i + 1)] = Place(q, i)
BY DEF RingLinked

\* enqueue_tail
LEMMA LinkTailRings ==
  ASSUME QTypeOK, NoDuplicates(holds), RingLinked,
         NEW q \in QHeads, NEW e \in QEntries, Out(e), LinkTail(q, e), holds' = Enqueue(holds, q, e)
  PROVE  /\ RingLinked'
         /\ next' \in [QNodes -> QNodes \cup {NoEntry}] /\ prev' \in [QNodes -> QNodes \cup {NoEntry}]
<1>0. PICK N \in Nat : N = Len(holds[q])
  BY QPlaces
<1> DEFINE last == Place(q, N)
<1>1. N \in Nat /\ N = Len(holds[q]) /\ last \in QNodes /\ Place(q, N + 1) = q /\ e \in QNodes /\ q \in QNodes /\ e # q
  BY <1>0, QPlaces, QueueAssumption DEF QNodes
<1>2. prev[q] = last
  BY <1>1, RingAt
<1>3. \A r \in QHeads : \A i \in 0 .. Len(holds[r]) + 1 : Place(r, i) # e /\ Place(r, i) \in QNodes
  <2> SUFFICES ASSUME NEW r \in QHeads, NEW i \in 0 .. Len(holds[r]) + 1
               PROVE  Place(r, i) # e /\ Place(r, i) \in QNodes
    OBVIOUS
  <2>1. i = 0 \/ i \in 1 .. Len(holds[r]) \/ i = Len(holds[r]) + 1
    BY QPlaces
  <2> QED BY <2>1, QPlaces, QueueAssumption DEF Out
<1>4. last # e
  BY <1>1, <1>3
<1> HIDE DEF last
<1>5. /\ \A n \in QNodes : next'[n] = IF n = last THEN e ELSE IF n = e THEN q ELSE next[n]
      /\ \A n \in QNodes : prev'[n] = IF n = q THEN e ELSE IF n = e THEN last ELSE prev[n]
      /\ next' \in [QNodes -> QNodes \cup {NoEntry}] /\ prev' \in [QNodes -> QNodes \cup {NoEntry}]
  BY <1>1, <1>2, <1>4 DEF LinkTail, QTypeOK
<1>6. /\ \A r \in QHeads : r # q => holds'[r] = holds[r]
      /\ Len(holds'[q]) = N + 1 /\ holds'[q][N + 1] = e
      /\ \A i \in 1 .. N : holds'[q][i] = holds[q][i]
  <2>1. holds[q] \in Seq(QEntries) /\ holds'[q] = Append(holds[q], e)
    BY QPlaces DEF Enqueue, QTypeOK
  <2> QED BY <1>1, <2>1, AppendProperties DEF Enqueue, QTypeOK
<1>7. /\ \A r \in QHeads : r # q => \A i \in Int : Place(r, i)' = Place(r, i)
      /\ \A i \in 0 .. N : Place(q, i)' = Place(q, i)
      /\ Place(q, N + 1)' = e /\ Place(q, N + 2)' = q
  <2>1. \A r \in QHeads : r # q => \A i \in Int : Place(r, i)' = Place(r, i)
    BY <1>6 DEF Place
  <2>2. ASSUME NEW i \in 0 .. N PROVE Place(q, i)' = Place(q, i)
    <3>1. CASE i = 0
      BY <1>1, <1>6, <3>1 DEF Place
    <3>2. CASE i \in 1 .. N
      BY <1>1, <1>6, <3>2 DEF Place
    <3> QED BY <1>1, <3>1, <3>2
  <2>3. Place(q, N + 1)' = e /\ Place(q, N + 2)' = q
    BY <1>1, <1>6 DEF Place
  <2> QED BY <2>1, <2>2, <2>3
<1>8. ASSUME NEW r \in QHeads, NEW i \in 0 .. Len(holds'[r])
      PROVE  next'[Place(r, i)'] = Place(r, i + 1)' /\ prev'[Place(r, i + 1)'] = Place(r, i)'
  <2>1. CASE r # q
    <3>1. i \in 0 .. Len(holds[r]) /\ Len(holds[r]) \in Nat
      BY <1>6, <2>1, QPlaces
    <3>2. Place(r, i) # last /\ Place(r, i + 1) # q
      <4>1. Place(r, i) # last
        BY <1>1, <2>1, <3>1, PlacesDiffer DEF last
      <4>2. Place(r, i + 1) # Place(q, N + 1)
        <5>1. i + 1 \in 1 .. Len(holds[r]) + 1 /\ N + 1 \in 1 .. N + 1
          BY <1>1, <3>1
        <5> QED BY <1>1, <2>1, <5>1, PlacesDiffer
      <4> QED BY <1>1, <4>1, <4>2
    <3>3. /\ Place(r, i) # e /\ Place(r, i) \in QNodes
          /\ Place(r, i + 1) # e /\ Place(r, i + 1) \in QNodes
      BY <1>3, <3>1
    <3>4. Place(r, i)' = Place(r, i) /\ Place(r, i + 1)' = Place(r, i + 1)
      BY <1>7, <2>1, <3>1
    <3> QED BY <1>5, <3>1, <3>2, <3>3, <3>4, RingAt
  <2>2. CASE r = q /\ i < N
    <3>1. i \in 0 .. N /\ i + 1 \in 0 .. N /\ i + 1 \in 1 .. N
      BY <1>1, <1>6, <2>2
    <3>2. Place(q, i) # last /\ Place(q, i + 1) # q
      BY <1>1, <2>2, <3>1, PlacesDiffer, QPlaces, QueueAssumption DEF last
    <3>3. /\ Place(q, i) # e /\ Place(q, i) \in QNodes
          /\ Place(q, i + 1) # e /\ Place(q, i + 1) \in QNodes
      BY <1>1, <1>3, <3>1
    <3>4. Place(q, i)' = Place(q, i) /\ Place(q, i + 1)' = Place(q, i + 1)
      BY <1>7, <3>1
    <3>5. next[Place(q, i)] = Place(q, i + 1) /\ prev[Place(q, i + 1)] = Place(q, i)
      BY <1>1, <3>1, RingAt
    <3>6. next'[Place(q, i)] = Place(q, i + 1) /\ prev'[Place(q, i + 1)] = Place(q, i)
      BY <1>5, <3>2, <3>3, <3>5
    <3> QED BY <2>2, <3>4, <3>6
  <2>3. CASE r = q /\ i = N
    <3>1. Place(r, i)' = last /\ Place(r, i + 1)' = e
      BY <1>1, <1>7, <2>3 DEF last
    <3> QED BY <1>1, <1>4, <1>5, <3>1
  <2>4. CASE r = q /\ i = N + 1
    <3>1. i + 1 = N + 2 /\ r = q /\ i = N + 1
      BY <1>1, <2>4
    <3>2. Place(r, i)' = e /\ Place(r, i + 1)' = q
      BY <1>7, <3>1
    <3> QED BY <1>1, <1>4, <1>5, <3>2
  <2> QED BY <1>1, <1>6, <2>1, <2>2, <2>3, <2>4
<1>9. RingLinked'
  BY <1>8 DEF RingLinked
<1> QED BY <1>5, <1>9

\* Places of entries in rings of queues that are not changed.
LEMMA OtherPlaces ==
  ASSUME NEW r \in QHeads, holds'[r] = holds[r], NEW i \in Int
  PROVE  Place(r, i)' = Place(r, i)
BY DEF Place

\* An entry that is in no queue has no place.
LEMMA OutOfRings ==
  ASSUME QTypeOK, NEW e \in QEntries, Out(e), NEW r \in QHeads, NEW i \in Int
  PROVE  Place(r, i) # e
<1>1. i \in 1 .. Len(holds[r]) => Place(r, i) \in Queued(holds)
  BY QPlaces
<1>2. i \notin 1 .. Len(holds[r]) => Place(r, i) = r
  BY DEF Place
<1> QED BY <1>1, <1>2, QueueAssumption DEF Out

\* enqueue_head
LEMMA LinkHeadRings ==
  ASSUME QTypeOK, NoDuplicates(holds), RingLinked,
         NEW q \in QHeads, NEW e \in QEntries, Out(e), LinkHead(q, e), holds' = EnqueueFirst(holds, q, e)
  PROVE  /\ RingLinked'
         /\ next' \in [QNodes -> QNodes \cup {NoEntry}] /\ prev' \in [QNodes -> QNodes \cup {NoEntry}]
<1>0. PICK N \in Nat : N = Len(holds[q])
  BY QPlaces
<1> DEFINE front == Place(q, 1)
<1>1. /\ N = Len(holds[q]) /\ front \in QNodes /\ Place(q, 0) = q
      /\ e \in QNodes /\ q \in QNodes /\ e # q /\ front # e
  BY <1>0, QPlaces, OutOfRings, QueueAssumption DEF QNodes
<1>2. next[q] = front
  <2>1. 0 \in 0 .. Len(holds[q]) /\ 0 + 1 = 1
    BY <1>0
  <2> QED BY <1>1, <2>1, RingAt
<1>3. \A r \in QHeads : \A i \in Int : Place(r, i) # e /\ Place(r, i) \in QNodes
  BY OutOfRings, QPlaces
<1> HIDE DEF front
<1>5. /\ \A n \in QNodes : next'[n] = IF n = q THEN e ELSE IF n = e THEN front ELSE next[n]
      /\ \A n \in QNodes : prev'[n] = IF n = front THEN e ELSE IF n = e THEN q ELSE prev[n]
      /\ next' \in [QNodes -> QNodes \cup {NoEntry}] /\ prev' \in [QNodes -> QNodes \cup {NoEntry}]
  BY <1>1, <1>2 DEF LinkHead, QTypeOK
<1>6. /\ \A r \in QHeads : r # q => holds'[r] = holds[r]
      /\ Len(holds'[q]) = N + 1 /\ holds'[q][1] = e
      /\ \A i \in 1 .. N : holds'[q][i + 1] = holds[q][i]
  <2>1. holds[q] \in Seq(QEntries) /\ holds'[q] = <<e>> \o holds[q]
    BY QPlaces DEF EnqueueFirst, QTypeOK
  <2> QED BY <1>1, <2>1, FirstPlaces DEF EnqueueFirst, QTypeOK
<1>7. /\ Place(q, 0)' = q /\ Place(q, 1)' = e
      /\ \A i \in 1 .. N + 1 : Place(q, i + 1)' = Place(q, i)
  <2>1. Place(q, 0)' = q /\ Place(q, 1)' = e
    BY <1>0, <1>6 DEF Place
  <2>2. ASSUME NEW i \in 1 .. N + 1 PROVE Place(q, i + 1)' = Place(q, i)
    <3>1. CASE i = N + 1
      BY <1>1, <1>6, <3>1 DEF Place
    <3>2. CASE i \in 1 .. N
      BY <1>1, <1>6, <3>2 DEF Place
    <3> QED BY <1>0, <3>1, <3>2
  <2> QED BY <2>1, <2>2
<1>8. ASSUME NEW r \in QHeads, NEW i \in 0 .. Len(holds'[r])
      PROVE  next'[Place(r, i)'] = Place(r, i + 1)' /\ prev'[Place(r, i + 1)'] = Place(r, i)'
  <2>1. CASE r # q
    <3>1. i \in 0 .. Len(holds[r]) /\ i + 1 \in 1 .. Len(holds[r]) + 1 /\ Len(holds[r]) \in Nat
      BY <1>6, <2>1, QPlaces
    <3>2. Place(r, i) # q
      <4>1. 0 \in 0 .. Len(holds[q])
        BY <1>0
      <4> QED BY <1>1, <2>1, <3>1, <4>1, PlacesDiffer
    <3>3. Place(r, i + 1) # front
      <4>1. 1 \in 1 .. Len(holds[q]) + 1
        BY <1>0
      <4> QED BY <2>1, <3>1, <4>1, PlacesDiffer DEF front
    <3>4. Place(r, i)' = Place(r, i) /\ Place(r, i + 1)' = Place(r, i + 1)
      BY <1>6, <2>1, <3>1, OtherPlaces
    <3>5. next'[Place(r, i)] = Place(r, i + 1) /\ prev'[Place(r, i + 1)] = Place(r, i)
      BY <1>3, <1>5, <3>1, <3>2, <3>3, RingAt
    <3> QED BY <3>4, <3>5
  <2>2. CASE r = q /\ i = 0
    <3>1. Place(r, i)' = q /\ Place(r, i + 1)' = e
      BY <1>7, <2>2
    <3> QED BY <1>1, <1>5, <3>1
  <2>3. CASE r = q /\ i = 1
    <3>1. 1 \in 1 .. N + 1 /\ i = 1 /\ i + 1 = 1 + 1
      BY <1>0, <2>3
    <3>2. Place(r, i)' = e /\ Place(r, i + 1)' = front
      BY <1>7, <2>3, <3>1 DEF front
    <3> QED BY <1>1, <1>5, <3>2
  <2>4. CASE r = q /\ i > 1
    <3>1. PICK j \in 1 .. N : i = j + 1 /\ i + 1 = (j + 1) + 1 /\ j + 1 \in 1 .. N + 1 /\ j \in 1 .. N + 1
      <4>1. i - 1 \in 1 .. N
        BY <1>0, <1>6, <2>4
      <4> QED BY <1>0, <4>1
    <3>2. Place(r, i)' = Place(q, j) /\ Place(r, i + 1)' = Place(q, j + 1)
      BY <1>7, <2>4, <3>1
    <3>3. Place(q, j) # q
      BY <1>1, <3>1, QPlaces, QueueAssumption
    <3>4. Place(q, j + 1) # front
      <4>1. 1 \in 1 .. Len(holds[q]) + 1 /\ j + 1 \in 1 .. Len(holds[q]) + 1 /\ j + 1 # 1
        BY <1>0, <3>1
      <4> QED BY <4>1, PlacesDiffer DEF front
    <3>5. next[Place(q, j)] = Place(q, j + 1) /\ prev[Place(q, j + 1)] = Place(q, j)
      <4>1. j \in 0 .. Len(holds[q])
        BY <1>0, <3>1
      <4> QED BY <4>1, RingAt
    <3>6. next'[Place(q, j)] = Place(q, j + 1) /\ prev'[Place(q, j + 1)] = Place(q, j)
      BY <1>3, <1>5, <3>1, <3>3, <3>4, <3>5
    <3> QED BY <3>2, <3>6
  <2> QED BY <1>6, <2>1, <2>2, <2>3, <2>4
<1>9. RingLinked'
  BY <1>8 DEF RingLinked
<1> QED BY <1>5, <1>9

\* Taking the k-th entry out of a ring joins its neighbours: dequeue_head,
\* dequeue_tail and rmqueue.
LEMMA UnlinkRings ==
  ASSUME QTypeOK, NoDuplicates(holds), RingLinked,
         NEW q \in QHeads, NEW k \in 1 .. Len(holds[q]),
         next' = [next EXCEPT ![Place(q, k - 1)] = Place(q, k + 1)],
         prev' = [prev EXCEPT ![Place(q, k + 1)] = Place(q, k - 1)],
         holds' = Dequeue(holds, q, k)
  PROVE  /\ RingLinked'
         /\ next' \in [QNodes -> QNodes \cup {NoEntry}] /\ prev' \in [QNodes -> QNodes \cup {NoEntry}]
<1>0. PICK N \in Nat : N = Len(holds[q])
  BY QPlaces
<1> DEFINE before == Place(q, k - 1)
           behind == Place(q, k + 1)
<1>1. N = Len(holds[q]) /\ k \in 1 .. N /\ before \in QNodes /\ behind \in QNodes
  BY <1>0, QPlaces
<1>3. \A r \in QHeads : \A i \in Int : Place(r, i) \in QNodes
  BY QPlaces
<1> HIDE DEF before, behind
<1>5. /\ \A n \in QNodes : next'[n] = IF n = before THEN behind ELSE next[n]
      /\ \A n \in QNodes : prev'[n] = IF n = behind THEN before ELSE prev[n]
      /\ next' \in [QNodes -> QNodes \cup {NoEntry}] /\ prev' \in [QNodes -> QNodes \cup {NoEntry}]
  BY <1>1 DEF QTypeOK, before, behind
<1>6. /\ \A r \in QHeads : r # q => holds'[r] = holds[r]
      /\ Len(holds'[q]) = N - 1
      /\ \A i \in 1 .. N - 1 : holds'[q][i] = IF i < k THEN holds[q][i] ELSE holds[q][i + 1]
  <2>1. holds[q] \in Seq(QEntries) /\ holds'[q] = RemoveAt(holds[q], k)
    BY QPlaces DEF Dequeue, QTypeOK
  <2> QED BY <1>1, <2>1, RemoveAtFacts DEF Dequeue, QTypeOK
<1>7. /\ \A i \in 0 .. k - 1 : Place(q, i)' = Place(q, i)
      /\ \A i \in k .. N : Place(q, i)' = Place(q, i + 1)
  <2>1. ASSUME NEW i \in 0 .. k - 1 PROVE Place(q, i)' = Place(q, i)
    <3>1. CASE i = 0
      BY <1>1, <1>6, <3>1 DEF Place
    <3>2. CASE i \in 1 .. k - 1
      BY <1>1, <1>6, <3>2 DEF Place
    <3> QED BY <1>1, <3>1, <3>2
  <2>2. ASSUME NEW i \in k .. N PROVE Place(q, i)' = Place(q, i + 1)
    <3>1. CASE i = N
      BY <1>1, <1>6, <3>1 DEF Place
    <3>2. CASE i \in k .. N - 1
      <4>1. /\ i \in 1 .. N - 1 /\ ~(i < k) /\ i + 1 \in 1 .. Len(holds[q])
            /\ i \in 1 .. Len(holds'[q])
        BY <1>1, <1>6, <3>2
      <4>2. holds'[q][i] = holds[q][i + 1]
        BY <1>6, <4>1
      <4> QED BY <4>1, <4>2 DEF Place
    <3> QED BY <1>1, <3>1, <3>2
  <2> QED BY <2>1, <2>2
<1>8. ASSUME NEW r \in QHeads, NEW i \in 0 .. Len(holds'[r])
      PROVE  next'[Place(r, i)'] = Place(r, i + 1)' /\ prev'[Place(r, i + 1)'] = Place(r, i)'
  <2>1. CASE r # q
    <3>1. i \in 0 .. Len(holds[r]) /\ i + 1 \in 1 .. Len(holds[r]) + 1 /\ Len(holds[r]) \in Nat
      BY <1>6, <2>1, QPlaces
    <3>2. Place(r, i) # before
      <4>1. k - 1 \in 0 .. Len(holds[q])
        BY <1>1
      <4> QED BY <2>1, <3>1, <4>1, PlacesDiffer DEF before
    <3>3. Place(r, i + 1) # behind
      <4>1. k + 1 \in 1 .. Len(holds[q]) + 1
        BY <1>1
      <4> QED BY <2>1, <3>1, <4>1, PlacesDiffer DEF behind
    <3>4. Place(r, i)' = Place(r, i) /\ Place(r, i + 1)' = Place(r, i + 1)
      BY <1>6, <2>1, <3>1, OtherPlaces
    <3>5. next'[Place(r, i)] = Place(r, i + 1) /\ prev'[Place(r, i + 1)] = Place(r, i)
      BY <1>3, <1>5, <3>1, <3>2, <3>3, RingAt
    <3> QED BY <3>4, <3>5
  <2>2. CASE r = q /\ i = k - 1
    <3>1. i \in 0 .. k - 1 /\ i = k - 1 /\ i + 1 = k /\ k \in k .. N
      BY <1>1, <2>2
    <3>2. Place(r, i)' = before /\ Place(r, i + 1)' = behind
      BY <1>7, <2>2, <3>1 DEF before, behind
    <3> QED BY <1>1, <1>5, <3>2
  <2>3. ASSUME r = q, i # k - 1, NEW j \in 0 .. N,
               Place(q, i)' = Place(q, j), Place(q, i + 1)' = Place(q, j + 1), j # k - 1, j # k
        PROVE  next'[Place(r, i)'] = Place(r, i + 1)' /\ prev'[Place(r, i + 1)'] = Place(r, i)'
    <3>1. Place(q, j) # before
      <4>1. k - 1 \in 0 .. Len(holds[q]) /\ j \in 0 .. Len(holds[q])
        BY <1>1
      <4> QED BY <2>3, <4>1, PlacesDiffer DEF before
    <3>2. Place(q, j + 1) # behind
      <4>1. k + 1 \in 1 .. Len(holds[q]) + 1 /\ j + 1 \in 1 .. Len(holds[q]) + 1 /\ j + 1 # k + 1
        BY <1>1, <2>3
      <4> QED BY <4>1, PlacesDiffer DEF behind
    <3>3. next[Place(q, j)] = Place(q, j + 1) /\ prev[Place(q, j + 1)] = Place(q, j)
      BY <1>1, RingAt
    <3>4. next'[Place(q, j)] = Place(q, j + 1) /\ prev'[Place(q, j + 1)] = Place(q, j)
      BY <1>3, <1>5, <3>1, <3>2, <3>3
    <3> QED BY <2>3, <3>4
  <2>4. CASE r = q /\ i < k - 1
    <3>1. i \in 0 .. N /\ i \in 0 .. k - 1 /\ i + 1 \in 0 .. k - 1 /\ i # k - 1 /\ i # k
      BY <1>1, <1>6, <2>4
    <3> QED BY <1>7, <2>3, <2>4, <3>1
  <2>5. CASE r = q /\ i > k - 1
    <3>1. /\ i \in k .. N /\ i + 1 \in k .. N /\ i + 1 \in 0 .. N
          /\ i # k - 1 /\ i + 1 # k - 1 /\ i + 1 # k
      BY <1>1, <1>6, <2>5
    <3> QED BY <1>7, <2>3, <2>5, <3>1
  <2> QED BY <1>1, <1>6, <2>1, <2>2, <2>4, <2>5
<1>9. RingLinked'
  BY <1>8 DEF RingLinked
<1> QED BY <1>5, <1>9

---------------------------------------------------------------------------
(* QueueLinks: the walk *)

LinksRight == /\ next \in [QNodes -> QNodes \cup {NoEntry}]
              /\ prev \in [QNodes -> QNodes \cup {NoEntry}]
              /\ holds \in [QHeads -> Seq(QEntries)]
              /\ NoDuplicates(holds)
              /\ RingLinked

\* The loop is at the k-th place of the ring, with all from there on due,
AtPlace(k) == /\ qe = Place(of, k) /\ qe_prev = Place(of, k - 1)
              /\ Len(due) = Len(holds[of]) - k + 1
              /\ \A j \in 1 .. Len(due) : due[j] = holds[of][k + j - 1]

\* or at an entry that was taken out in front of the k-th place.
BeforePlace(k) == /\ qe \in QEntries /\ \A i \in 1 .. Len(holds[of]) : holds[of][i] # qe
                  /\ qe_prev = Place(of, k - 1)
                  /\ Len(due) = Len(holds[of]) - k + 2 /\ due[1] = qe
                  /\ \A j \in 2 .. Len(due) : due[j] = holds[of][k + j - 2]

WalkRight == of # NoEntry => \E k \in 1 .. Len(holds[of]) + 1 : AtPlace(k) \/ BeforePlace(k)

QInv == QTypeOK /\ LinksRight /\ WalkRight

LEMMA QueueInit == QInit => QInv
<1> SUFFICES ASSUME QInit PROVE QInv
  OBVIOUS
<1>1. holds = [h \in QHeads |-> <<>>] /\ \A h \in QHeads : holds[h] = <<>>
  BY DEF QInit
<1>2. QTypeOK
  BY <1>1 DEF QInit, QTypeOK, QNodes
<1>3. NoDuplicates(holds)
  BY <1>1 DEF NoDuplicates
<1>4. RingLinked
  BY <1>1 DEF RingLinked, Place, QInit, QNodes
<1>5. WalkRight
  BY DEF QInit, WalkRight
<1> QED BY <1>2, <1>3, <1>4, <1>5 DEF QInv, LinksRight, QTypeOK

\* Entries put at an end of a queue, and an entry taken out.
LEMMA TailKeeps ==
  ASSUME QInv, NEW q \in QHeads, NEW e \in QEntries, Out(e), LinkTail(q, e), holds' = Enqueue(holds, q, e)
  PROVE  LinksRight'
BY LinkTailRings, EnqueueFacts DEF QInv, LinksRight, Out

LEMMA HeadKeeps ==
  ASSUME QInv, NEW q \in QHeads, NEW e \in QEntries, Out(e), LinkHead(q, e), holds' = EnqueueFirst(holds, q, e)
  PROVE  LinksRight'
BY LinkHeadRings, EnqueueFirstFacts DEF QInv, LinksRight, Out

LEMMA UnlinkKeeps ==
  ASSUME QInv, NEW q \in QHeads, NEW k \in 1 .. Len(holds[q]),
         next' = [next EXCEPT ![Place(q, k - 1)] = Place(q, k + 1)],
         prev' = [prev EXCEPT ![Place(q, k + 1)] = Place(q, k - 1)],
         holds' = Dequeue(holds, q, k)
  PROVE  LinksRight'
<1>1. /\ RingLinked'
      /\ next' \in [QNodes -> QNodes \cup {NoEntry}] /\ prev' \in [QNodes -> QNodes \cup {NoEntry}]
  BY UnlinkRings DEF QInv, LinksRight
<1>2. holds' \in [QHeads -> Seq(QEntries)] /\ NoDuplicates(holds')
  BY DequeueFacts DEF QInv, LinksRight
<1> QED BY <1>1, <1>2 DEF LinksRight

\* The links of the k-th entry.
LEMMA Neighbours ==
  ASSUME QInv, NEW q \in QHeads, NEW k \in 1 .. Len(holds[q])
  PROVE  /\ next[Place(q, k)] = Place(q, k + 1) /\ prev[Place(q, k)] = Place(q, k - 1)
         /\ Place(q, k) = holds[q][k] /\ holds[q][k] \in QEntries
<1>1. Len(holds[q]) \in Nat
  BY QPlaces DEF QInv
<1>2. k \in 0 .. Len(holds[q]) /\ k - 1 \in 0 .. Len(holds[q]) /\ (k - 1) + 1 = k
  BY <1>1
<1>3. next[Place(q, k)] = Place(q, k + 1)
  BY <1>2, RingAt DEF QInv, LinksRight
<1>4. prev[Place(q, (k - 1) + 1)] = Place(q, k - 1)
  BY <1>2, RingAt DEF QInv, LinksRight
<1> QED BY <1>2, <1>3, <1>4, QPlaces DEF QInv

LEMMA RmqueueKeeps ==
  ASSUME QInv, NEW q \in QHeads, NEW k \in 1 .. Len(holds[q]), Unlink(holds[q][k]),
         holds' = Dequeue(holds, q, k)
  PROVE  LinksRight'
<1>1. /\ next[holds[q][k]] = Place(q, k + 1)
      /\ prev[holds[q][k]] = Place(q, k - 1)
  BY Neighbours
<1>2. /\ prev' = [prev EXCEPT ![next[holds[q][k]]] = prev[holds[q][k]]]
      /\ next' = [next EXCEPT ![prev[holds[q][k]]] = next[holds[q][k]]]
  BY DEF Unlink
<1>3. /\ next' = [next EXCEPT ![Place(q, k - 1)] = Place(q, k + 1)]
      /\ prev' = [prev EXCEPT ![Place(q, k + 1)] = Place(q, k - 1)]
  BY <1>1, <1>2
<1> QED BY <1>3, UnlinkKeeps

\* A walk whose queue and loop variables stay does not see what else changes.
LEMMA WalkKept ==
  ASSUME WalkRight, UNCHANGED walk, of # NoEntry => holds'[of] = holds[of]
  PROVE  WalkRight'
<1>0. of' = of /\ qe' = qe /\ qe_prev' = qe_prev /\ due' = due
  BY DEF walk
<1> SUFFICES ASSUME of # NoEntry
             PROVE  \E k \in 1 .. Len(holds'[of]) + 1 : AtPlace(k)' \/ BeforePlace(k)'
  BY <1>0 DEF WalkRight
<1>1. PICK k \in 1 .. Len(holds[of]) + 1 : AtPlace(k) \/ BeforePlace(k)
  BY DEF WalkRight
<1>2. \A i : Place(of, i)' = Place(of, i)
  BY <1>0 DEF Place
<1>3. AtPlace(k) => AtPlace(k)'
  BY <1>0, <1>2 DEF AtPlace
<1>4. BeforePlace(k) => BeforePlace(k)'
  BY <1>0, <1>2 DEF BeforePlace
<1> QED BY <1>1, <1>3, <1>4

\* The ends of a queue.
LEMMA Ends ==
  ASSUME QInv, NEW q \in QHeads
  PROVE  /\ Len(holds[q]) \in Nat
         /\ next[q] = Place(q, 1) /\ prev[Place(q, 1)] = q
         /\ prev[q] = Place(q, Len(holds[q])) /\ next[Place(q, Len(holds[q]))] = q
         /\ next[q] = q <=> Len(holds[q]) = 0
         /\ prev[q] = q <=> Len(holds[q]) = 0
<1>1. Len(holds[q]) \in Nat /\ Place(q, 0) = q /\ Place(q, Len(holds[q]) + 1) = q
  BY QPlaces DEF QInv
<1>2. 0 \in 0 .. Len(holds[q]) /\ 0 + 1 = 1 /\ Len(holds[q]) \in 0 .. Len(holds[q])
  BY <1>1
<1>3. next[Place(q, 0)] = Place(q, 0 + 1) /\ prev[Place(q, 0 + 1)] = Place(q, 0)
  BY <1>2, RingAt DEF QInv, LinksRight
<1>4. /\ next[Place(q, Len(holds[q]))] = Place(q, Len(holds[q]) + 1)
      /\ prev[Place(q, Len(holds[q]) + 1)] = Place(q, Len(holds[q]))
  BY <1>2, RingAt DEF QInv, LinksRight
<1>5. Len(holds[q]) # 0 => Place(q, 1) # q /\ Place(q, Len(holds[q])) # q
  <2>1. Len(holds[q]) # 0 => 1 \in 1 .. Len(holds[q]) /\ Len(holds[q]) \in 1 .. Len(holds[q])
    BY <1>1
  <2> QED BY <2>1, QPlaces, QueueAssumption DEF QInv
<1>6. Len(holds[q]) = 0 => Place(q, 1) = q
  BY <1>1
<1> QED BY <1>1, <1>2, <1>3, <1>4, <1>5, <1>6

\* What a step on one queue that is not walked leaves to show.
LEMMA CallKeeps ==
  ASSUME QInv, LinksRight', result' \in QEntries \cup {NoEntry}, UNCHANGED walk,
         of # NoEntry => holds'[of] = holds[of]
  PROVE  QInv'
<1>1. WalkRight'
  BY WalkKept DEF QInv
<1>2. QTypeOK'
  BY DEF QInv, QTypeOK, LinksRight, walk
<1> QED BY <1>1, <1>2 DEF QInv

LEMMA PutKeeps ==
  ASSUME QInv, NEW q \in QHeads, NEW e \in QEntries, EnqueueHead(q, e) \/ EnqueueTail(q, e)
  PROVE  QInv'
<1>1. LinksRight'
  BY TailKeeps, HeadKeeps DEF EnqueueHead, EnqueueTail
<1>2. result' \in QEntries \cup {NoEntry} /\ UNCHANGED walk
  BY DEF EnqueueHead, EnqueueTail
<1>3. of # NoEntry => holds'[of] = holds[of]
  BY DEF EnqueueHead, EnqueueTail, Unlocked, Enqueue, EnqueueFirst, QInv, QTypeOK
<1> QED BY <1>1, <1>2, <1>3, CallKeeps

LEMMA DequeueHeadKeeps ==
  ASSUME QInv, NEW q \in QHeads, DequeueHead(q)
  PROVE  QInv' /\ result' = holds[q][1]
<1>1. 1 \in 1 .. Len(holds[q]) /\ 1 - 1 = 0 /\ Place(q, 0) = q
  BY Ends, QPlaces DEF DequeueHead, QInv
<1>2. /\ next[q] = Place(q, 1) /\ next[Place(q, 1)] = Place(q, 1 + 1)
      /\ Place(q, 1) = holds[q][1] /\ holds[q][1] \in QEntries
  BY <1>1, Ends, Neighbours
<1>3. /\ next' = [next EXCEPT ![Place(q, 1 - 1)] = Place(q, 1 + 1)]
      /\ prev' = [prev EXCEPT ![Place(q, 1 + 1)] = Place(q, 1 - 1)]
      /\ holds' = Dequeue(holds, q, 1) /\ result' = holds[q][1]
  BY <1>1, <1>2 DEF DequeueHead
<1>4. LinksRight'
  BY <1>1, <1>3, UnlinkKeeps
<1>5. of # NoEntry => holds'[of] = holds[of]
  BY DEF DequeueHead, Unlocked, Dequeue, QInv, QTypeOK
<1> QED BY <1>2, <1>3, <1>4, <1>5, CallKeeps DEF DequeueHead

LEMMA DequeueTailKeeps ==
  ASSUME QInv, NEW q \in QHeads, DequeueTail(q)
  PROVE  QInv' /\ result' = holds[q][Len(holds[q])]
<1>0. PICK N \in Nat : N = Len(holds[q])
  BY QPlaces DEF QInv
<1>1. N \in 1 .. Len(holds[q]) /\ Place(q, N + 1) = q
  BY <1>0, Ends, QPlaces DEF DequeueTail, QInv
<1>2. /\ prev[q] = Place(q, N) /\ prev[Place(q, N)] = Place(q, N - 1)
      /\ Place(q, N) = holds[q][N] /\ holds[q][N] \in QEntries
  BY <1>0, <1>1, Ends, Neighbours
<1>3. /\ next' = [next EXCEPT ![Place(q, N - 1)] = Place(q, N + 1)]
      /\ prev' = [prev EXCEPT ![Place(q, N + 1)] = Place(q, N - 1)]
      /\ holds' = Dequeue(holds, q, N) /\ result' = holds[q][N]
  BY <1>0, <1>1, <1>2 DEF DequeueTail
<1>4. LinksRight'
  BY <1>1, <1>3, UnlinkKeeps
<1>5. of # NoEntry => holds'[of] = holds[of]
  BY DEF DequeueTail, Unlocked, Dequeue, QInv, QTypeOK
<1>6. QInv'
  BY <1>2, <1>3, <1>4, <1>5, CallKeeps DEF DequeueTail
<1> QED BY <1>0, <1>3, <1>6

LEMMA DequeueEmptyKeeps ==
  ASSUME QInv, NEW q \in QHeads, DequeueEmpty(q)
  PROVE  QInv' /\ Len(holds[q]) = 0 /\ result' = NoEntry
<1>1. LinksRight'
  BY DEF DequeueEmpty, QInv, LinksRight, RingLinked, Place
<1>2. QInv'
  BY <1>1, CallKeeps DEF DequeueEmpty
<1> QED BY <1>2, Ends DEF DequeueEmpty

LEMMA RmQueueStep ==
  ASSUME QInv, NEW q \in QHeads, NEW k \in 1 .. Len(holds[q]), RmQueue(q, k)
  PROVE  QInv'
<1>1. LinksRight'
  BY RmqueueKeeps DEF RmQueue
<1>2. result' \in QEntries
  BY Neighbours DEF RmQueue
<1>3. of # NoEntry => holds'[of] = holds[of]
  BY DEF RmQueue, Unlocked, Dequeue, QInv, QTypeOK
<1> QED BY <1>1, <1>2, <1>3, CallKeeps DEF RmQueue

\* A step of the loop alone leaves the rings.
LEMMA LoopKeeps ==
  ASSUME QInv, UNCHANGED <<links, result, holds>>,
         of' \in QHeads \cup {NoEntry}, due' \in Seq(QEntries),
         qe' \in QNodes \cup {NoEntry}, qe_prev' \in QNodes \cup {NoEntry},
         WalkRight'
  PROVE  QInv'
<1>1. LinksRight'
  BY DEF QInv, LinksRight, RingLinked, Place, links
<1>2. QTypeOK'
  BY DEF QInv, QTypeOK, links
<1> QED BY <1>1, <1>2 DEF QInv

LEMMA IterStartKeeps ==
  ASSUME QInv, NEW q \in QHeads, IterStart(q)
  PROVE  QInv'
<1>1. /\ of' = q /\ qe' = Place(q, 1) /\ qe_prev' = Place(q, 0) /\ due' = holds[q] /\ holds' = holds
      /\ Place(q, 1) \in QNodes /\ Place(q, 0) \in QNodes
  BY Ends, QPlaces DEF IterStart, QInv
<1>2. \A i : Place(of, i)' = Place(q, i)
  BY <1>1 DEF Place
<1>3. Len(holds[q]) \in Nat /\ 1 \in 1 .. Len(holds'[of']) + 1 /\ 1 - 1 = 0
  BY <1>1, QPlaces DEF QInv
<1>4. AtPlace(1)'
  <2>1. Len(due') = Len(holds'[of']) - 1 + 1
    BY <1>1, <1>3
  <2>2. \A j \in 1 .. Len(due') : due'[j] = holds'[of'][1 + j - 1]
    BY <1>1, <1>3
  <2> QED BY <1>1, <1>2, <1>3, <2>1, <2>2 DEF AtPlace
<1>5. WalkRight'
  BY <1>3, <1>4 DEF WalkRight
<1>6. due' \in Seq(QEntries)
  BY <1>1, QPlaces DEF QInv
<1> QED BY <1>1, <1>5, <1>6, LoopKeeps DEF IterStart

LEMMA IterEndKeeps ==
  ASSUME QInv, IterEnd
  PROVE  QInv'
<1>1. WalkRight' /\ due' \in Seq(QEntries)
  BY DEF IterEnd, WalkRight
<1> QED BY <1>1, LoopKeeps DEF IterEnd

\* queue_next_safe of a loop that is at the k-th place, or at an entry taken
\* out in front of it.
LEMMA IterNextKeeps ==
  ASSUME QInv, IterNext
  PROVE  QInv'
<1>1. of \in QHeads /\ of # NoEntry /\ qe # of
  BY DEF IterNext, QInv, QTypeOK
<1>2. PICK k \in 1 .. Len(holds[of]) + 1 : AtPlace(k) \/ BeforePlace(k)
  BY <1>1 DEF QInv, WalkRight
<1>3. PICK N \in Nat : N = Len(holds[of])
  BY <1>1, QPlaces DEF QInv
<1>4. holds' = holds /\ of' = of /\ due' = Tail(due) /\ qe' = NextSafe /\ qe_prev' = prev[NextSafe]
  BY DEF IterNext
<1>5. \A i : Place(of, i)' = Place(of, i)
  BY <1>4 DEF Place
<1>6. Place(of, N + 1) = of /\ \A i \in Int : Place(of, i) \in QNodes
  BY <1>1, <1>3, QPlaces DEF QInv
<1>7. /\ \A i \in 0 .. N : next[Place(of, i)] = Place(of, i + 1) /\ prev[Place(of, i + 1)] = Place(of, i)
  BY <1>1, <1>3, RingAt DEF QInv, LinksRight
<1>8. ASSUME due # <<>>
      PROVE  /\ due' \in Seq(QEntries) /\ Len(due') = Len(due) - 1
             /\ \A i \in 1 .. Len(due') : due'[i] = due[i + 1]
  <2>1. due \in Seq(QEntries)
    BY DEF QInv, QTypeOK
  <2> QED BY <1>4, <1>8, <2>1, HeadTailProperties
<1>9. ASSUME NEW m \in 1 .. N + 1, due # <<>>,
             NextSafe = Place(of, m), Len(due) = N - m + 2,
             \A j \in 2 .. Len(due) : due[j] = holds[of][m + j - 2]
      PROVE  QInv'
  <2>1. qe' = Place(of, m) /\ qe_prev' = Place(of, m - 1)
    <3>1. m - 1 \in 0 .. N /\ (m - 1) + 1 = m
      OBVIOUS
    <3> QED BY <1>4, <1>7, <1>9, <3>1
  <2>2. Len(due') = N - m + 1
    BY <1>8, <1>9
  <2>3. ASSUME NEW j \in 1 .. Len(due') PROVE due'[j] = holds[of][m + j - 1]
    <3>1. j + 1 \in 2 .. Len(due) /\ m + (j + 1) - 2 = m + j - 1
      BY <1>8, <1>9, <2>2
    <3> QED BY <1>8, <1>9, <3>1
  <2>4. AtPlace(m)'
    BY <1>3, <1>4, <1>5, <2>1, <2>2, <2>3 DEF AtPlace
  <2>5. WalkRight'
    BY <1>3, <1>4, <2>4 DEF WalkRight
  <2>6. qe' \in QNodes /\ qe_prev' \in QNodes /\ due' \in Seq(QEntries)
    BY <1>6, <1>8, <1>9, <2>1
  <2> QED BY <1>1, <1>4, <2>5, <2>6, LoopKeeps DEF IterNext
<1>10. Len(due) \in Nat /\ (due = <<>> <=> Len(due) = 0)
  <2>1. due \in Seq(QEntries)
    BY DEF QInv, QTypeOK
  <2> QED BY <2>1, EmptySeq, LenProperties
<1>11. CASE AtPlace(k)
  <2>1. qe = Place(of, k) /\ qe_prev = Place(of, k - 1) /\ Len(due) = N - k + 1
    BY <1>3, <1>11 DEF AtPlace
  <2>2. k \in 1 .. N
    BY <1>1, <1>2, <1>3, <1>6, <2>1
  <2>3. next[Place(of, k - 1)] = Place(of, k) /\ next[Place(of, k)] = Place(of, k + 1)
    <3>1. k - 1 \in 0 .. N /\ (k - 1) + 1 = k /\ k \in 0 .. N
      BY <2>2
    <3> QED BY <1>7, <3>1
  <2>4. NextSafe = Place(of, k + 1)
    BY <2>1, <2>3 DEF NextSafe
  <2>5. due # <<>> /\ k + 1 \in 1 .. N + 1 /\ Len(due) = N - (k + 1) + 2
    BY <1>10, <2>1, <2>2
  <2>6. ASSUME NEW j \in 2 .. Len(due) PROVE due[j] = holds[of][(k + 1) + j - 2]
    <3>1. j \in 1 .. Len(due) /\ (k + 1) + j - 2 = k + j - 1
      BY <2>2
    <3> QED BY <1>11, <3>1 DEF AtPlace
  <2> QED BY <1>9, <2>4, <2>5, <2>6
<1>12. CASE BeforePlace(k)
  <2>1. qe_prev = Place(of, k - 1) /\ Len(due) = N - k + 2 /\ k \in 1 .. N + 1
    BY <1>2, <1>3, <1>12 DEF BeforePlace
  <2>2. next[Place(of, k - 1)] = Place(of, k)
    <3>1. k - 1 \in 0 .. N /\ (k - 1) + 1 = k
      BY <2>1
    <3> QED BY <1>7, <3>1
  <2>3. Place(of, k) # qe
    BY <1>1, <1>12 DEF BeforePlace, Place
  <2>4. NextSafe = Place(of, k)
    BY <2>1, <2>2, <2>3 DEF NextSafe
  <2>5. due # <<>>
    BY <1>10, <2>1
  <2>6. \A j \in 2 .. Len(due) : due[j] = holds[of][k + j - 2]
    BY <1>12 DEF BeforePlace
  <2> QED BY <1>9, <2>1, <2>4, <2>5, <2>6
<1> QED BY <1>2, <1>11, <1>12

\* A body that takes the entry it is at out leaves the walk in front of the
\* entry behind it.
LEMMA BodyRemovesKeeps ==
  ASSUME QInv, NEW k \in 1 .. Len(holds[of]), BodyRemoves(k)
  PROVE  QInv'
<1>1. of \in QHeads /\ of # NoEntry /\ qe # of /\ holds[of][k] = qe
  BY DEF BodyRemoves, Here, QInv, QTypeOK
<1>2. LinksRight'
  BY <1>1, RmqueueKeeps DEF BodyRemoves
<1>3. PICK N \in Nat : N = Len(holds[of])
  BY <1>1, QPlaces DEF QInv
<1>4. PICK m \in 1 .. Len(holds[of]) + 1 : AtPlace(m) \/ BeforePlace(m)
  BY <1>1 DEF QInv, WalkRight
<1>5. AtPlace(m)
  BY <1>1, <1>4 DEF BeforePlace
<1>6. m = k
  <2>1. m \in 1 .. N + 1 /\ k \in 1 .. N /\ N \in Nat
    BY <1>3, <1>4
  <2>2. Place(of, N + 1) = of /\ Place(of, m) = qe /\ Place(of, k) = qe
    BY <1>1, <1>3, <1>5, QPlaces DEF AtPlace, QInv
  <2>3. m # N + 1
    BY <1>1, <2>2
  <2>4. m \in 0 .. Len(holds[of]) /\ k \in 0 .. Len(holds[of])
    BY <1>3, <2>1, <2>3
  <2>5. QTypeOK /\ NoDuplicates(holds)
    BY DEF QInv, LinksRight
  <2> QED BY <1>1, <2>2, <2>4, <2>5, PlacesDiffer
<1>7. of' = of /\ qe' = qe /\ qe_prev' = qe_prev /\ due' = due /\ qe \in QEntries
  BY <1>1, Neighbours DEF BodyRemoves, walk
<1>8. /\ Len(holds'[of]) = N - 1
      /\ \A i \in 1 .. N - 1 : holds'[of][i] = IF i < k THEN holds[of][i] ELSE holds[of][i + 1]
  <2>1. holds[of] \in Seq(QEntries) /\ holds'[of] = RemoveAt(holds[of], k)
    BY <1>1, QPlaces DEF BodyRemoves, Dequeue, QInv, QTypeOK
  <2> QED BY <1>3, <2>1, RemoveAtFacts
<1>9. \A i \in 1 .. N - 1 : holds'[of][i] # qe
  <2> SUFFICES ASSUME NEW i \in 1 .. N - 1 PROVE holds'[of][i] # qe
    OBVIOUS
  <2>1. \A l \in 1 .. N : holds[of][l] = qe => l = k
    BY <1>1, <1>3 DEF QInv, QTypeOK, LinksRight, NoDuplicates
  <2>2. i \in 1 .. N /\ i + 1 \in 1 .. N
    BY <1>3
  <2>3. CASE i < k
    BY <1>8, <2>1, <2>2, <2>3
  <2>4. CASE ~(i < k)
    <3>1. i + 1 # k
      BY <1>3, <2>4
    <3> QED BY <1>8, <2>1, <2>2, <2>4, <3>1
  <2> QED BY <2>3, <2>4
<1>10. qe_prev = Place(of, k - 1)' 
  <2>1. qe_prev = Place(of, k - 1)
    BY <1>5, <1>6 DEF AtPlace
  <2>2. CASE k = 1
    BY <1>7, <2>1, <2>2 DEF Place
  <2>3. CASE k # 1
    <3>1. k - 1 \in 1 .. Len(holds[of]) /\ k - 1 \in 1 .. N - 1 /\ k - 1 < k /\ k - 1 \in 1 .. Len(holds'[of])
      BY <1>3, <1>8, <2>3
    <3> QED BY <1>7, <1>8, <2>1, <3>1 DEF Place
  <2> QED BY <2>2, <2>3
<1>11. Len(due) = (N - 1) - k + 2 /\ due[1] = qe
  <2>1. Len(due) = N - k + 1 /\ \A j \in 1 .. Len(due) : due[j] = holds[of][k + j - 1]
    BY <1>3, <1>5, <1>6 DEF AtPlace
  <2>2. k \in Nat /\ 1 \in 1 .. Len(due) /\ k + 1 - 1 = k /\ N - k + 1 = (N - 1) - k + 2
    BY <1>3, <2>1
  <2>3. due[1] = holds[of][k + 1 - 1]
    BY <2>1, <2>2
  <2> QED BY <1>1, <2>1, <2>2, <2>3
<1>12. ASSUME NEW j \in 2 .. Len(due) PROVE due[j] = holds'[of][k + j - 2]
  <2>1. /\ j \in 1 .. Len(due) /\ k + j - 2 \in 1 .. N - 1
        /\ ~(k + j - 2 < k) /\ k + j - 2 + 1 = k + j - 1
    BY <1>3, <1>11
  <2>2. due[j] = holds[of][k + j - 1]
    BY <1>5, <1>6, <2>1 DEF AtPlace
  <2> QED BY <1>8, <2>1, <2>2
<1>13. k \in 1 .. Len(holds'[of]) + 1
  BY <1>3, <1>8
<1>14. BeforePlace(k)'
  BY <1>7, <1>8, <1>9, <1>10, <1>11, <1>12 DEF BeforePlace
<1>15. WalkRight'
  BY <1>7, <1>13, <1>14 DEF WalkRight
<1>16. QTypeOK'
  BY <1>2, <1>7 DEF QInv, QTypeOK, LinksRight, BodyRemoves
<1> QED BY <1>2, <1>15, <1>16 DEF QInv

LEMMA BodyZeroesKeeps ==
  ASSUME QInv, BodyZeroes
  PROVE  QInv'
<1>1. of \in QHeads /\ of # NoEntry /\ qe # of /\ Out(qe) /\ holds' = holds
  BY DEF BodyZeroes, QInv, QTypeOK
<1>2. qe \in QEntries
  <2>1. PICK m \in 1 .. Len(holds[of]) + 1 : AtPlace(m) \/ BeforePlace(m)
    BY <1>1 DEF QInv, WalkRight
  <2>2. AtPlace(m) => qe = of \/ qe \in QEntries
    BY <1>1, QPlaces DEF AtPlace, Place, QInv
  <2> QED BY <1>1, <2>1, <2>2 DEF BeforePlace
<1>3. \A r \in QHeads : \A i \in Int : Place(r, i) # qe /\ Place(r, i) \in QNodes
  BY <1>1, <1>2, OutOfRings, QPlaces DEF QInv
<1>4. /\ \A n \in QNodes : n # qe => next'[n] = next[n] /\ prev'[n] = prev[n]
      /\ next' \in [QNodes -> QNodes \cup {NoEntry}] /\ prev' \in [QNodes -> QNodes \cup {NoEntry}]
  BY DEF BodyZeroes, QInv, QTypeOK
<1>5. RingLinked'
  <2> SUFFICES ASSUME NEW r \in QHeads, NEW i \in 0 .. Len(holds[r])
               PROVE  /\ next'[Place(r, i)] = Place(r, i + 1)
                      /\ prev'[Place(r, i + 1)] = Place(r, i)
    BY <1>1 DEF RingLinked, Place
  <2>1. i \in Int /\ i + 1 \in Int
    BY QPlaces DEF QInv
  <2>2. next[Place(r, i)] = Place(r, i + 1) /\ prev[Place(r, i + 1)] = Place(r, i)
    BY RingAt DEF QInv, LinksRight
  <2> QED BY <1>3, <1>4, <2>1, <2>2
<1>6. LinksRight'
  BY <1>1, <1>4, <1>5 DEF QInv, LinksRight
<1> QED BY <1>1, <1>6, CallKeeps DEF BodyZeroes, QInv, QTypeOK

LEMMA BodyLinksKeeps ==
  ASSUME QInv, NEW q \in QHeads, BodyLinks(q)
  PROVE  QInv'
<1>1. of \in QHeads /\ of # NoEntry /\ qe # of /\ Out(qe) /\ q # of
  BY DEF BodyLinks, QInv, QTypeOK
<1>2. qe \in QEntries
  <2>1. PICK m \in 1 .. Len(holds[of]) + 1 : AtPlace(m) \/ BeforePlace(m)
    BY <1>1 DEF QInv, WalkRight
  <2>2. AtPlace(m) => qe = of \/ qe \in QEntries
    BY <1>1, QPlaces DEF AtPlace, Place, QInv
  <2> QED BY <1>1, <2>1, <2>2 DEF BeforePlace
<1>3. LinksRight'
  BY <1>1, <1>2, TailKeeps DEF BodyLinks
<1>4. holds'[of] = holds[of]
  BY <1>1 DEF BodyLinks, Enqueue, QInv, QTypeOK
<1> QED BY <1>3, <1>4, CallKeeps DEF BodyLinks

LEMMA QueueStep == QInv /\ [QNext]_qvars => QInv'
<1> SUFFICES ASSUME QInv, [QNext]_qvars PROVE QInv'
  OBVIOUS
<1>1. CASE \E q \in QHeads : \E e \in QEntries : EnqueueHead(q, e) \/ EnqueueTail(q, e)
  BY <1>1, PutKeeps
<1>2. CASE \E q \in QHeads : \E k \in 1 .. Len(holds[q]) : RmQueue(q, k)
  BY <1>2, RmQueueStep
<1>3. CASE \E q \in QHeads : DequeueHead(q) \/ DequeueTail(q) \/ DequeueEmpty(q)
  BY <1>3, DequeueHeadKeeps, DequeueTailKeeps, DequeueEmptyKeeps
<1>4. CASE \E q \in QHeads : IterStart(q)
  BY <1>4, IterStartKeeps
<1>5. CASE IterNext
  BY <1>5, IterNextKeeps
<1>6. CASE IterEnd
  BY <1>6, IterEndKeeps
<1>7. CASE BodyZeroes
  BY <1>7, BodyZeroesKeeps
<1>8. CASE \E q \in QHeads : BodyLinks(q)
  BY <1>8, BodyLinksKeeps
<1>9. CASE \E k \in 1 .. Len(holds[of]) : BodyRemoves(k)
  BY <1>9, BodyRemovesKeeps
<1>10. CASE UNCHANGED qvars
  <2>1. LinksRight'
    BY <1>10 DEF QInv, LinksRight, RingLinked, Place, qvars
  <2> QED BY <1>10, <2>1, CallKeeps DEF qvars, walk, QInv, QTypeOK
<1> QED BY <1>1, <1>2, <1>3, <1>4, <1>5, <1>6, <1>7, <1>8, <1>9, <1>10 DEF QNext, Body

\* The links are well typed in every state.
THEOREM QueuesTyped == QSpec => []QTypeOK
<1>1. QInv => QTypeOK
  BY DEF QInv
<1> QED BY <1>1, QueueInit, QueueStep, PTL DEF QSpec

\* Whatever is linked, taken out and walked, every queue stays one closed ring
\* through its entries, the same in both directions.
THEOREM QueuesSafe == QSpec => []RingLinked
<1>1. QInv => RingLinked
  BY DEF QInv, LinksRight
<1> QED BY <1>1, QueueInit, QueueStep, PTL DEF QSpec

\* queue_iter_safe comes to every entry its queue held, in order and once,
\* whatever its body does with the one it is at.
THEOREM WalkSafe == QSpec => []VisitsAll
<1>1. ASSUME QInv PROVE VisitsAll
  <2> SUFFICES ASSUME of # NoEntry PROVE qe = IF due = <<>> THEN of ELSE Head(due)
    BY DEF VisitsAll
  <2>1. of \in QHeads /\ due \in Seq(QEntries)
    BY <1>1 DEF QInv, QTypeOK
  <2>2. PICK k \in 1 .. Len(holds[of]) + 1 : AtPlace(k) \/ BeforePlace(k)
    BY <1>1 DEF QInv, WalkRight
  <2>3. PICK N \in Nat : N = Len(holds[of])
    BY <1>1, <2>1, QPlaces DEF QInv
  <2>4. (due = <<>> <=> Len(due) = 0) /\ Len(due) \in Nat /\ (due # <<>> => Head(due) = due[1])
    BY <2>1, EmptySeq, LenProperties
  <2>5. CASE BeforePlace(k)
    BY <2>2, <2>3, <2>4, <2>5 DEF BeforePlace
  <2>6. CASE AtPlace(k) /\ k = N + 1
    <3>1. Len(due) = 0 /\ qe = of
      BY <1>1, <2>1, <2>3, <2>6, QPlaces DEF AtPlace, QInv
    <3> QED BY <2>4, <3>1
  <2>7. CASE AtPlace(k) /\ k # N + 1
    <3>1. /\ k \in 1 .. Len(holds[of]) /\ Len(due) = N - k + 1 /\ 1 \in 1 .. Len(due)
          /\ k + 1 - 1 = k /\ Len(due) # 0
      BY <2>2, <2>3, <2>7 DEF AtPlace
    <3>2. due[1] = holds[of][k]
      BY <2>7, <3>1 DEF AtPlace
    <3>3. qe = holds[of][k]
      BY <1>1, <2>1, <2>7, <3>1, QPlaces DEF AtPlace, QInv
    <3> QED BY <2>4, <3>1, <3>2, <3>3
  <2> QED BY <2>2, <2>5, <2>6, <2>7
<1> QED BY <1>1, QueueInit, QueueStep, PTL DEF QSpec

\* What a call returns is what the queue should give: its first entry, its
\* last, or none when it holds none.
Returned == \A q \in QHeads : /\ DequeueHead(q) => result' = holds[q][1]
                              /\ DequeueTail(q) => result' = holds[q][Len(holds[q])]
                              /\ DequeueEmpty(q) => Len(holds[q]) = 0

\* dequeue_head returns the first entry, dequeue_tail the last, and both none
\* only from a queue that holds none.
THEOREM DequeuesRight == QSpec => [][Returned]_qvars
<1>1. QInv => Returned
  BY DequeueHeadKeeps, DequeueTailKeeps, DequeueEmptyKeeps DEF Returned
<1>2. QInv /\ [QNext]_qvars => [Returned]_qvars
  BY <1>1
<1> QED BY <1>2, QueueInit, QueueStep, PTL DEF QSpec

---------------------------------------------------------------------------
(* IrqContext *)

\* A task owes a frame unless it is the one that runs, and its el1_stack_ptr
\* names that frame.
Running(t) == pc = "task" /\ t = curr

IrqInv ==
  /\ curr \in IrqTasks
  /\ pc \in {"boot", "task", "handler", "leaving", "restore"}
  /\ pc = "task" => sp = <<curr, 0>>
  /\ pc \in {"handler", "leaving", "restore"} => cont = curr
  /\ DOMAIN el1 = IrqTasks /\ DOMAIN owes = Stacks
  /\ mem \in [Stacks -> [1 .. MaxFrames -> {"task"}]]
  /\ \A t \in IrqTasks : owes[t] = IF Running(t) THEN <<>> ELSE <<"task">>
  /\ \A t \in IrqTasks : ~Running(t) => el1[t] = <<t, 1>>

\* Nothing is raised before sched_start.
BootQuiet == pc = "boot" => pending = {}

\* An interrupt is taken by a task that runs: neither by the boot code nor
\* between handle_irq or sched_exit and the restore.
TaskTakes == TakeIrq => pc = "task"

LEMMA IrqInit == IInit => IrqInv
<1> USE IrqAssumption DEF Stacks
<1> SUFFICES ASSUME IInit PROVE IrqInv
  OBVIOUS
<1>1. \A t \in IrqTasks : t # Boot /\ ~Running(t)
  BY DEF IInit, Running
<1> QED BY <1>1 DEF IInit, IrqInv

\* What goes on a task's stack when it stops running.
LEMMA IrqSave ==
  ASSUME IrqInv, pc = "task", Save("task")
  PROVE  /\ DOMAIN el1' = IrqTasks /\ DOMAIN owes' = Stacks
         /\ mem' \in [Stacks -> [1 .. MaxFrames -> {"task"}]]
         /\ \A t \in IrqTasks : owes'[t] = <<"task">> /\ el1'[t] = <<t, 1>>
<1> USE IrqAssumption DEF Stacks
<1>1. sp = <<curr, 0>> /\ curr \in IrqTasks /\ curr # Junk
  BY DEF IrqInv
<1>2. /\ mem' = [mem EXCEPT ![curr][1] = "task"]
      /\ el1' = [el1 EXCEPT ![curr] = <<curr, 1>>]
      /\ owes' = [owes EXCEPT ![curr] = Append(@, "task")]
  BY <1>1 DEF Save
<1>3. owes[curr] = <<>> /\ \A t \in IrqTasks : t # curr => owes[t] = <<"task">> /\ el1[t] = <<t, 1>>
  BY DEF IrqInv, Running
<1>4. mem' \in [Stacks -> [1 .. MaxFrames -> {"task"}]]
  BY <1>1, <1>2 DEF IrqInv
<1> QED BY <1>1, <1>2, <1>3, <1>4 DEF IrqInv

LEMMA IrqStep ==
  ASSUME IrqInv, [INext]_ivars, [TaskTakes]_ivars
  PROVE  IrqInv'
<1> USE IrqAssumption DEF Stacks
<1>1. CASE Tick
  BY <1>1 DEF Tick, IrqInv, Running
<1>2. CASE TakeIrq /\ ~ UNCHANGED ivars
  <2>1. pc = "task"
    BY <1>2 DEF TaskTakes
  <2>2. Save("task") /\ pc' = "handler" /\ curr' = curr /\ cont' = curr
    BY <1>2, <2>1 DEF TakeIrq, IrqInv
  <2> QED BY <2>1, <2>2, IrqSave DEF IrqInv, Running
<1>3. CASE HandlerStep \/ SchedStart
  BY <1>3 DEF HandlerStep, HandleTimer, HandleMbox, Leave, Adjust, SwitchAsync, SwitchTo,
              SchedStart, IrqInv, Running
<1>4. ASSUME NEW t \in IrqTasks, SwitchSync(t) PROVE IrqInv'
  <2>1. pc = "task" /\ Save("task") /\ pc' = "restore" /\ curr' = t /\ cont' = t
    BY <1>4 DEF SwitchSync, SwitchTo
  <2> QED BY <2>1, IrqSave DEF IrqInv, Running
<1>5. CASE RestoreContext
  <2>1. pc = "restore" /\ cont = curr /\ el1[curr] = <<curr, 1>> /\ owes[curr] = <<"task">>
        /\ curr \in IrqTasks /\ curr # Junk
    BY <1>5 DEF RestoreContext, IrqInv, Running
  <2>2. 1 \in 1 .. MaxFrames /\ mem[curr][1] = "task"
    BY <2>1 DEF IrqInv
  <2>3. Resumed = "task"
    BY <2>1, <2>2 DEF Resumed
  <2>4. owes' = [owes EXCEPT ![curr] = <<>>]
    <3>1. SubSeq(<<"task">>, 1, Len(<<"task">>) - 1) = <<>>
      OBVIOUS
    <3> QED BY <1>5, <2>1, <3>1 DEF RestoreContext
  <2>5. pc' = "task" /\ curr' = curr /\ sp' = <<curr, 0>> /\ UNCHANGED <<el1, mem, pending, cont>>
    BY <1>5, <2>1, <2>3 DEF RestoreContext
  <2> QED BY <2>1, <2>4, <2>5 DEF IrqInv, Running
<1>6. CASE UNCHANGED ivars
  BY <1>6 DEF ivars, IrqInv, Running
<1> QED BY <1>1, <1>2, <1>3, <1>4, <1>5, <1>6 DEF INext

\* When interrupts are masked until the restore's eret and the timer is started
\* behind sched_start, only a task that runs is interrupted.
LEMMA BootStep ==
  ASSUME MaskedRestore, TickAfterStart, IrqInv, BootQuiet, [INext]_ivars
  PROVE  [TaskTakes]_ivars /\ BootQuiet'
<1>1. TaskTakes
  BY DEF TaskTakes, TakeIrq, Unmasked, IrqInv, BootQuiet
<1>2. IrqInv'
  BY <1>1, IrqStep
<1>3. BootQuiet'
  <2>1. CASE RestoreContext
    <3>1. pc = "restore" /\ pc' = Resumed /\ curr' = curr /\ el1' = el1 /\ mem' = mem
      BY <2>1 DEF RestoreContext
    <3>2. el1[curr] = <<curr, 1>> /\ curr \in IrqTasks
      BY <3>1 DEF IrqInv, Running
    <3>3. mem[curr][1] = "task" /\ curr # Junk
      BY <3>2, IrqAssumption DEF IrqInv, Stacks
    <3>4. Resumed = "task"
      BY <3>2, <3>3 DEF Resumed
    <3> QED BY <3>1, <3>4 DEF BootQuiet
  <2>2. CASE ~RestoreContext
    BY <2>2 DEF INext, ivars, BootQuiet, Tick, MayTick, TakeIrq, HandlerStep, HandleTimer, HandleMbox,
                Leave, Adjust, SwitchAsync, SwitchSync, SwitchTo, SchedStart
  <2> QED BY <2>1, <2>2
<1> QED BY <1>1, <1>3

\* The frames as they are: as long as only a task that runs is interrupted, every
\* restore resumes the frame that its context was last saved in
\* (TASK_RESTORE_CONTEXT), on any number of tasks.  The interrupts that handle_irq
\* and sched_exit enable too early, and those before sched_start, are all that is wrong.
THEOREM RestoresUndisturbed == ISpec /\ [][TaskTakes]_ivars => []RestoresOwn
<1> USE IrqAssumption DEF Stacks
<1>1. IrqInv => RestoresOwn
  <2> SUFFICES ASSUME IrqInv, pc = "restore"
               PROVE  /\ cont # Junk /\ el1[curr] = <<cont, Len(owes[cont])>>
                      /\ Resumed = owes[cont][Len(owes[cont])]
    BY DEF RestoresOwn
  <2>1. cont = curr /\ el1[curr] = <<curr, 1>> /\ owes[curr] = <<"task">>
        /\ curr \in IrqTasks /\ curr # Junk
    BY DEF IrqInv, Running
  <2>2. Resumed = "task"
    BY <2>1 DEF Resumed, IrqInv
  <2> QED BY <2>1, <2>2
<1>2. IrqInv /\ [INext]_ivars /\ [TaskTakes]_ivars => IrqInv'
  BY IrqStep
<1> QED BY <1>1, <1>2, IrqInit, PTL DEF ISpec

\* With interrupts masked until the restore's eret, and the timer started
\* behind sched_start, every restore resumes the frame that its context was
\* last saved in: TASK_RESTORE_CONTEXT, on any number of tasks.
THEOREM RestoresSafe == MaskedRestore /\ TickAfterStart => (ISpec => []RestoresOwn)
<1> SUFFICES ASSUME MaskedRestore, TickAfterStart PROVE ISpec => []RestoresOwn
  OBVIOUS
<1>1. IInit => BootQuiet
  BY DEF IInit, BootQuiet
<1>2. IrqInv /\ BootQuiet /\ [INext]_ivars => [TaskTakes]_ivars /\ BootQuiet'
  BY BootStep
<1>3. IrqInv /\ [INext]_ivars /\ [TaskTakes]_ivars => IrqInv'
  BY IrqStep
<1> QED BY <1>1, <1>2, <1>3, IrqInit, RestoresUndisturbed, PTL DEF ISpec

---------------------------------------------------------------------------
(* Slock *)

SlockTypes == /\ spot \in [LockTasks -> {"out", "try", "count", "sleep", "in", "signal"}]
              /\ sleepers \in Seq(LockTasks)

\* SlockInv by the positions of the queue.
SleepersRight ==
  /\ \A k \in 1 .. Len(sleepers) : spot[sleepers[k]] = "sleep"
  /\ \A t \in LockTasks : spot[t] = "sleep" => \E k \in 1 .. Len(sleepers) : sleepers[k] = t
  /\ \A k, l \in 1 .. Len(sleepers) : sleepers[k] = sleepers[l] => k = l

SlockGood ==
  /\ SlockTypes
  /\ lock \in {0, 1}
  /\ lock = 1 <=> \E t \in LockTasks : Holds(t)
  /\ \A t, u \in LockTasks : Holds(t) /\ Holds(u) => t = u
  /\ SleepersRight

LEMMA SlockInit == SInit => SlockGood
BY DEF SInit, SlockGood, SlockTypes, SleepersRight, Holds

\* The k-th sleeper leaves its queue and tries again.
LEMMA WakesUp ==
  ASSUME SlockTypes, SleepersRight, NEW k \in 1 .. Len(sleepers),
         spot' \in [LockTasks -> {"out", "try", "count", "sleep", "in", "signal"}],
         \A t \in LockTasks : (spot'[t] = "sleep" <=> spot[t] = "sleep" /\ t # sleepers[k]),
         sleepers' = RemoveAt(sleepers, k)
  PROVE  sleepers' \in Seq(LockTasks) /\ SleepersRight'
<1>1. sleepers \in Seq(LockTasks) /\ Len(sleepers) \in Nat
  BY LenProperties DEF SlockTypes
<1>2. /\ sleepers' \in Seq(LockTasks) /\ Len(sleepers') = Len(sleepers) - 1
      /\ \A j \in 1 .. Len(sleepers) - 1 :
           sleepers'[j] = IF j < k THEN sleepers[j] ELSE sleepers[j + 1]
  BY <1>1, RemoveAtFacts
<1> DEFINE Old(j) == IF j < k THEN j ELSE j + 1
<1>3. ASSUME NEW j \in 1 .. Len(sleepers')
      PROVE  Old(j) \in 1 .. Len(sleepers) /\ Old(j) # k /\ sleepers'[j] = sleepers[Old(j)]
  BY <1>1, <1>2
<1>4. ASSUME NEW j \in 1 .. Len(sleepers') PROVE spot'[sleepers'[j]] = "sleep"
  <2> HIDE DEF Old
  <2>1. sleepers[Old(j)] # sleepers[k] /\ sleepers[Old(j)] \in LockTasks
    BY <1>1, <1>3, ElementOfSeq DEF SleepersRight
  <2>2. spot[sleepers[Old(j)]] = "sleep"
    BY <1>3 DEF SleepersRight
  <2> QED BY <1>3, <2>1, <2>2
<1>5. ASSUME NEW t \in LockTasks, spot'[t] = "sleep"
      PROVE  \E j \in 1 .. Len(sleepers') : sleepers'[j] = t
  <2>1. PICK l \in 1 .. Len(sleepers) : sleepers[l] = t
    BY <1>5 DEF SleepersRight
  <2>2. l # k
    BY <1>5, <2>1
  <2>3. CASE l < k
    BY <1>1, <1>2, <2>1, <2>3
  <2>4. CASE l > k
    <3>1. l - 1 \in 1 .. Len(sleepers) - 1 /\ ~(l - 1 < k) /\ (l - 1) + 1 = l
      BY <1>1, <2>4
    <3> QED BY <1>2, <2>1, <3>1
  <2> QED BY <1>1, <2>2, <2>3, <2>4
<1>6. ASSUME NEW j \in 1 .. Len(sleepers'), NEW l \in 1 .. Len(sleepers'), sleepers'[j] = sleepers'[l]
      PROVE  j = l
  <2>1. Old(j) = Old(l)
    <3> HIDE DEF Old
    <3> QED BY <1>3, <1>6 DEF SleepersRight
  <2>2. j \in Nat /\ l \in Nat
    BY <1>1, <1>2
  <2> QED BY <2>1, <2>2
<1> QED BY <1>2, <1>4, <1>5, <1>6 DEF SleepersRight

LEMMA SlockStep == ASSUME SlockGood, [SNext]_svars PROVE SlockGood'
<1> SUFFICES ASSUME NEW t \in LockTasks, LockSlock(t) \/ SStep(t) PROVE SlockGood'
  BY DEF SNext, svars, SlockGood, SlockTypes, SleepersRight, Holds
<1>0. sleepers \in Seq(LockTasks) /\ Len(sleepers) \in Nat
  BY LenProperties DEF SlockGood, SlockTypes
<1>1. CASE LockSlock(t) \/ TryTakes(t) \/ TryFails(t) \/ Again(t) \/ Unlock(t) \/ SignalNone(t)
  <2>1. /\ sleepers' = sleepers /\ spot' \in [LockTasks -> {"out", "try", "count", "sleep", "in", "signal"}]
        /\ \A u \in LockTasks : spot'[u] = "sleep" <=> spot[u] = "sleep"
    BY <1>1 DEF LockSlock, TryTakes, TryFails, Again, Unlock, SignalNone, Goes, SlockGood, SlockTypes
  <2>2. SleepersRight'
    <3>1. \A k \in 1 .. Len(sleepers) : sleepers[k] \in LockTasks
      BY <1>0, ElementOfSeq
    <3> QED BY <2>1, <3>1 DEF SleepersRight, SlockGood
  <2> QED BY <1>1, <2>1, <2>2 DEF LockSlock, TryTakes, TryFails, Again, Unlock, SignalNone, Goes,
                                  LockFree, Holds, SlockGood, SlockTypes
<1>2. CASE Sleep(t)
  <2>1. /\ spot[t] = "count" /\ spot' = [spot EXCEPT ![t] = "sleep"]
        /\ sleepers' = Append(sleepers, t) /\ lock' = lock
    BY <1>2 DEF Sleep, Goes
  <2>2. /\ sleepers' \in Seq(LockTasks) /\ Len(sleepers') = Len(sleepers) + 1
        /\ \A k \in 1 .. Len(sleepers) : sleepers'[k] = sleepers[k]
        /\ sleepers'[Len(sleepers) + 1] = t
    BY <1>0, <2>1, AppendProperties
  <2>3. \A k \in 1 .. Len(sleepers) : sleepers[k] \in LockTasks /\ sleepers[k] # t
    BY <1>0, <2>1, ElementOfSeq DEF SlockGood, SleepersRight
  <2>4. \A k : k \in 1 .. Len(sleepers') <=> k \in 1 .. Len(sleepers) \/ k = Len(sleepers) + 1
    BY <1>0, <2>2
  <2>5. spot' \in [LockTasks -> {"out", "try", "count", "sleep", "in", "signal"}]
    BY <2>1 DEF SlockGood, SlockTypes
  <2>6. \A k \in 1 .. Len(sleepers') : spot'[sleepers'[k]] = "sleep"
    BY <2>1, <2>2, <2>3, <2>4 DEF SlockGood, SlockTypes, SleepersRight
  <2>7. \A u \in LockTasks : spot'[u] = "sleep" => \E k \in 1 .. Len(sleepers') : sleepers'[k] = u
    <3> SUFFICES ASSUME NEW u \in LockTasks, spot'[u] = "sleep"
                 PROVE  \E k \in 1 .. Len(sleepers') : sleepers'[k] = u
      OBVIOUS
    <3>1. CASE u = t
      BY <2>2, <2>4, <3>1
    <3>2. CASE u # t
      <4>1. PICK k \in 1 .. Len(sleepers) : sleepers[k] = u
        BY <2>1, <3>2 DEF SlockGood, SlockTypes, SleepersRight
      <4> QED BY <2>2, <2>4, <4>1
    <3> QED BY <3>1, <3>2
  <2>8. \A k, l \in 1 .. Len(sleepers') : sleepers'[k] = sleepers'[l] => k = l
    BY <2>2, <2>3, <2>4 DEF SlockGood, SleepersRight
  <2> QED BY <2>1, <2>2, <2>5, <2>6, <2>7, <2>8 DEF SlockGood, SlockTypes, SleepersRight, Holds
<1>3. CASE TimesOut(t)
  <2>1. PICK k \in DOMAIN sleepers : sleepers[k] = t /\ sleepers' = RemoveAt(sleepers, k)
    BY <1>3 DEF TimesOut
  <2>2. k \in 1 .. Len(sleepers) /\ lock' = lock /\ spot[t] = "sleep" /\ spot' = [spot EXCEPT ![t] = "try"]
    BY <1>0, <1>3, <2>1, LenProperties DEF TimesOut, Goes
  <2>3. sleepers' \in Seq(LockTasks) /\ SleepersRight'
    BY <2>1, <2>2, WakesUp DEF SlockGood, SlockTypes
  <2> QED BY <2>2, <2>3 DEF SlockGood, SlockTypes, Holds
<1>4. CASE SignalFirst(t)
  <2>1. /\ sleepers # <<>> /\ Head(sleepers) = sleepers[1] /\ 1 \in 1 .. Len(sleepers)
        /\ sleepers[1] \in LockTasks /\ spot[sleepers[1]] = "sleep"
    BY <1>0, <1>4, EmptySeq, HeadTailProperties, ElementOfSeq DEF SignalFirst, SlockGood, SleepersRight
  <2>2. sleepers' = RemoveAt(sleepers, 1)
    BY <1>0, <1>4, <2>1 DEF SignalFirst, RemoveAt
  <2>3. /\ spot[t] = "signal" /\ lock' = lock
        /\ spot' = [spot EXCEPT ![t] = "out", ![sleepers[1]] = "try"]
    BY <1>4, <2>1 DEF SignalFirst
  <2>4. sleepers' \in Seq(LockTasks) /\ SleepersRight'
    BY <2>1, <2>2, <2>3, WakesUp DEF SlockGood, SlockTypes
  <2> QED BY <2>1, <2>3, <2>4 DEF SlockGood, SlockTypes, Holds
<1> QED BY <1>1, <1>2, <1>3, <1>4 DEF SStep

\* The sleeping lock excludes, and its event's queue has exactly the tasks that
\* sleep, for any number of tasks, with a time to wait or without.
THEOREM SlockSafe == SSpec => []SlockInv
<1>1. SlockGood => SlockInv
  <2> SUFFICES ASSUME SlockGood PROVE SlockInv
    OBVIOUS
  <2>1. DOMAIN sleepers = 1 .. Len(sleepers)
    BY LenProperties DEF SlockGood, SlockTypes
  <2> QED BY <2>1 DEF SlockGood, SleepersRight, SlockInv, Range, IsInjective
<1>2. SlockGood /\ [SNext]_svars => SlockGood'
  BY SlockStep
<1> QED BY <1>1, <1>2, SlockInit, PTL DEF SSpec

---------------------------------------------------------------------------
(* Timer *)

\* A number is its quotient and its remainder.
LEMMA Parts2 ==
  ASSUME NEW n \in Nat, NEW s \in Nat, s > 0
  PROVE  /\ n \div s \in Nat /\ n % s \in Nat /\ n % s < s
         /\ n = (n \div s) * s + (n % s)
OBVIOUS

LEMMA QuotientGrows ==
  ASSUME NEW m \in Nat, NEW n \in Nat, NEW s \in Nat, s > 0, m <= n
  PROVE  m \div s <= n \div s
<1>1. /\ m \div s \in Nat /\ n \div s \in Nat
      /\ (m \div s) * s <= m /\ n < (n \div s) * s + s
  BY Parts2
<1>2. CASE n \div s + 1 <= m \div s
  <2>1. (n \div s + 1) * s <= (m \div s) * s
    BY <1>1, <1>2
  <2>2. (n \div s + 1) * s = (n \div s) * s + s
    BY <1>1
  <2> QED BY <1>1, <2>1, <2>2
<1> QED BY <1>1, <1>2

\* The remainder of what is below s, or below 2 * s.
LEMMA RemainderOf ==
  ASSUME NEW n \in Nat, NEW s \in Nat, s > 0
  PROVE  /\ n < s => n % s = n
         /\ s <= n /\ n < s + s => n % s = n - s
<1>1. n \div s \in Nat /\ n % s \in Nat /\ n % s < s /\ n = (n \div s) * s + (n % s)
  BY Parts2
<1>2. CASE n \div s = 0
  BY <1>1, <1>2
<1>3. CASE n \div s = 1
  BY <1>1, <1>3
<1>4. CASE n \div s >= 2
  <2>1. (n \div s) * s >= 2 * s
    BY <1>1, <1>4
  <2> QED BY <1>1, <2>1
<1> QED BY <1>1, <1>2, <1>3, <1>4

LEMMA WideFacts == Wide \in Nat /\ Wide > 0 /\ Word \in Nat /\ Word > 0
BY TimerAssumption DEF Wide

\* timer_difference, whether the counter has wrapped in between or not.
LEMMA DifferenceIs ==
  ASSUME NEW t1 \in 0 .. Wide - 1, NEW d \in 0 .. Wide - 1
  PROVE  Difference(t1, (t1 + d) % Wide) = d
<1>1. Wide \in Nat /\ Wide > 0
  BY WideFacts
<1> HIDE DEF Wide
<1>2. t1 \in Nat /\ d \in Nat /\ t1 < Wide /\ d < Wide /\ t1 + d \in Nat
  BY <1>1
<1>3. CASE t1 + d < Wide
  <2>1. (t1 + d) % Wide = t1 + d
    BY <1>1, <1>2, <1>3, RemainderOf
  <2> QED BY <1>1, <1>2, <2>1 DEF Difference
<1>4. CASE Wide <= t1 + d
  <2>1. (t1 + d) % Wide = t1 + d - Wide
    BY <1>1, <1>2, <1>4, RemainderOf
  <2> QED BY <1>1, <1>2, <2>1 DEF Difference
<1> QED BY <1>1, <1>2, <1>3, <1>4

\* A value the counter had when the low word was read, and the quotient of which
\* the high word was read before.
Seen(x) == /\ x \in since .. counter
           /\ low = x % Word /\ high <= x \div Word

TimerInv ==
  /\ counter \in Nat /\ counter < Wide /\ since \in Nat /\ since <= counter
  /\ waited \in Nat /\ high \in Nat /\ until \in Int
  /\ reader \in {"out", "low", "again"}
  /\ reader = "low" => high <= counter \div Word
  /\ reader = "again" => \E x \in Nat : Seen(x)
  /\ until # -1 /\ until >= waited => until >= since + waited

LEMMA TimerInit == TInit => TimerInv
BY WideFacts DEF TInit, TimerInv

\* The words that belong together are a value the counter had since the call.
LEMMA ReadsSeen ==
  ASSUME TimerInv, TimeHere
  PROVE  TimeRead \in Nat /\ since <= TimeRead /\ TimeRead <= counter /\ TimeRead < Wide
<1>1. PICK x \in Nat : Seen(x)
  BY DEF TimerInv, TimeHere
<1>2. x \div Word <= counter \div Word /\ x \div Word \in Nat
  BY <1>1, WideFacts, QuotientGrows, Parts2 DEF TimerInv, Seen
<1>3. high = counter \div Word /\ high <= x \div Word /\ counter \div Word \in Nat
  BY <1>1, WideFacts, Parts2 DEF TimeHere, Together, TimerHi, Seen, TimerInv
<1>4. high = x \div Word
  BY <1>2, <1>3
<1>5. x = (x \div Word) * Word + (x % Word)
  BY WideFacts, Parts2
<1>6. TimeRead = x
  <2>1. TimeRead = (x \div Word) * Word + (x % Word)
    BY <1>1, <1>4 DEF TimeRead, Seen
  <2> QED BY <1>5, <2>1
<1> QED BY <1>1, <1>6, WideFacts DEF Seen, TimerInv

LEMMA TimerStep == ASSUME TimerInv, [TNext]_tvars PROVE TimerInv'
<1>0. /\ counter \in Nat /\ counter < Wide /\ since \in Nat /\ since <= counter
      /\ waited \in Nat /\ high \in Nat /\ until \in Int /\ counter \div Word \in Nat
  BY WideFacts, Parts2 DEF TimerInv
<1>1. CASE Runs
  <2>1. counter' = counter + 1 /\ counter' \in Nat /\ counter' < Wide /\ counter <= counter'
    BY <1>0, <1>1, WideFacts DEF Runs
  <2>2. counter \div Word <= counter' \div Word /\ counter' \div Word \in Nat
    BY <1>0, <2>1, WideFacts, QuotientGrows, Parts2
  <2>3. reader' = "low" => high' <= counter' \div Word
    BY <1>0, <1>1, <2>2 DEF Runs, TimerInv
  <2>4. ASSUME reader' = "again" PROVE \E x \in Nat : Seen(x)'
    <3>1. PICK x \in Nat : Seen(x)
      BY <1>1, <2>4 DEF Runs, TimerInv
    <3>2. Seen(x)'
      BY <1>0, <1>1, <2>1, <3>1 DEF Seen, Runs
    <3> QED BY <3>2
  <2> QED BY <1>0, <1>1, <2>1, <2>3, <2>4 DEF Runs, TimerInv
<1>2. ASSUME NEW n \in 0 .. MaxWait, GetTime(n) PROVE TimerInv'
  BY <1>0, <1>2, TimerAssumption DEF GetTime, TimerHi, TimerInv
<1>3. CASE ReadLow
  <2>1. Seen(counter)'
    BY <1>0, <1>3 DEF ReadLow, TimerLo, Seen, TimerInv
  <2> QED BY <1>0, <1>3, <2>1 DEF ReadLow, TimerInv
<1>4. CASE ReadAgain \/ WaitGoesOn
  BY <1>0, <1>4 DEF ReadAgain, WaitGoesOn, TimerHi, TimerInv
<1>5. CASE Returns \/ WaitEnds
  BY <1>0, <1>5 DEF Returns, WaitEnds, ReaderOut, TimerInv
<1>6. CASE WaitBegins
  <2>1. TimeHere /\ until' = (TimeRead + waited) % Wide /\ waited' = waited /\ since' = since
    BY <1>6 DEF WaitBegins
  <2>2. TimeRead \in Nat /\ since <= TimeRead /\ TimeRead < Wide
    BY <2>1, ReadsSeen
  <2>3. Wide \in Nat /\ Wide > 0 /\ TimeRead + waited \in Nat
    BY <1>0, <2>2, WideFacts
  <2> HIDE DEF TimeRead, Wide
  <2>4. until' \in Nat /\ until' < Wide
    BY <2>1, <2>3, Parts2
  <2>5. ASSUME until' >= waited PROVE until' >= since + waited
    <3>1. CASE TimeRead + waited < Wide
      BY <1>0, <2>1, <2>2, <2>3, <3>1, RemainderOf
    <3>2. CASE Wide <= TimeRead + waited /\ waited < Wide
      <4>1. until' = TimeRead + waited - Wide
        BY <1>0, <2>1, <2>2, <2>3, <3>2, RemainderOf
      <4> QED BY <1>0, <2>2, <2>3, <2>5, <4>1
    <3>3. CASE Wide <= waited
      BY <1>0, <2>3, <2>4, <2>5, <3>3
    <3> QED BY <1>0, <2>2, <2>3, <3>1, <3>2, <3>3
  <2> QED BY <1>0, <1>6, <2>1, <2>4, <2>5 DEF WaitBegins, TimerHi, TimerInv
<1>7. CASE UNCHANGED tvars
  BY <1>0, <1>7 DEF tvars, TimerInv, Seen
<1> QED BY <1>1, <1>2, <1>3, <1>4, <1>5, <1>6, <1>7 DEF TNext

\* timer_difference gives the time from one value of the counter to another,
\* for any width of the counter.
THEOREM DifferenceSafe == TSpec => []DifferenceRight
<1>1. TimerInv => DifferenceRight
  <2> SUFFICES ASSUME TimerInv, NEW d \in 0 .. Wide - 1
               PROVE  Difference(counter, (counter + d) % Wide) = d
    BY DEF DifferenceRight
  <2>1. counter \in 0 .. Wide - 1
    BY WideFacts DEF TimerInv
  <2> QED BY <2>1, DifferenceIs
<1>2. TimerInv /\ [TNext]_tvars => TimerInv'
  BY TimerStep
<1> QED BY <1>1, <1>2, TimerInit, PTL DEF TSpec

\* systemtimer_gettime_64 never joins words of different times, systemtimer_wait
\* never ends early unless its sum wraps, and differences are right.
THEOREM TimerSafe == TSpec => TimeRight
<1>1. TimerInv /\ [TNext]_tvars =>
        [/\ Returns \/ WaitBegins => since <= TimeRead /\ TimeRead <= counter
         /\ WaitEnds /\ until >= waited => counter - since >= waited]_tvars
  <2> SUFFICES ASSUME TimerInv
               PROVE  /\ Returns \/ WaitBegins => since <= TimeRead /\ TimeRead <= counter
                      /\ WaitEnds /\ until >= waited => counter - since >= waited
    OBVIOUS
  <2>1. ASSUME Returns \/ WaitBegins PROVE since <= TimeRead /\ TimeRead <= counter
    BY <2>1, ReadsSeen DEF Returns, WaitBegins
  <2>2. ASSUME WaitEnds, until >= waited PROVE counter - since >= waited
    <3>1. TimeRead \in Nat /\ TimeRead <= counter /\ TimeRead >= until /\ until >= since + waited
      BY <2>2, ReadsSeen DEF WaitEnds, TimerInv
    <3> QED BY <3>1 DEF TimerInv
  <2> QED BY <2>1, <2>2
<1>2. TimerInv /\ [TNext]_tvars => TimerInv'
  BY TimerStep
<1> QED BY <1>1, <1>2, TimerInit, DifferenceSafe, PTL DEF TSpec, TimeRight

---------------------------------------------------------------------------
(* CoreStart *)

\* The cores that have counted themselves.
Arrived == {c \in Children : place[c] \in {"irq", "meet", "started"}}

StartTypes ==
  /\ stage \in {"reset", "bss", "main", "sched", "wake", "meet", "started"}
  /\ place \in [Children -> Places]
  /\ core_ready \in Int /\ loaded \in [Children -> Int]
  /\ mmu \subseteq Children \cup {0}

\* What Core0 has done when it has woken the others, and what a core has done
\* when it counts itself; a monitor that is set vouches for what was loaded.
StartInv ==
  /\ StartTypes
  /\ stage \in {"reset", "bss"} => core_ready = -1
  /\ stage \notin {"reset", "bss"} => core_ready = Cardinality(Arrived)
  /\ stage # "reset" => 0 \in mmu
  /\ stage \notin {"reset", "bss", "main"} => 0 \in listening
  /\ stage \in {"wake", "meet", "started"} => curr_set
  /\ released => stage \in {"meet", "started"}
  /\ \A c \in Children :
       /\ place[c] # "parked" => released
       /\ place[c] \notin {"parked", "early"} => c \in mmu
       /\ c \in marked => place[c] = "store" /\ loaded[c] = core_ready
       /\ place[c] \in {"meet", "started"} => c \in listening
       /\ place[c] = "started" => Arrived = Children
  /\ stage = "started" => Arrived = Children

LEMMA CountedFacts ==
  /\ IsFiniteSet(Arrived) /\ Cardinality(Arrived) \in Nat
  /\ Cardinality(Arrived) = Cardinality(Children) => Arrived = Children
<1> USE CoreAssumption
<1>1. Arrived \subseteq Children
  BY DEF Arrived
<1> QED BY <1>1, FS_Subset, FS_CardinalityType

\* All are counted when core_ready says so.
LEMMA AllCounted ==
  ASSUME core_ready = Cardinality(Arrived), AllReady PROVE Arrived = Children
BY CountedFacts, FS_CardinalityType, CoreAssumption DEF AllReady, CORE_NUM

LEMMA StartInit == CInit => StartInv
BY CoreAssumption DEF CInit, StartInv, StartTypes, Places

LEMMA StartCore0 == ASSUME StartInv, Core0Next PROVE StartInv'
<1> USE CoreAssumption
<1>1. Arrived' = Arrived
  BY DEF Arrived, Core0Next, EarlyInit, ClearBss, MainDevices, MainSched, StartCores, Core0Starts, OnCore0
<1>2. CASE ClearBss
  <2>1. Arrived = {}
    BY <1>2 DEF ClearBss, OnCore0, StartInv, Arrived
  <2>2. Cardinality(Arrived) = 0
    BY <2>1, FS_EmptySet
  <2> QED BY <1>1, <1>2, <2>2 DEF ClearBss, OnCore0, shared, counting, StartInv, StartTypes
<1>3. CASE Core0Starts
  <2>1. Arrived = Children
    BY <1>3, AllCounted DEF Core0Starts, OnCore0, StartInv
  <2> QED BY <1>1, <1>3, <2>1 DEF Core0Starts, OnCore0, shared, StartInv, StartTypes
<1>4. CASE EarlyInit \/ MainDevices \/ MainSched \/ StartCores
  BY <1>1, <1>4 DEF EarlyInit, MainDevices, MainSched, StartCores, OnCore0, shared, StartInv, StartTypes
<1> QED BY <1>2, <1>3, <1>4 DEF Core0Next

LEMMA StartChild == ASSUME StartInv, NEW c \in Children, ChildNext(c) PROVE StartInv'
<1> USE CoreAssumption
<1>0. /\ place' \in [Children -> Places] /\ \A d \in Children : d # c => place'[d] = place[d]
      /\ stage' = stage
  BY DEF ChildNext, Wake, EnableMmu, UartReady, CountLoad, CountStore, CountAgain, ChildIrq, ChildStarts,
         Child, StartInv, StartTypes, Places
<1>1. CASE CountStore(c)
  <2>1. /\ place[c] = "store" /\ place'[c] = "irq" /\ core_ready' = core_ready + 1
        /\ marked' = {} /\ UNCHANGED <<released, curr_set, loaded, mmu, listening>>
    BY <1>1 DEF CountStore, StoreMay, Child, StartInv, StartTypes
  <2>2. c \notin Arrived /\ Arrived' = Arrived \cup {c}
    BY <1>0, <2>1 DEF Arrived
  <2>3. Cardinality(Arrived') = Cardinality(Arrived) + 1 /\ Cardinality(Arrived) \in Nat
    BY <2>2, CountedFacts, FS_AddElement
  <2>4. released /\ core_ready = Cardinality(Arrived) /\ c \in mmu
    BY <2>1 DEF StartInv
  <2>5. Arrived # Children
    BY <2>2
  <2> QED BY <1>0, <2>1, <2>3, <2>4, <2>5 DEF StartInv, StartTypes
<1>2. CASE ~CountStore(c)
  <2>1. Arrived' = Arrived
    BY <1>0, <1>2 DEF ChildNext, Wake, EnableMmu, UartReady, CountLoad, CountAgain, ChildIrq, ChildStarts,
         Child, Arrived, StartInv, StartTypes
  <2>2. CASE ChildStarts(c)
    <3>1. Arrived = Children
      BY <2>2, AllCounted DEF ChildStarts, Child, StartInv
    <3> QED BY <1>0, <2>1, <2>2, <3>1 DEF ChildStarts, Child, shared, counting, StartInv, StartTypes
  <2>3. CASE Wake(c) \/ EnableMmu(c) \/ UartReady(c)
    BY <1>0, <2>1, <2>3 DEF Wake, EnableMmu, UartReady, Child, shared, counting, StartInv, StartTypes
  <2>4. CASE CountLoad(c) \/ CountAgain(c) \/ ChildIrq(c)
    BY <1>0, <2>1, <2>4 DEF CountLoad, CountAgain, ChildIrq, Child, shared, counting, StartInv, StartTypes
  <2> QED BY <1>2, <2>2, <2>3, <2>4 DEF ChildNext
<1> QED BY <1>1, <1>2

\* kernel_main and kernel_child_main: with any number of cores, none is past the
\* meeting before all have their tables, Core0 has given them a current task
\* and each has counted itself exactly once.
THEOREM StartSafe == CSpec => []StartsTogether
<1> USE CoreAssumption
<1>1. StartInv => StartsTogether
  <2> SUFFICES ASSUME StartInv PROVE StartsTogether
    OBVIOUS
  <2>1. ASSUME "started" \in {stage} \cup {place[c] : c \in Children}
        PROVE  /\ curr_set /\ mmu = Children \cup {0} /\ 0 \in listening
               /\ \A c \in Children : place[c] \in {"irq", "meet", "started"}
    <3>1. Arrived = Children /\ stage \in {"meet", "started"}
      BY <2>1 DEF StartInv
    <3>2. \A c \in Children : place[c] \in {"irq", "meet", "started"}
      BY <3>1 DEF Arrived
    <3> QED BY <3>1, <3>2 DEF StartInv, StartTypes
  <2>2. core_ready = -1 \/ core_ready = Cardinality(Arrived)
    BY FS_EmptySet DEF StartInv
  <2> QED BY <2>1, <2>2 DEF StartsTogether, StartInv, Arrived
<1>2. StartInv /\ [CNext]_cvars => StartInv'
  <2>1. CASE UNCHANGED cvars
    BY <2>1 DEF cvars, StartInv, StartTypes, Arrived
  <2> QED BY <2>1, StartCore0, StartChild DEF CNext
<1> QED BY <1>1, <1>2, StartInit, PTL DEF CSpec

---------------------------------------------------------------------------
(* MboxTags *)

Words == {"tags", "other"}

\* No word of the mailbox is the answer; one is.
NoTags(q)  == \A i \in 1 .. Len(q) : q[i] # "tags"
OneTags(q) == \E i \in 1 .. Len(q) : /\ q[i] = "tags"
                                     /\ \A j \in 1 .. Len(q) : j # i => q[j] # "tags"

\* What the memory and the cache hold of a buffer.
Codes  == {"none", "request", "success", "error"}
Heads  == [code : Codes, tag : Tags \cup {"none"}]
Bodies == {Zeros, Unknown} \cup {Value(t) : t \in Tags}
Buffer == {b \in [head : Heads, body : Bodies] : b.head.code = "request" => b.head.tag \in Tags}

\* A buffer that is of the call, and answered rightly if at all.
Sound(b) == /\ b.head.code \in {"request", "success"} => b.head.tag = asked
            /\ b.head.code = "success" => b.body = Value(asked)

\* The core's line is all of the buffer, and no other frame is in it.
Whole == early \/ offset # 48
Alone == early \/ offset = 0

\* Nothing is under way to or from the video core.
Quiet == to_vc = <<>> /\ NoTags(from_vc)

\* The request is under way and not answered yet, or it is answered.
Unanswered == /\ to_vc = <<"tags">> /\ NoTags(from_vc)
              /\ Alone => ram = Request(asked)
Answered == /\ to_vc = <<>> /\ OneTags(from_vc)
            /\ Alone => ram.head.code = "success"

MboxType ==
  /\ asker \in {"early", "main", "ask", "send", "read", "done"}
  /\ early \in BOOLEAN /\ unread \in BOOLEAN /\ offset \in {0, 16, 32, 48}
  /\ cached \subseteq Halves /\ dirty \subseteq cached
  /\ ram \in Buffer /\ view \in Buffer
  /\ to_vc \in Seq(Words) /\ from_vc \in Seq(Words)
  /\ asker \in {"ask", "send", "read", "done"} => asked \in Tags

\* What memory and cache hold of the buffer of a call,
MboxBuffer ==
  /\ asker = "ask" => ~early /\ view = Request(asked) /\ cached = Halves /\ dirty = Halves
  /\ asker \in {"send", "read"} /\ Whole => Sound(ram)
  /\ asker \in {"send", "read"} /\ ~early /\ Whole => {cached, dirty} \subseteq {{}, Halves}
  /\ asker \in {"send", "read"} /\ ~early /\ Whole /\ cached = Halves => Sound(view)
  /\ asker \in {"send", "read"} /\ ~early /\ Alone => dirty = {}

\* and where its words are, until one is left by early_get_mem_size.
MboxTurn ==
  /\ asker \in {"early", "main", "ask", "send", "done"} => Quiet
  /\ asker = "send" /\ Alone => ram = Request(asked)
  /\ asker = "read" => Unanswered \/ Answered

MboxInv == MboxType /\ MboxBuffer /\ (~unread => MboxTurn) /\ AnswerRight

\* A word is taken from the mailbox.
LEMMA TakeWord ==
  ASSUME NEW q \in Seq(Words), q # <<>>
  PROVE  /\ Tail(q) \in Seq(Words) /\ Len(Tail(q)) = Len(q) - 1
         /\ NoTags(q) => NoTags(Tail(q)) /\ Head(q) # "tags"
         /\ OneTags(q) /\ Head(q) # "tags" => OneTags(Tail(q))
         /\ OneTags(q) /\ Head(q) = "tags" => NoTags(Tail(q))
<1>1. /\ Tail(q) \in Seq(Words) /\ Len(Tail(q)) = Len(q) - 1 /\ Len(q) \in Nat \ {0}
      /\ Head(q) = q[1] /\ \A i \in 1 .. Len(q) - 1 : Tail(q)[i] = q[i + 1]
  BY HeadTailProperties, LenProperties, EmptySeq
<1>2. NoTags(q) => NoTags(Tail(q)) /\ Head(q) # "tags"
  BY <1>1 DEF NoTags
<1>3. ASSUME OneTags(q), Head(q) # "tags" PROVE OneTags(Tail(q))
  <2>1. PICK i \in 1 .. Len(q) : q[i] = "tags" /\ \A j \in 1 .. Len(q) : j # i => q[j] # "tags"
    BY <1>3 DEF OneTags
  <2>2. i - 1 \in 1 .. Len(Tail(q)) /\ Tail(q)[i - 1] = "tags"
    BY <1>1, <1>3, <2>1
  <2>3. ASSUME NEW j \in 1 .. Len(Tail(q)), j # i - 1 PROVE Tail(q)[j] # "tags"
    <3>1. j + 1 \in 1 .. Len(q) /\ j + 1 # i
      BY <1>1, <2>3
    <3> QED BY <1>1, <2>1, <3>1
  <2> QED BY <2>2, <2>3 DEF OneTags
<1>4. ASSUME OneTags(q), Head(q) = "tags" PROVE NoTags(Tail(q))
  <2>1. PICK i \in 1 .. Len(q) : q[i] = "tags" /\ \A j \in 1 .. Len(q) : j # i => q[j] # "tags"
    BY <1>4 DEF OneTags
  <2>2. i = 1
    BY <1>1, <1>4, <2>1
  <2> QED BY <1>1, <2>1, <2>2 DEF NoTags
<1> QED BY <1>1, <1>2, <1>3, <1>4

\* A word comes into the mailbox.
LEMMA AddWord ==
  ASSUME NEW q \in Seq(Words), NEW w \in Words
  PROVE  /\ Append(q, w) \in Seq(Words) /\ Len(Append(q, w)) = Len(q) + 1
         /\ NoTags(q) /\ w # "tags" => NoTags(Append(q, w))
         /\ NoTags(q) /\ w = "tags" => OneTags(Append(q, w))
         /\ OneTags(q) /\ w # "tags" => OneTags(Append(q, w))
<1>1. /\ Append(q, w) \in Seq(Words) /\ Len(Append(q, w)) = Len(q) + 1 /\ Len(q) \in Nat
      /\ \A i \in 1 .. Len(q) : Append(q, w)[i] = q[i]
      /\ Append(q, w)[Len(q) + 1] = w
  BY AppendProperties, LenProperties
<1>2. \A i \in 1 .. Len(q) + 1 : i = Len(q) + 1 \/ i \in 1 .. Len(q)
  BY <1>1
<1>3. NoTags(q) /\ w # "tags" => NoTags(Append(q, w))
  BY <1>1, <1>2 DEF NoTags
<1>4. ASSUME NoTags(q), w = "tags" PROVE OneTags(Append(q, w))
  <2>1. Len(q) + 1 \in 1 .. Len(Append(q, w))
    BY <1>1
  <2> QED BY <1>1, <1>2, <1>4, <2>1 DEF NoTags, OneTags
<1>5. ASSUME OneTags(q), w # "tags" PROVE OneTags(Append(q, w))
  <2>1. PICK i \in 1 .. Len(q) : q[i] = "tags" /\ \A j \in 1 .. Len(q) : j # i => q[j] # "tags"
    BY <1>5 DEF OneTags
  <2>2. i \in 1 .. Len(Append(q, w))
    BY <1>1
  <2> QED BY <1>1, <1>2, <1>5, <2>1, <2>2 DEF OneTags
<1> QED BY <1>1, <1>3, <1>4, <1>5

\* Part of a buffer is written over another.
LEMMA MixedBuffer ==
  ASSUME NEW a \in Buffer, NEW b \in Buffer, NEW S, NEW c,
         c = [l \in Halves |-> IF l \in S THEN a[l] ELSE b[l]]
  PROVE  /\ c \in Buffer
         /\ Halves \subseteq S => c = a
         /\ S \cap Halves = {} => c = b
<1>1. /\ a = [head |-> a.head, body |-> a.body] /\ a.head \in Heads /\ a.body \in Bodies
      /\ b = [head |-> b.head, body |-> b.body] /\ b.head \in Heads /\ b.body \in Bodies
  BY DEF Buffer
<1>2. /\ c = [head |-> c.head, body |-> c.body]
      /\ c.head = IF "head" \in S THEN a.head ELSE b.head
      /\ c.body = IF "body" \in S THEN a.body ELSE b.body
  BY DEF Halves
<1>3. c \in Buffer
  BY <1>1, <1>2 DEF Buffer
<1>4. Halves \subseteq S => c = a
  BY <1>1, <1>2 DEF Halves
<1>5. S \cap Halves = {} => c = b
  BY <1>1, <1>2 DEF Halves
<1> QED BY <1>3, <1>4, <1>5

\* A request is a buffer as it should be.
LEMMA RequestSound ==
  ASSUME asked \in Tags
  PROVE  Request(asked) \in Buffer /\ Sound(Request(asked))
BY DEF Request, Head4, Buffer, Heads, Codes, Bodies, Sound

LEMMA MboxInit == MInit => MboxInv
<1> SUFFICES ASSUME MInit PROVE MboxInv
  OBVIOUS
<1>1. Blank \in Buffer
  BY DEF Blank, Head4, Buffer, Heads, Codes, Bodies
<1>2. MboxType
  BY <1>1, EmptySeq DEF MInit, MboxType
<1>3. MboxTurn
  BY DEF MInit, MboxTurn, Quiet, NoTags
<1> QED BY <1>2, <1>3 DEF MInit, MboxInv, MboxBuffer, AnswerRight

\* A call starts.
LEMMA MboxCore ==
  ASSUME MboxInv, NEW t \in Tags,
         EarlyAsk(t) \/ Ask(t)
  PROVE  MboxInv'
<1>1. CASE EarlyAsk(t)
  <2>1. asked' = t /\ asked' \in Tags /\ ram' = Request(asked')
    BY <1>1 DEF EarlyAsk
  <2>2. ram' \in Buffer /\ Sound(ram)'
    BY <2>1 DEF Request, Head4, Buffer, Heads, Codes, Bodies, Sound
  <2>3. MboxType'
    BY <1>1, <2>1, <2>2 DEF MboxInv, MboxType, EarlyAsk, cache
  <2>4. MboxBuffer'
    BY <1>1, <2>2 DEF EarlyAsk, MboxBuffer
  <2>5. ~unread' => MboxTurn'
    BY <1>1, <2>1 DEF MboxInv, MboxTurn, EarlyAsk, Quiet, NoTags
  <2> QED BY <1>1, <2>3, <2>4, <2>5 DEF MboxInv, EarlyAsk, AnswerRight
<1>2. CASE Ask(t)
  <2>1. asked' = t /\ asked' \in Tags /\ view' = Request(asked') /\ offset' \in {0, 16, 32, 48}
    BY <1>2, MboxAssumption DEF Ask
  <2>2. view' \in Buffer
    BY <2>1 DEF Request, Head4, Buffer, Heads, Codes, Bodies
  <2>3. MboxType'
    BY <1>2, <2>1, <2>2 DEF MboxInv, MboxType, Ask
  <2>4. MboxBuffer'
    BY <1>2, <2>1 DEF Ask, MboxBuffer
  <2>5. ~unread' => MboxTurn'
    BY <1>2 DEF MboxInv, MboxTurn, Ask, Quiet, NoTags
  <2> QED BY <1>2, <2>3, <2>4, <2>5 DEF MboxInv, Ask, AnswerRight
<1> QED BY <1>1, <1>2

\* The caller has what the call returned.
LEMMA MboxDone ==
  ASSUME MboxInv, Done
  PROVE  MboxInv'
<1>1. MboxType'
  BY DEF MboxInv, MboxType, Done, Blank, Head4, Buffer, Heads, Codes, Bodies, call
<1>2. MboxBuffer'
  BY DEF MboxInv, MboxType, Done, MboxBuffer
<1>3. ~unread' => MboxTurn'
  BY DEF MboxInv, MboxTurn, MboxType, Done, Quiet, NoTags
<1> QED BY <1>1, <1>2, <1>3 DEF MboxInv, MboxType, Done, AnswerRight

\* The request is flushed and sent.
LEMMA MboxSend ==
  ASSUME MboxInv, CacheOn \/ FlushRequest \/ Send
  PROVE  MboxInv'
<1>1. CASE CacheOn
  <2>1. MboxType' /\ MboxBuffer'
    BY <1>1 DEF MboxInv, MboxType, MboxBuffer, CacheOn, call, cache
  <2>2. ~unread' => MboxTurn'
    BY <1>1 DEF MboxInv, MboxTurn, CacheOn, call, Quiet, NoTags
  <2> QED BY <1>1, <2>1, <2>2 DEF MboxInv, CacheOn, AnswerRight
<1>2. CASE FlushRequest
  <2>1. /\ asker = "ask" /\ asker' = "send" /\ asked \in Tags /\ ~early /\ view = Request(asked)
        /\ cached = Halves /\ dirty = Halves /\ view' = view
        /\ UNCHANGED <<early, asked, offset, to_vc, from_vc, unread, returned>>
    BY <1>2 DEF FlushRequest, MboxInv, MboxType, MboxBuffer, Flush, Drop, call
  <2>2. ram' = [l \in Halves |-> IF l \in LineOf("head") \cap dirty THEN view[l] ELSE ram[l]]
    BY <1>2 DEF FlushRequest, Flush, Drop
  <2>3. ram' \in Buffer /\ (offset # 48 => ram' = Request(asked))
    <3>1. view \in Buffer /\ ram \in Buffer
      BY DEF MboxInv, MboxType
    <3>2. /\ ram' \in Buffer
          /\ Halves \subseteq LineOf("head") \cap dirty => ram' = view
      <4>1. PICK a, b, m, c : a = view /\ b = ram /\ m = LineOf("head") \cap dirty /\ c = ram'
        OBVIOUS
      <4>2. c = [l \in Halves |-> IF l \in m THEN a[l] ELSE b[l]] /\ a \in Buffer /\ b \in Buffer
        BY <2>2, <3>1, <4>1
      <4>3. c \in Buffer /\ (Halves \subseteq m => c = a)
        BY ONLY <4>2, MixedBuffer
      <4> QED BY <4>1, <4>3
    <3> QED BY <2>1, <3>2 DEF LineOf
  <2>4. /\ cached' = cached \ LineOf("head") /\ dirty' = dirty \ LineOf("head")
    BY <1>2 DEF FlushRequest, Flush, Drop
  <2>5. MboxType'
    BY <2>1, <2>3, <2>4 DEF MboxInv, MboxType
  <2>6. offset # 48 => cached' = {} /\ dirty' = {} /\ Sound(Request(asked))
    BY <2>1, <2>4, RequestSound DEF LineOf
  <2>7. MboxBuffer'
    BY <2>1, <2>3, <2>6 DEF MboxBuffer, Whole, Alone, Sound, Halves
  <2>8. ~unread' => MboxTurn'
    BY <2>1, <2>3 DEF MboxInv, MboxTurn, Quiet, NoTags, Alone
  <2> QED BY <2>1, <2>5, <2>7, <2>8 DEF MboxInv, AnswerRight
<1>3. CASE Send
  <2>1. /\ asker = "send" /\ asker' = "read" /\ asked \in Tags
        /\ UNCHANGED <<early, asked, offset, ram, view, cached, dirty, from_vc, unread, returned>>
    BY <1>3 DEF Send, MboxInv, MboxType, call, cache
  <2>2. to_vc' = Append(to_vc, "tags") /\ to_vc' \in Seq(Words)
    BY <1>3, AddWord DEF Send, MboxInv, MboxType, Words
  <2>3. MboxType'
    BY <2>1, <2>2 DEF MboxInv, MboxType
  <2>4. MboxBuffer'
    BY <2>1 DEF MboxInv, MboxBuffer, Whole, Alone, Sound
  <2>5. Append(<<>>, "tags") = <<"tags">>
    OBVIOUS
  <2>6. ~unread' => MboxTurn'
    BY <2>1, <2>2, <2>5 DEF MboxInv, MboxTurn, Quiet, NoTags, Unanswered, Alone
  <2> QED BY <2>1, <2>3, <2>4, <2>6 DEF MboxInv, AnswerRight
<1> QED BY <1>1, <1>2, <1>3

\* The video core, and words of other channels.
LEMMA MboxOthers ==
  ASSUME MboxInv, Answer \/ Foreign
  PROVE  MboxInv'
<1>1. "tags" \in Words /\ "other" \in Words /\ "other" # "tags"
  BY DEF Words
<1>2. /\ UNCHANGED <<asker, early, asked, offset, view, cached, dirty, unread, returned>>
      /\ AnswerRight
  BY DEF Answer, Foreign, call, cache, MboxInv
<1>3. CASE Answer
  <2>1. /\ to_vc # <<>> /\ to_vc' = Tail(to_vc) /\ to_vc' \in Seq(Words)
        /\ from_vc' = Append(from_vc, "tags") /\ from_vc' \in Seq(Words)
    BY <1>1, <1>3, AddWord, TakeWord DEF Answer, MboxInv, MboxType
  <2>2. PICK h \in Heads, b \in Bodies : ram = [head |-> h, body |-> b]
    BY DEF MboxInv, MboxType, Buffer
  <2>3. PICK k \in Codes, g \in Tags \cup {"none"} : h = [code |-> k, tag |-> g]
    BY DEF Heads
  <2>4. ASSUME k = "request", ram' = [head |-> Head4("success", g), body |-> Value(g)]
        PROVE  /\ Sound(ram) => Sound(ram)'
               /\ ram'.head.code = "success"
    BY <1>2, <2>2, <2>3, <2>4 DEF Sound, Head4
  <2>5. ASSUME ram' = [ram EXCEPT !.head.code = "error"]
        PROVE  ram' \in Buffer /\ Sound(ram)'
    <3>1. ram' = [head |-> [code |-> "error", tag |-> g], body |-> b]
      BY <2>2, <2>3, <2>5
    <3> QED BY <2>2, <2>3, <3>1 DEF Buffer, Heads, Codes, Sound
  <2>6. \/ k = "request" /\ ram' = [head |-> Head4("success", g), body |-> Value(g)]
        \/ (k # "request" \/ b # Zeros) /\ ram' = [ram EXCEPT !.head.code = "error"]
    BY <1>3, <2>2, <2>3 DEF Answer
  <2>7. Sound(ram) => Sound(ram)'
    BY <2>4, <2>5, <2>6
  <2>8. ram' \in Buffer
    <3>1. k = "request" => g \in Tags
      BY <2>2, <2>3 DEF MboxInv, MboxType, Buffer
    <3>2. g \in Tags => [head |-> Head4("success", g), body |-> Value(g)] \in Buffer
      BY <2>3 DEF Head4, Buffer, Heads, Codes, Bodies
    <3> QED BY <2>5, <2>6, <3>1, <3>2
  <2>9. MboxType'
    BY <1>2, <2>1, <2>8 DEF MboxInv, MboxType
  <2>10. MboxBuffer'
    <3>1. \A x \in Buffer : Sound(x) => Sound(x)'
      BY <1>2 DEF Sound
    <3>2. view \in Buffer /\ view' = view
      BY <1>2 DEF MboxInv, MboxType
    <3>3. Sound(view) => Sound(view)'
      BY <1>2, <3>2 DEF Sound
    <3> QED BY <1>2, <2>7, <3>2, <3>3 DEF MboxInv, MboxBuffer, Whole, Alone, Request, Head4
  <2>11. ~unread => MboxTurn'
    <3>1. ~unread => asker = "read" /\ Unanswered
      BY <2>1 DEF MboxInv, MboxType, MboxTurn, Quiet, Answered
    <3>2. ~unread => to_vc' = <<>> /\ OneTags(from_vc)'
      BY <1>1, <2>1, <3>1, AddWord DEF MboxInv, MboxType, Unanswered, OneTags
    <3>3. ~unread /\ Alone => k = "request" /\ b = Zeros
      BY <2>2, <2>3, <3>1 DEF Unanswered, Request, Head4
    <3>4. ~unread /\ Alone => ram'.head.code = "success"
      BY <2>4, <2>6, <3>3
    <3> QED BY <1>2, <3>1, <3>2, <3>4 DEF MboxTurn, Answered, Alone
  <2> QED BY <1>2, <2>9, <2>10, <2>11 DEF MboxInv, AnswerRight
<1>4. CASE Foreign
  <2>1. /\ ram' = ram /\ to_vc' = to_vc
        /\ from_vc' = Append(from_vc, "other") /\ from_vc' \in Seq(Words)
    BY <1>1, <1>4, AddWord DEF Foreign, MboxInv, MboxType
  <2>2. MboxType' /\ MboxBuffer'
    BY <1>2, <2>1 DEF MboxInv, MboxType, MboxBuffer, Whole, Alone, Sound
  <2>3. /\ NoTags(from_vc) => NoTags(from_vc)'
        /\ OneTags(from_vc) => OneTags(from_vc)'
    BY <1>1, <2>1, AddWord DEF MboxInv, MboxType, NoTags, OneTags
  <2>4. ~unread => MboxTurn'
    BY <1>2, <2>1, <2>3 DEF MboxInv, MboxTurn, Quiet, Unanswered, Answered, Alone
  <2> QED BY <1>2, <2>2, <2>4 DEF MboxInv, AnswerRight
<1> QED BY <1>3, <1>4

\* The line of a half leaves the cache while mbox_request waits.
LEMMA DropLine ==
  ASSUME MboxInv, asker \in {"send", "read"}, ~early, asked' = asked,
         NEW h \in Halves, Drop(LineOf(h))
  PROVE  /\ ram' \in Buffer /\ view' = view
         /\ cached' = cached \ LineOf(h) /\ dirty' = dirty \ LineOf(h)
         /\ dirty = {} => ram' = ram
         /\ offset # 48 => Sound(ram)' /\ cached' = {} /\ dirty' = {}
<1>1. /\ view \in Buffer /\ ram \in Buffer /\ cached \subseteq Halves /\ dirty \subseteq cached
      /\ view' = view /\ cached' = cached \ LineOf(h) /\ dirty' = dirty \ LineOf(h)
  BY DEF MboxInv, MboxType, Drop
<1>2. PICK s : s = LineOf(h) \cap dirty
  OBVIOUS
<1>3. ram' = [x \in Halves |-> IF x \in s THEN view[x] ELSE ram[x]]
  BY <1>2 DEF Drop
<1>4. ram' \in Buffer /\ (Halves \subseteq s => ram' = view) /\ (s \cap Halves = {} => ram' = ram)
  <2>1. PICK a, b, c : a = view /\ b = ram /\ c = ram'
    OBVIOUS
  <2>2. c = [x \in Halves |-> IF x \in s THEN a[x] ELSE b[x]] /\ a \in Buffer /\ b \in Buffer
    BY <1>1, <1>3, <2>1
  <2>3. c \in Buffer /\ (Halves \subseteq s => c = a) /\ (s \cap Halves = {} => c = b)
    BY ONLY <2>2, MixedBuffer
  <2> QED BY <2>1, <2>3
<1>5. ASSUME offset # 48 PROVE Sound(ram)' /\ cached' = {} /\ dirty' = {}
  <2>1. /\ LineOf(h) = Halves /\ dirty \in {{}, Halves} /\ cached \in {{}, Halves}
        /\ Sound(ram) /\ (cached = Halves => Sound(view))
    BY <1>5 DEF LineOf, MboxInv, MboxBuffer, Whole
  <2>2. ram' = ram \/ (ram' = view /\ Sound(view))
    BY <1>1, <1>2, <1>4, <2>1
  <2>3. Sound(ram)'
    BY <2>1, <2>2 DEF Sound
  <2> QED BY <1>1, <2>1, <2>3
<1> QED BY <1>1, <1>2, <1>4, <1>5

\* The lines of the buffer come into the cache and leave it.
LEMMA MboxCache ==
  ASSUME MboxInv, NEW h \in Halves, Refetch(h) \/ DirtyFrame \/ Evict(h)
  PROVE  MboxInv'
<1>1. /\ asker \in {"send", "read"} /\ ~early
      /\ UNCHANGED <<asker, early, asked, offset, to_vc, from_vc, unread, returned>>
      /\ view \in Buffer /\ ram \in Buffer
      /\ cached \subseteq Halves /\ dirty \subseteq Halves
  BY DEF Refetch, DirtyFrame, Evict, Waiting, call, MboxInv, MboxType
<1>2. offset # 48 => LineOf(h) = Halves /\ LineOf("head") = Halves
  BY DEF LineOf
<1>3. offset # 48 => Sound(ram) /\ cached \in {{}, Halves} /\ (cached = Halves => Sound(view))
  BY <1>1 DEF MboxInv, MboxBuffer, Whole
<1>4. LineOf(h) \subseteq Halves /\ LineOf("head") \subseteq Halves
  BY DEF LineOf, Halves
<1>5. ASSUME NEW g \in Halves, Fetched(g)
      PROVE  /\ view' \in Buffer /\ ram' = ram /\ cached' \subseteq Halves
             /\ offset # 48 => Sound(view)' /\ cached' = Halves
  <2>1. PICK s : s = {x \in LineOf(g) : x \notin cached}
    OBVIOUS
  <2>2. view' = [x \in Halves |-> IF x \in s THEN ram[x] ELSE view[x]]
    BY <1>5, <2>1 DEF Fetched, Reads
  <2>3. view' \in Buffer /\ (Halves \subseteq s => view' = ram) /\ (s \cap Halves = {} => view' = view)
    <3>1. PICK a, b, c : a = ram /\ b = view /\ c = view'
      OBVIOUS
    <3>2. c = [x \in Halves |-> IF x \in s THEN a[x] ELSE b[x]] /\ a \in Buffer /\ b \in Buffer
      BY <1>1, <2>2, <3>1
    <3>3. c \in Buffer /\ (Halves \subseteq s => c = a) /\ (s \cap Halves = {} => c = b)
      BY ONLY <3>2, MixedBuffer
    <3> QED BY <3>1, <3>3
  <2>4. cached' = cached \cup LineOf(g) /\ LineOf(g) \subseteq Halves /\ ram' = ram
    BY <1>5 DEF Fetched, LineOf, Halves
  <2>5. ASSUME offset # 48 PROVE Sound(view)' /\ cached' = Halves
    <3>1. LineOf(g) = Halves
      BY <2>5 DEF LineOf
    <3>2. cached' = Halves
      BY <1>1, <2>4, <3>1
    <3>3. CASE cached = {}
      <4>1. view' = ram /\ Sound(ram)
        BY <1>3, <2>1, <2>3, <2>5, <3>1, <3>3
      <4> QED BY <1>1, <3>2, <4>1 DEF Sound
    <3>4. CASE cached = Halves
      <4>1. view' = view /\ Sound(view)
        BY <1>3, <2>1, <2>3, <2>5, <3>1, <3>4
      <4> QED BY <1>1, <3>2, <4>1 DEF Sound
    <3> QED BY <1>3, <2>5, <3>3, <3>4
  <2> QED BY <1>1, <2>3, <2>4, <2>5
<1>6. CASE Refetch(h) \/ DirtyFrame
  <2>1. PICK g \in Halves : /\ Fetched(g)
                           /\ \/ dirty' = dirty
                              \/ dirty' = dirty \cup LineOf(g) /\ offset # 0
    BY <1>6 DEF Refetch, DirtyFrame, Halves
  <2>2. /\ view' \in Buffer /\ ram' = ram /\ cached' \subseteq Halves
        /\ offset # 48 => Sound(view)' /\ cached' = Halves
    BY <1>5, <2>1
  <2>3. dirty' \subseteq cached' /\ cached' = cached \cup LineOf(g)
    BY <2>1 DEF Fetched, MboxInv, MboxType
  <2>4. MboxType'
    BY <1>1, <2>2, <2>3 DEF MboxInv, MboxType
  <2>5. offset # 48 => dirty' \in {{}, Halves}
    BY <1>1, <1>3, <2>1 DEF LineOf, MboxInv, MboxBuffer, Whole
  <2>6. Sound(ram) => Sound(ram)'
    BY <1>1, <2>2 DEF Sound
  <2>7. MboxBuffer'
    BY <1>1, <1>3, <2>1, <2>2, <2>5, <2>6 DEF MboxInv, MboxBuffer, Whole, Alone
  <2>8. MboxTurn => MboxTurn'
    BY <1>1, <2>2 DEF MboxTurn, Quiet, Unanswered, Answered, Alone, NoTags, OneTags
  <2> QED BY <1>1, <2>4, <2>7, <2>8 DEF MboxInv, AnswerRight
<1>7. CASE Evict(h)
  <2>1. Drop(LineOf(h))
    BY <1>7 DEF Evict
  <2>2. /\ ram' \in Buffer /\ view' = view
        /\ cached' = cached \ LineOf(h) /\ dirty' = dirty \ LineOf(h)
        /\ dirty = {} => ram' = ram
        /\ offset # 48 => Sound(ram)' /\ cached' = {} /\ dirty' = {}
    BY <1>1, <2>1, DropLine
  <2>3. MboxType'
    BY <1>1, <2>2 DEF MboxInv, MboxType
  <2>4. Halves # {}
    BY DEF Halves
  <2>5. MboxBuffer'
    BY <1>1, <2>2, <2>4 DEF MboxInv, MboxBuffer, Whole, Alone
  <2>6. Alone => ram' = ram
    BY <1>1, <2>2 DEF MboxInv, MboxBuffer, Alone
  <2>7. MboxTurn => MboxTurn'
    BY <1>1, <2>6 DEF MboxTurn, Quiet, Unanswered, Answered, Alone, NoTags, OneTags
  <2> QED BY <1>1, <2>3, <2>5, <2>7 DEF MboxInv, AnswerRight
<1> QED BY <1>6, <1>7

\* A step of mbox_read's loop, or of early_get_mem_size.
LEMMA MboxReads ==
  ASSUME MboxInv, Skip \/ Take \/ EarlySkip \/ EarlyTake
  PROVE  MboxInv'
<1>1. /\ asker = "read" /\ from_vc # <<>> /\ from_vc' = Tail(from_vc) /\ from_vc' \in Seq(Words)
      /\ UNCHANGED <<early, asked, offset, to_vc>> /\ asked \in Tags
      /\ ram \in Buffer /\ view \in Buffer
  BY TakeWord DEF MboxInv, MboxType, Skip, Take, EarlySkip, EarlyTake, call
<1>2. /\ NoTags(from_vc) => NoTags(from_vc)' /\ Head(from_vc) # "tags"
      /\ OneTags(from_vc) /\ Head(from_vc) # "tags" => OneTags(from_vc)'
      /\ OneTags(from_vc) /\ Head(from_vc) = "tags" => NoTags(from_vc)'
  BY <1>1, TakeWord DEF MboxInv, MboxType, NoTags, OneTags
<1>3. CASE Skip \/ EarlySkip
  <2>1. UNCHANGED <<asker, ram, view, cached, dirty, unread, returned>>
    BY <1>3 DEF Skip, EarlySkip, call, cache
  <2>2. MboxType' /\ MboxBuffer'
    BY <1>1, <2>1 DEF MboxInv, MboxType, MboxBuffer, Whole, Alone, Sound
  <2>3. Answered => Head(from_vc) # "tags"
    BY <1>3 DEF Skip, EarlySkip, Channel, Answered, Alone
  <2>4. MboxTurn => MboxTurn'
    BY <1>1, <1>2, <2>1, <2>3 DEF MboxTurn, Unanswered, Answered, Alone
  <2> QED BY <1>1, <2>1, <2>2, <2>4 DEF MboxInv, AnswerRight
<1>4. CASE Take
  <2>1. Drop(LineOf("head")) /\ ~early /\ Head(from_vc) = "tags" /\ asker' = "done" /\ unread' = unread
    BY <1>4 DEF Take, Flush, Channel
  <2>2. /\ ram' \in Buffer /\ view' = view
        /\ cached' = cached \ LineOf("head") /\ dirty' = dirty \ LineOf("head")
        /\ dirty = {} => ram' = ram
        /\ offset # 48 => Sound(ram)' /\ cached' = {} /\ dirty' = {}
    BY <1>1, <2>1, DropLine DEF Halves
  <2>3. MboxType'
    BY <1>1, <2>1, <2>2 DEF MboxInv, MboxType
  <2>4. MboxBuffer'
    BY <2>1 DEF MboxBuffer
  <2>5. ~unread => MboxTurn' /\ (Alone => ram.head.code = "success")
    BY <1>1, <1>2, <2>1 DEF MboxInv, MboxTurn, Quiet, Unanswered, Answered
  <2>6. offset # 48 => returned' = Result(ram'.head, ram'.body)
    BY <1>4, <2>2 DEF Take, Reads
  <2>7. ASSUME offset # 48 PROVE returned'[1] => returned'[2] = Value(asked)
    <3>1. ram'.head.code = "success" => ram'.body = Value(asked)
      BY <1>1, <2>2, <2>7 DEF Sound
    <3>2. returned' = IF ram'.head.code = "success" THEN <<TRUE, ram'.body>> ELSE <<FALSE, Unknown>>
      BY <2>6, <2>7 DEF Result
    <3>3. CASE ram'.head.code = "success"
      <4>1. returned' = <<TRUE, Value(asked)>>
        BY <3>1, <3>2, <3>3
      <4> QED BY <4>1
    <3>4. CASE ram'.head.code # "success"
      <4>1. returned' = <<FALSE, Unknown>>
        BY <3>2, <3>4
      <4> QED BY <4>1
    <3> QED BY <3>3, <3>4
  <2>8. ASSUME offset = 0, ~unread PROVE returned' = <<TRUE, Value(asked)>>
    <3>1. ram' = ram
      BY <1>1, <2>1, <2>2, <2>8 DEF MboxInv, MboxBuffer, Alone
    <3>2. ram'.head.code = "success" /\ ram'.body = Value(asked)
      BY <1>1, <2>2, <2>5, <2>8, <3>1 DEF Alone, Sound
    <3>3. returned' = Result(ram'.head, ram'.body)
      BY <2>6, <2>8
    <3> QED BY <3>2, <3>3 DEF Result
  <2>9. AnswerRight'
    BY <1>1, <2>1, <2>7, <2>8 DEF AnswerRight
  <2> QED BY <2>1, <2>3, <2>4, <2>5, <2>9 DEF MboxInv
<1>5. CASE EarlyTake
  <2>1. /\ early /\ asker' = "done" /\ ram.head.code = "success"
        /\ UNCHANGED <<ram, view, cached, dirty>> /\ returned' = <<TRUE, ram.body>>
        /\ unread' = (unread \/ Head(from_vc) # "tags")
    BY <1>5 DEF EarlyTake, call, cache
  <2>2. MboxType'
    BY <1>1, <2>1 DEF MboxInv, MboxType
  <2>3. MboxBuffer'
    BY <2>1 DEF MboxBuffer
  <2>4. ~unread' => MboxTurn'
    BY <1>1, <1>2, <2>1 DEF MboxInv, MboxTurn, Quiet, Unanswered, Answered
  <2>5. ram.body = Value(asked)
    BY <1>1, <2>1 DEF MboxInv, MboxBuffer, Whole, Sound
  <2>6. AnswerRight'
    BY <1>1, <2>1, <2>5 DEF AnswerRight
  <2> QED BY <2>2, <2>3, <2>4, <2>6 DEF MboxInv
<1> QED BY <1>3, <1>4, <1>5

LEMMA MboxStep ==
  ASSUME MboxInv, [MNext]_mvars
  PROVE  MboxInv'
<1>1. CASE UNCHANGED mvars
  <2>1. UNCHANGED <<asker, early, asked, offset, ram, view, cached, dirty, to_vc, from_vc, unread, returned>>
    BY <1>1 DEF mvars, call, cache
  <2>2. MboxType' /\ MboxBuffer'
    BY <2>1 DEF MboxInv, MboxType, MboxBuffer, Whole, Alone, Sound
  <2>3. MboxTurn => MboxTurn'
    BY <2>1 DEF MboxTurn, Quiet, Unanswered, Answered, Alone, NoTags, OneTags
  <2> QED BY <2>1, <2>2, <2>3 DEF MboxInv, AnswerRight
<1>2. ASSUME NEW t \in Tags, EarlyAsk(t) \/ Ask(t) PROVE MboxInv'
  BY <1>2, MboxCore
<1>3. CASE Done
  BY <1>3, MboxDone
<1>4. CASE CacheOn \/ FlushRequest \/ Send
  BY <1>4, MboxSend
<1>5. CASE Answer \/ Foreign
  BY <1>5, MboxOthers
<1>6. ASSUME NEW h \in Halves, Refetch(h) \/ DirtyFrame \/ Evict(h) PROVE MboxInv'
  BY <1>6, MboxCache
<1>7. CASE DirtyFrame
  BY <1>6, <1>7 DEF Halves
<1>8. CASE Skip \/ Take \/ EarlySkip \/ EarlyTake
  BY <1>8, MboxReads
<1> QED BY <1>1, <1>2, <1>3, <1>4, <1>5, <1>6, <1>7, <1>8 DEF MNext

\* early_get_mem_size returns the answer to its own tag whatever other words
\* come; mbox_request does so when its buffer starts a line of the cache and no
\* such word was taken for an answer before, and reports no other answer as a
\* success unless its buffer lies in two lines: for any tags, any depth of the
\* mailbox, and a cache that may fetch the buffer's line, write it back and have
\* it written to by the frames below at any time.
THEOREM AnswersSafe == MSpec => []AnswerRight
<1>1. MboxInv => AnswerRight
  BY DEF MboxInv
<1>2. MboxInv /\ [MNext]_mvars => MboxInv'
  BY MboxStep
<1> QED BY <1>1, <1>2, MboxInit, PTL DEF MSpec
=============================================================================
