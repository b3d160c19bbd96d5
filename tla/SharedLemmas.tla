---------------------------- MODULE SharedLemmas ---------------------------
(***************************************************************************)
(* Lemmas that the proofs of several components share: multiples and       *)
(* quotients, and TaskQueues, that is what linking a task at the tail of   *)
(* one queue of an array and unlinking one do to the array.                *)
(***************************************************************************)
EXTENDS TaskQueues, SequenceTheorems, NaturalsInduction, WellFoundedInduction,
        TLAPS

---------------------------------------------------------------------------
(* Arithmetic. *)

\* A multiple of s leaves no remainder.
LEMMA Multiple ==
  ASSUME NEW q \in Nat, NEW s \in Nat, s > 0
  PROVE  (q * s) % s = 0 /\ (q * s) \div s = q
OBVIOUS

\* A number without a remainder is the multiple that \div says.
LEMMA Divided ==
  ASSUME NEW p \in Nat, NEW s \in Nat, s > 0, p % s = 0
  PROVE  p \div s \in Nat /\ p = (p \div s) * s
OBVIOUS

\* A number lies in the interval of length s that \div says.
LEMMA Quotient ==
  ASSUME NEW p \in Nat, NEW s \in Nat, s > 0
  PROVE  /\ p \div s \in Nat
         /\ (p \div s) * s <= p /\ p < (p \div s) * s + s
OBVIOUS

\* The quotient of a number below n * s is below n.
LEMMA Bounded ==
  ASSUME NEW p \in Nat, NEW s \in Nat, NEW n \in Nat, s > 0, p < n * s
  PROVE  p \div s < n
OBVIOUS

\* The quotient of what lies in the a-th interval of length s.
LEMMA Within ==
  ASSUME NEW a \in Nat, NEW x \in Nat, NEW s \in Nat, s > 0, a * s <= x, x < a * s + s
  PROVE  x \div s = a
<1>1. PICK d \in Nat : x = a * s + d /\ d < s
  <2>1. x - a * s \in Nat /\ x = a * s + (x - a * s) /\ x - a * s < s
    OBVIOUS
  <2> QED BY <2>1
<1>2. x \div s \in Nat /\ (x \div s) * s <= x /\ x < (x \div s) * s + s
  BY Quotient
<1>3. CASE x \div s < a
  <2>1. x \div s + 1 <= a
    BY <1>2, <1>3
  <2>2. (x \div s + 1) * s <= a * s
    BY <1>2, <2>1
  <2> QED BY <1>2, <2>2
<1>4. CASE x \div s > a
  <2>1. a + 1 <= x \div s
    BY <1>2, <1>4
  <2>2. (a + 1) * s <= (x \div s) * s
    BY <1>2, <2>1
  <2> QED BY <1>2, <2>2
<1> QED BY <1>2, <1>3, <1>4

\* A multiple of s that is less than a multiple of s is less by s.
LEMMA NextMultiple ==
  ASSUME NEW p \in Nat, NEW s \in Nat, NEW n \in Nat, s > 0, p % s = 0, n % s = 0, p < n
  PROVE  p + s <= n
<1>1. PICK q \in Nat : p = q * s
  BY Divided
<1>2. PICK r \in Nat : n = r * s
  BY Divided
<1>3. q < r
  <2>1. CASE q >= r
    <3>1. q * s >= r * s
      BY <2>1
    <3> QED BY <1>1, <1>2, <3>1
  <2> QED BY <2>1
<1>4. (q + 1) * s <= r * s
  BY <1>3
<1> QED BY <1>1, <1>2, <1>4

\* A set of numbers that is not empty has a least one.
LEMMA Least ==
  ASSUME NEW S \in SUBSET Nat, S # {}
  PROVE  \E x \in S : \A y \in S : x <= y
<1>1. PICK x \in S : \A y \in S : ~ (<<y, x>> \in OpToRel(<, Nat))
  BY NatLessThanWellFounded, WFMin, Zenon
<1>2. \A y \in S : ~ (<<y, x>> \in {ss \in Nat \X Nat : ss[1] < ss[2]})
  BY <1>1 DEF OpToRel
<1>3. ASSUME NEW y \in S PROVE x <= y
  <2>1. <<y, x>> \in Nat \X Nat
    OBVIOUS
  <2>2. ~ (y < x)
    BY <1>2, <2>1
  <2> QED BY <2>2
<1> QED BY <1>3

---------------------------------------------------------------------------
(* Queues. *)

\* rmqueue of the k-th entry keeps the others, in their order.
LEMMA RemoveAtFacts ==
  ASSUME NEW S, NEW q \in Seq(S), NEW k \in 1 .. Len(q)
  PROVE  /\ RemoveAt(q, k) \in Seq(S)
         /\ Len(RemoveAt(q, k)) = Len(q) - 1
         /\ \A j \in 1 .. Len(q) - 1 :
              RemoveAt(q, k)[j] = IF j < k THEN q[j] ELSE q[j + 1]
<1> DEFINE a == SubSeq(q, 1, k - 1)
           b == SubSeq(q, k + 1, Len(q))
<1>1. Len(q) \in Nat /\ \A j \in 1 .. Len(q) : q[j] \in S
  BY ElementOfSeq
<1>2. /\ a \in Seq(S) /\ Len(a) = k - 1
      /\ \A j \in 1 .. k - 1 : a[j] = q[j]
  BY <1>1, SubSeqProperties
<1>3. /\ b \in Seq(S) /\ Len(b) = Len(q) - k
      /\ \A j \in 1 .. Len(q) - k : b[j] = q[k + j]
  BY <1>1, SubSeqProperties
<1> HIDE DEF a, b
<1>4. /\ a \o b \in Seq(S) /\ Len(a \o b) = Len(q) - 1
      /\ \A j \in 1 .. Len(q) - 1 : (a \o b)[j] = IF j < k THEN a[j] ELSE b[j - (k - 1)]
  <2>1. /\ a \o b \in Seq(S) /\ Len(a \o b) = Len(a) + Len(b)
        /\ \A j \in 1 .. Len(a) + Len(b) :
             (a \o b)[j] = IF j <= Len(a) THEN a[j] ELSE b[j - Len(a)]
    BY <1>2, <1>3, ConcatProperties
  <2>2. Len(a) = k - 1 /\ Len(b) = Len(q) - k /\ Len(a) + Len(b) = Len(q) - 1
    BY <1>1, <1>2, <1>3
  <2>3. \A j \in 1 .. Len(q) - 1 : j <= k - 1 <=> j < k
    BY <1>1
  <2> QED BY <2>1, <2>2, <2>3
<1>5. \A j \in 1 .. Len(q) - 1 : (a \o b)[j] = IF j < k THEN q[j] ELSE q[j + 1]
  <2> SUFFICES ASSUME NEW j \in 1 .. Len(q) - 1
               PROVE  (a \o b)[j] = IF j < k THEN q[j] ELSE q[j + 1]
    OBVIOUS
  <2>1. CASE j < k
    BY <1>1, <1>2, <1>4, <2>1
  <2>2. CASE ~(j < k)
    <3>1. j - (k - 1) \in 1 .. Len(q) - k /\ k + (j - (k - 1)) = j + 1
      BY <1>1, <2>2
    <3> QED BY <1>3, <1>4, <2>2, <3>1
  <2> QED BY <2>1, <2>2
<1> QED BY <1>4, <1>5 DEF RemoveAt, a, b

\* The entries of an array of queues, by position.
LEMMA QueuedElements ==
  ASSUME NEW I, NEW S, NEW Q \in [I -> Seq(S)]
  PROVE  \A t : t \in Queued(Q) <=> \E i \in I : \E k \in 1 .. Len(Q[i]) : t = Q[i][k]
<1>1. \A i \in I : Q[i] \in Seq(S) /\ DOMAIN Q[i] = 1 .. Len(Q[i])
  BY LenProperties
<1> QED BY <1>1 DEF Queued, Range

\* enqueue_tail adds one entry and duplicates none.
LEMMA EnqueueFacts ==
  ASSUME NEW I, NEW S, NEW Q \in [I -> Seq(S)], NEW i \in I, NEW t \in S
  PROVE  /\ Enqueue(Q, i, t) \in [I -> Seq(S)]
         /\ Queued(Enqueue(Q, i, t)) = Queued(Q) \cup {t}
         /\ NoDuplicates(Q) /\ t \notin Queued(Q) => NoDuplicates(Enqueue(Q, i, t))
<1> DEFINE R == Enqueue(Q, i, t)
<1>1. /\ R \in [I -> Seq(S)]
      /\ \A j \in I : R[j] = IF j = i THEN Append(Q[i], t) ELSE Q[j]
  BY AppendProperties DEF Enqueue
<1>2. /\ Len(Q[i]) \in Nat
      /\ Len(R[i]) = Len(Q[i]) + 1
      /\ \A k \in 1 .. Len(Q[i]) : R[i][k] = Q[i][k]
      /\ R[i][Len(Q[i]) + 1] = t
  <2>1. Q[i] \in Seq(S) /\ R[i] = Append(Q[i], t)
    BY <1>1
  <2> HIDE DEF R
  <2> QED BY <2>1, AppendProperties, LenProperties
<1>3. \A j \in I : Len(Q[j]) \in Nat
  OBVIOUS
<1> HIDE DEF R
<1>4. Queued(R) = Queued(Q) \cup {t}
  <2>1. ASSUME NEW u, u \in Queued(R) PROVE u \in Queued(Q) \cup {t}
    <3>1. PICK j \in I, k \in Nat : k \in 1 .. Len(R[j]) /\ u = R[j][k]
      BY <1>1, <1>3, <2>1, QueuedElements
    <3>2. CASE j = i
      <4>1. k \in 1 .. Len(Q[i]) \/ k = Len(Q[i]) + 1
        BY <1>2, <3>1, <3>2
      <4> QED BY <1>2, <3>1, <3>2, <4>1, QueuedElements
    <3>3. CASE j # i
      BY <1>1, <3>1, <3>3, QueuedElements
    <3> QED BY <3>2, <3>3
  <2>2. ASSUME NEW u, u \in Queued(Q) PROVE u \in Queued(R)
    <3>1. PICK j \in I, k \in Nat : k \in 1 .. Len(Q[j]) /\ u = Q[j][k]
      BY <2>2, QueuedElements
    <3>2. k \in 1 .. Len(R[j]) /\ u = R[j][k]
      BY <1>1, <1>2, <3>1
    <3> QED BY <1>1, <3>2, QueuedElements
  <2>3. t \in Queued(R)
    <3>1. Len(Q[i]) + 1 \in 1 .. Len(R[i])
      BY <1>2
    <3> QED BY <1>1, <1>2, <3>1, QueuedElements
  <2> QED BY <2>1, <2>2, <2>3
<1>5. ASSUME NoDuplicates(Q), t \notin Queued(Q) PROVE NoDuplicates(R)
  <2>1. \A j \in I, k \in Nat : k \in 1 .. Len(R[j]) =>
          \/ k \in 1 .. Len(Q[j]) /\ R[j][k] = Q[j][k] /\ R[j][k] # t
          \/ j = i /\ k = Len(Q[i]) + 1 /\ R[j][k] = t
    <3> SUFFICES ASSUME NEW j \in I, NEW k \in 1 .. Len(R[j])
                 PROVE  \/ k \in 1 .. Len(Q[j]) /\ R[j][k] = Q[j][k] /\ R[j][k] # t
                        \/ j = i /\ k = Len(Q[i]) + 1 /\ R[j][k] = t
      OBVIOUS
    <3>1. CASE k \in 1 .. Len(Q[j])
      <4>1. Q[j][k] # t
        BY <1>5, <3>1, QueuedElements
      <4> QED BY <1>1, <1>2, <3>1, <4>1
    <3>2. CASE k \notin 1 .. Len(Q[j])
      BY <1>1, <1>2, <1>3, <3>2
    <3> QED BY <3>1, <3>2
  <2>2. SUFFICES ASSUME NEW j \in I, NEW l \in I,
                        NEW k \in 1 .. Len(R[j]), NEW m \in 1 .. Len(R[l]),
                        R[j][k] = R[l][m]
                 PROVE  j = l /\ k = m
    BY <1>1 DEF NoDuplicates
  <2>3. k \in Nat /\ m \in Nat
    BY <1>1, <1>2, <1>3
  <2>4. CASE R[j][k] = t
    BY <2>1, <2>2, <2>3, <2>4
  <2>5. CASE R[j][k] # t
    <3>1. /\ k \in 1 .. Len(Q[j]) /\ R[j][k] = Q[j][k]
          /\ m \in 1 .. Len(Q[l]) /\ R[l][m] = Q[l][m]
      BY <2>1, <2>2, <2>3, <2>5
    <3>2. Q[j][k] = Q[l][m] /\ j \in DOMAIN Q /\ l \in DOMAIN Q
      BY <2>2, <3>1
    <3> QED BY <1>5, <3>1, <3>2 DEF NoDuplicates
  <2> QED BY <2>4, <2>5
<1> QED BY <1>1, <1>4, <1>5 DEF R

\* rmqueue and dequeue_head remove exactly the entry they name.
LEMMA DequeueFacts ==
  ASSUME NEW I, NEW S, NEW Q \in [I -> Seq(S)], NEW i \in I, NEW k \in 1 .. Len(Q[i])
  PROVE  /\ Q[i][k] \in S
         /\ Q[i][k] \in Queued(Q)
         /\ Dequeue(Q, i, k) \in [I -> Seq(S)]
         /\ NoDuplicates(Q) => /\ NoDuplicates(Dequeue(Q, i, k))
                               /\ Queued(Dequeue(Q, i, k)) = Queued(Q) \ {Q[i][k]}
<1> DEFINE R == Dequeue(Q, i, k)
<1>0. Q[i][k] \in S /\ Q[i][k] \in Queued(Q)
  BY ElementOfSeq, QueuedElements
<1>1. /\ R \in [I -> Seq(S)]
      /\ \A j \in I : R[j] = IF j = i THEN RemoveAt(Q[i], k) ELSE Q[j]
  BY RemoveAtFacts DEF Dequeue
<1>2. /\ Len(R[i]) = Len(Q[i]) - 1
      /\ \A j \in 1 .. Len(Q[i]) - 1 : R[i][j] = IF j < k THEN Q[i][j] ELSE Q[i][j + 1]
  BY <1>1, RemoveAtFacts
<1>3. \A j \in I : Len(Q[j]) \in Nat
  OBVIOUS
<1> HIDE DEF R
<1> DEFINE Old(j, l) == IF j = i /\ l >= k THEN l + 1 ELSE l
<1>4. ASSUME NEW j \in I, NEW l \in 1 .. Len(R[j])
      PROVE  /\ Old(j, l) \in 1 .. Len(Q[j])
             /\ R[j][l] = Q[j][Old(j, l)]
             /\ j = i => Old(j, l) # k
  BY <1>1, <1>2, <1>3
<1>5. ASSUME NoDuplicates(Q) PROVE NoDuplicates(R)
  <2> SUFFICES ASSUME NEW j \in I, NEW m \in I,
                      NEW l \in 1 .. Len(R[j]), NEW n \in 1 .. Len(R[m]),
                      R[j][l] = R[m][n]
               PROVE  j = m /\ l = n
    BY <1>1 DEF NoDuplicates
  <2>1. j = m /\ Old(j, l) = Old(m, n)
    <3> HIDE DEF Old
    <3>1. /\ Old(j, l) \in 1 .. Len(Q[j]) /\ Old(m, n) \in 1 .. Len(Q[m])
          /\ Q[j][Old(j, l)] = Q[m][Old(m, n)]
          /\ j \in DOMAIN Q /\ m \in DOMAIN Q
      BY <1>4
    <3> QED BY <1>5, <3>1 DEF NoDuplicates
  <2>2. l \in Nat /\ n \in Nat /\ k \in Nat
    BY <1>1, <1>2, <1>3
  <2> QED BY <2>1, <2>2
<1>6. ASSUME NoDuplicates(Q) PROVE Queued(R) = Queued(Q) \ {Q[i][k]}
  <2>1. ASSUME NEW u, u \in Queued(R) PROVE u \in Queued(Q) \ {Q[i][k]}
    <3>1. PICK j \in I, l \in Nat : l \in 1 .. Len(R[j]) /\ u = R[j][l]
      BY <1>1, <2>1, QueuedElements
    <3> HIDE DEF Old
    <3>2. /\ Old(j, l) \in 1 .. Len(Q[j]) /\ u = Q[j][Old(j, l)]
          /\ j = i => Old(j, l) # k
      BY <1>4, <3>1
    <3>3. u # Q[i][k]
      BY <1>6, <3>2 DEF NoDuplicates
    <3> QED BY <3>2, <3>3, QueuedElements
  <2>2. ASSUME NEW u, u \in Queued(Q), u # Q[i][k] PROVE u \in Queued(R)
    <3>1. PICK j \in I, l \in Nat : l \in 1 .. Len(Q[j]) /\ u = Q[j][l]
      BY <2>2, QueuedElements
    <3> DEFINE m == IF j = i /\ l > k THEN l - 1 ELSE l
    <3>2. m \in 1 .. Len(R[j]) /\ u = R[j][m]
      BY <1>1, <1>2, <1>3, <2>2, <3>1
    <3> QED BY SMTT(30), <1>1, <3>2, QueuedElements
  <2> QED BY <2>1, <2>2
<1> QED BY <1>0, <1>1, <1>5, <1>6 DEF R

\* What a queue of the array holds after enqueue_tail, and one after rmqueue.
LEMMA EnqueueMembers ==
  ASSUME NEW I, NEW S, NEW Q \in [I -> Seq(S)], NEW i \in I, NEW t \in S,
         NEW j \in I, NEW l \in 1 .. Len(Enqueue(Q, i, t)[j])
  PROVE  \/ \E k \in 1 .. Len(Q[j]) : Enqueue(Q, i, t)[j][l] = Q[j][k]
         \/ j = i /\ Enqueue(Q, i, t)[j][l] = t
<1>1. CASE j # i
  <2>1. Enqueue(Q, i, t)[j] = Q[j]
    BY <1>1 DEF Enqueue
  <2> QED BY <2>1
<1>2. CASE j = i
  <2>1. Enqueue(Q, i, t)[j] = Append(Q[j], t) /\ Q[j] \in Seq(S)
    BY <1>2 DEF Enqueue
  <2>2. /\ Len(Append(Q[j], t)) = Len(Q[j]) + 1 /\ Len(Q[j]) \in Nat
        /\ \A k \in 1 .. Len(Q[j]) : Append(Q[j], t)[k] = Q[j][k]
        /\ Append(Q[j], t)[Len(Q[j]) + 1] = t
    BY <2>1, AppendProperties, LenProperties
  <2>3. l \in 1 .. Len(Q[j]) \/ l = Len(Q[j]) + 1
    BY <2>1, <2>2
  <2> QED BY <1>2, <2>1, <2>2, <2>3
<1> QED BY <1>1, <1>2

LEMMA RemoveAtMembers ==
  ASSUME NEW S, NEW q \in Seq(S), NEW k \in 1 .. Len(q), NEW l \in 1 .. Len(RemoveAt(q, k))
  PROVE  \E m \in 1 .. Len(q) : RemoveAt(q, k)[l] = q[m]
<1>1. /\ Len(RemoveAt(q, k)) = Len(q) - 1 /\ Len(q) \in Nat
      /\ \A n \in 1 .. Len(q) - 1 : RemoveAt(q, k)[n] = IF n < k THEN q[n] ELSE q[n + 1]
  BY RemoveAtFacts
<1>2. l \in 1 .. Len(q) /\ l + 1 \in 1 .. Len(q) /\ l \in 1 .. Len(q) - 1
  BY <1>1
<1> QED BY <1>1, <1>2

\* Where the entries stand after enqueue_tail: the old ones where they stood,
\* the new one behind all of its queue.
LEMMA EnqueuePlaces ==
  ASSUME NEW I, NEW S, NEW Q \in [I -> Seq(S)], NEW i \in I, NEW t \in S
  PROVE  /\ \A j \in I : \A k \in 1 .. Len(Q[j]) :
              k \in 1 .. Len(Enqueue(Q, i, t)[j]) /\ Enqueue(Q, i, t)[j][k] = Q[j][k]
         /\ Len(Q[i]) + 1 \in 1 .. Len(Enqueue(Q, i, t)[i])
         /\ Enqueue(Q, i, t)[i][Len(Q[i]) + 1] = t
         /\ \A j \in I : \A l \in 1 .. Len(Enqueue(Q, i, t)[j]) :
              \/ l \in 1 .. Len(Q[j]) /\ Enqueue(Q, i, t)[j][l] = Q[j][l]
              \/ j = i /\ l = Len(Q[i]) + 1 /\ Enqueue(Q, i, t)[j][l] = t
<1> DEFINE R == Enqueue(Q, i, t)
<1>1. \A j \in I : R[j] = IF j = i THEN Append(Q[i], t) ELSE Q[j]
  BY DEF Enqueue
<1>2. \A j \in I : Len(Q[j]) \in Nat
  OBVIOUS
<1> HIDE DEF R
<1>3. /\ Len(R[i]) = Len(Q[i]) + 1
      /\ \A k \in 1 .. Len(Q[i]) : R[i][k] = Q[i][k]
      /\ R[i][Len(Q[i]) + 1] = t
  <2>1. Q[i] \in Seq(S) /\ R[i] = Append(Q[i], t)
    BY <1>1
  <2> QED BY <2>1, AppendProperties, LenProperties
<1>4. \A j \in I : j # i => R[j] = Q[j]
  BY <1>1
<1>5. ASSUME NEW j \in I, NEW k \in 1 .. Len(Q[j]) PROVE k \in 1 .. Len(R[j]) /\ R[j][k] = Q[j][k]
  BY <1>2, <1>3, <1>4
<1>6. Len(Q[i]) + 1 \in 1 .. Len(R[i])
  BY <1>2, <1>3
<1>7. ASSUME NEW j \in I, NEW l \in 1 .. Len(R[j])
      PROVE  \/ l \in 1 .. Len(Q[j]) /\ R[j][l] = Q[j][l]
             \/ j = i /\ l = Len(Q[i]) + 1 /\ R[j][l] = t
  BY <1>2, <1>3, <1>4
<1> QED BY <1>3, <1>5, <1>6, <1>7 DEF R

\* Where the entries stand after rmqueue of the k-th entry of queue i: those
\* behind it one place further forward, all others where they stood.
LEMMA DequeuePlaces ==
  ASSUME NEW I, NEW S, NEW Q \in [I -> Seq(S)], NEW i \in I, NEW k \in 1 .. Len(Q[i])
  PROVE  /\ \A j \in I : \A l \in 1 .. Len(Dequeue(Q, i, k)[j]) :
              \E m \in 1 .. Len(Q[j]) : /\ Dequeue(Q, i, k)[j][l] = Q[j][m]
                                        /\ m = IF j = i /\ l >= k THEN l + 1 ELSE l
         /\ \A j \in I : \A m \in 1 .. Len(Q[j]) : (j = i => m # k) =>
              \E l \in 1 .. Len(Dequeue(Q, i, k)[j]) :
                /\ Dequeue(Q, i, k)[j][l] = Q[j][m]
                /\ l = IF j = i /\ m > k THEN m - 1 ELSE m
<1> DEFINE R == Dequeue(Q, i, k)
<1>1. \A j \in I : R[j] = IF j = i THEN RemoveAt(Q[i], k) ELSE Q[j]
  BY DEF Dequeue
<1>2. \A j \in I : Len(Q[j]) \in Nat
  OBVIOUS
<1> HIDE DEF R
<1>3. /\ Len(R[i]) = Len(Q[i]) - 1
      /\ \A j \in 1 .. Len(Q[i]) - 1 : R[i][j] = IF j < k THEN Q[i][j] ELSE Q[i][j + 1]
  BY <1>1, RemoveAtFacts
<1>4. \A j \in I : j # i => R[j] = Q[j]
  BY <1>1
<1>5. ASSUME NEW j \in I, NEW l \in 1 .. Len(R[j])
      PROVE  \E m \in 1 .. Len(Q[j]) : /\ R[j][l] = Q[j][m]
                                       /\ m = IF j = i /\ l >= k THEN l + 1 ELSE l
  <2>1. CASE j = i
    <3>1. /\ l \in 1 .. Len(Q[i]) - 1 /\ l \in 1 .. Len(Q[i]) /\ l + 1 \in 1 .. Len(Q[i])
          /\ l \in Int /\ k \in Int
      BY <1>2, <1>3, <2>1
    <3> QED BY <1>3, <2>1, <3>1
  <2>2. CASE j # i
    BY <1>4, <2>2
  <2> QED BY <2>1, <2>2
<1>6. ASSUME NEW j \in I, NEW m \in 1 .. Len(Q[j]), j = i => m # k
      PROVE  \E l \in 1 .. Len(R[j]) : /\ R[j][l] = Q[j][m]
                                       /\ l = IF j = i /\ m > k THEN m - 1 ELSE m
  <2>1. CASE j = i /\ m > k
    <3>1. /\ m - 1 \in 1 .. Len(Q[i]) - 1 /\ ~(m - 1 < k) /\ (m - 1) + 1 = m
          /\ m - 1 \in 1 .. Len(R[j])
      BY <1>2, <1>3, <2>1
    <3> QED BY <1>3, <2>1, <3>1
  <2>2. CASE j = i /\ ~(m > k)
    <3>1. /\ m \in 1 .. Len(Q[i]) - 1 /\ m < k /\ m \in 1 .. Len(R[j])
      BY <1>2, <1>3, <1>6, <2>2
    <3> QED BY <1>3, <2>2, <3>1
  <2>3. CASE j # i
    BY <1>4, <2>3
  <2> QED BY <2>1, <2>2, <2>3
<1> QED BY <1>5, <1>6 DEF R
============================================================================
