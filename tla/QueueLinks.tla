----------------------------- MODULE QueueLinks -----------------------------
(***************************************************************************)
(* The intrusive queues of src/src/common/queue.c: rings of links through  *)
(* a head and its entries, and the walk of queue_iter_safe, whose body may *)
(* take the entry it is at out of the queue.  holds and due are history    *)
(* variables: what each queue should hold, as the sequences of TaskQueues  *)
(* that Sched uses, and what the walk should still come to.                *)
(***************************************************************************)
EXTENDS TaskQueues

CONSTANTS QHeads, QEntries, NoEntry

ASSUME QueueAssumption == /\ QHeads \cap QEntries = {}
                          /\ NoEntry \notin QHeads \cup QEntries

VARIABLES next, prev,   \* the links of heads and entries
          result,       \* what the last call returned
          of, qe, qe_prev,  \* the queue that is walked and the loop's variables
          holds, due

links == <<next, prev>>
walk  == <<of, qe, qe_prev, due>>
qvars == <<next, prev, result, of, qe, qe_prev, holds, due>>

QNodes == QHeads \cup QEntries

\* queue_init of every head; the entries are queue_zero.
QInit == /\ next = [n \in QNodes |-> IF n \in QHeads THEN n ELSE NoEntry]
         /\ prev = next
         /\ result = NoEntry
         /\ of = NoEntry /\ qe = NoEntry /\ qe_prev = NoEntry /\ due = <<>>
         /\ holds = [h \in QHeads |-> <<>>]

\* An entry is given to one queue at a time: what OnePlace of Sched says.
Out(e) == e \notin Queued(holds)

\* The lock of a queue that is walked is held: only the body of the loop
\* changes it.
Unlocked(h) == h # of

\* Mutant of LinkHead: the old first entry keeps its link to the head.
LinkHeadNoPrev(q, e) == /\ next' = [next EXCEPT ![e] = next[q], ![q] = e]
                        /\ prev' = [prev EXCEPT ![e] = q]

LinkHead(q, e) == /\ next' = [next EXCEPT ![e] = next[q], ![q] = e]
                  /\ prev' = [prev EXCEPT ![e] = q, ![next[q]] = e]

LinkTail(q, e) == /\ next' = [next EXCEPT ![e] = q, ![prev[q]] = e]
                  /\ prev' = [prev EXCEPT ![e] = prev[q], ![q] = e]

\* rmqueue; e keeps its own links.
Unlink(e) == /\ prev' = [prev EXCEPT ![next[e]] = prev[e]]
             /\ next' = [next EXCEPT ![prev[e]] = next[e]]

EnqueueHead(q, e) == /\ Out(e) /\ Unlocked(q)
                     /\ LinkHead(q, e)
                     /\ holds' = EnqueueFirst(holds, q, e)
                     /\ result' = NoEntry
                     /\ UNCHANGED walk

EnqueueTail(q, e) == /\ Out(e) /\ Unlocked(q)
                     /\ LinkTail(q, e)
                     /\ holds' = Enqueue(holds, q, e)
                     /\ result' = NoEntry
                     /\ UNCHANGED walk

DequeueHead(q) ==
  /\ Unlocked(q)
  /\ next[q] # q
  /\ result' = next[q]
  /\ next' = [next EXCEPT ![q] = next[next[q]]]
  /\ prev' = [prev EXCEPT ![next[next[q]]] = q]
  /\ holds' = Dequeue(holds, q, 1)
  /\ UNCHANGED walk

DequeueTail(q) ==
  /\ Unlocked(q)
  /\ prev[q] # q
  /\ result' = prev[q]
  /\ prev' = [prev EXCEPT ![q] = prev[prev[q]]]
  /\ next' = [next EXCEPT ![prev[prev[q]]] = q]
  /\ holds' = Dequeue(holds, q, Len(holds[q]))
  /\ UNCHANGED walk

\* dequeue_head finds the head's next to be the head, dequeue_tail its prev.
DequeueEmpty(q) == /\ Unlocked(q)
                   /\ next[q] = q \/ prev[q] = q
                   /\ result' = NoEntry
                   /\ UNCHANGED <<next, prev, holds, walk>>

\* rmqueue of the k-th entry of q.
RmQueue(q, k) == /\ Unlocked(q)
                 /\ Unlink(holds[q][k])
                 /\ holds' = Dequeue(holds, q, k)
                 /\ result' = holds[q][k]
                 /\ UNCHANGED walk

---------------------------------------------------------------------------
(* queue_iter_safe, and the bodies it has in sched.c and in the tests. *)

IterStart(q) == /\ of = NoEntry
                /\ of' = q /\ qe' = next[q] /\ qe_prev' = prev[next[q]]
                /\ due' = holds[q]
                /\ UNCHANGED <<links, result, holds>>

\* Mutant of NextSafe: queue_iter's step.
NextPlain == next[qe]

\* queue_next_safe
NextSafe == IF next[qe_prev] = qe THEN next[qe] ELSE next[qe_prev]

\* The loop comes to the next entry, or to the head and ends.
IterNext == /\ of # NoEntry /\ qe # of
            /\ qe' = NextSafe
            /\ qe_prev' = prev[NextSafe]
            /\ due' = Tail(due)
            /\ UNCHANGED <<links, result, of, holds>>

IterEnd == /\ of # NoEntry /\ qe = of
           /\ of' = NoEntry /\ qe' = NoEntry /\ qe_prev' = NoEntry /\ due' = <<>>
           /\ UNCHANGED <<links, result, holds>>

\* The place of the entry the loop is at, when it is still linked.
Here(k) == of # NoEntry /\ qe # of /\ k \in 1 .. Len(holds[of]) /\ holds[of][k] = qe

\* The body takes the entry out, as sched_event_signal and the tick of the
\* wait queues do,
BodyRemoves(k) ==
  /\ Here(k)
  /\ Unlink(qe)
  /\ holds' = Dequeue(holds, of, k)
  /\ result' = qe
  /\ UNCHANGED walk

\* zeroes it when it is out, as queue_test does,
BodyZeroes == /\ of # NoEntry /\ qe # of /\ Out(qe)
              /\ next' = [next EXCEPT ![qe] = NoEntry]
              /\ prev' = [prev EXCEPT ![qe] = NoEntry]
              /\ UNCHANGED <<result, holds, walk>>

\* or links it, when it is out, to another queue, as the ready queues' tick does.
BodyLinks(q) == /\ of # NoEntry /\ qe # of /\ Out(qe) /\ q # of
                /\ LinkTail(q, qe)
                /\ holds' = Enqueue(holds, q, qe)
                /\ result' = NoEntry
                /\ UNCHANGED walk

Body == BodyZeroes \/ \/ \E q \in QHeads : BodyLinks(q)
                      \/ \E k \in 1 .. Len(holds[of]) : BodyRemoves(k)

QNext == \/ \E q \in QHeads : \/ \E e \in QEntries : EnqueueHead(q, e) \/ EnqueueTail(q, e)
                              \/ \E k \in 1 .. Len(holds[q]) : RmQueue(q, k)
                              \/ DequeueHead(q) \/ DequeueTail(q) \/ DequeueEmpty(q)
                              \/ IterStart(q)
         \/ IterNext \/ IterEnd \/ (of # NoEntry /\ Body)

QSpec == QInit /\ [][QNext]_qvars

---------------------------------------------------------------------------
(* Properties. *)

QTypeOK == /\ next \in [QNodes -> QNodes \cup {NoEntry}]
           /\ prev \in [QNodes -> QNodes \cup {NoEntry}]
           /\ result \in QEntries \cup {NoEntry}
           /\ of \in QHeads \cup {NoEntry}
           /\ qe \in QNodes \cup {NoEntry} /\ qe_prev \in QNodes \cup {NoEntry}
           /\ holds \in [QHeads -> Seq(QEntries)] /\ due \in Seq(QEntries)

\* The i-th node of q's ring: the head, the entries, and the head again.
Place(q, i) == IF i \in 1 .. Len(holds[q]) THEN holds[q][i] ELSE q

\* Every queue is one closed ring, the same in both directions, through the
\* entries it should hold and no other.
RingLinked == \A q \in QHeads : \A i \in 0 .. Len(holds[q]) :
                /\ next[Place(q, i)] = Place(q, i + 1)
                /\ prev[Place(q, i + 1)] = Place(q, i)

\* The walk comes to every entry the queue held when it began, in order and
\* once, whatever its body does with the one it is at.
VisitsAll == of # NoEntry => qe = IF due = <<>> THEN of ELSE Head(due)
=============================================================================
