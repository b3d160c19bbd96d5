----------------------------- MODULE TaskQueues ----------------------------
(***************************************************************************)
(* Arrays of intrusive queues as the scheduler uses them (queue.c): the    *)
(* ready_queue[] and wait_queue[] arrays are functions to sequences.       *)
(***************************************************************************)
EXTENDS Integers, Sequences, SequencesExt

\* enqueue_head of t on queue i; a mutant of Enqueue.
EnqueueFirst(queues, i, t) == [queues EXCEPT ![i] = <<t>> \o @]

\* Mutants of Dequeue: unlinking the entry behind the k-th; unlinking all that
\* follows the k-th with it.
DequeueNext(queues, i, k) ==
  [queues EXCEPT ![i] = RemoveAt(@, IF k < Len(@) THEN k + 1 ELSE k)]
DequeueRest(queues, i, k) == [queues EXCEPT ![i] = SubSeq(@, 1, k - 1)]

\* enqueue_tail of t on queue i
Enqueue(queues, i, t) == [queues EXCEPT ![i] = Append(@, t)]

\* rmqueue of the k-th entry of queue i; dequeue_head removes the first.
Dequeue(queues, i, k) == [queues EXCEPT ![i] = RemoveAt(@, k)]

\* The entries linked into some queue of the array.
Queued(queues) == UNION {Range(queues[i]) : i \in DOMAIN queues}

\* An entry is linked into one position of the array at most.
NoDuplicates(queues) ==
  \A i, j \in DOMAIN queues :
    \A k \in 1 .. Len(queues[i]), l \in 1 .. Len(queues[j]) :
      queues[i][k] = queues[j][l] => i = j /\ k = l
=============================================================================
