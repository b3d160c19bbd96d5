------------------------------- MODULE LogAbs -------------------------------
(***************************************************************************)
(* What the kernel log promises: a bounded queue.  An accepted message is  *)
(* printed, in the order of acceptance, before the queue lets go of it;    *)
(* none is accepted while the queue is printed.  The queue may be printed  *)
(* again as a whole: the store that empties it can fail.                   *)
(***************************************************************************)
EXTENDS Integers, Sequences

CONSTANTS Callers, Capacity

VARIABLES queue,  \* the callers whose messages were accepted and not dropped
          out     \* how many of them the flush has printed

vars == <<queue, out>>

Init == queue = <<>> /\ out = 0

Accept(p) == /\ out = 0 /\ Len(queue) < Capacity
             /\ queue' = Append(queue, p)
             /\ UNCHANGED out

PrintNext == out < Len(queue) /\ out' = out + 1 /\ UNCHANGED queue

Flushed == out = Len(queue) /\ out' = 0 /\ queue' \in {<<>>, queue}

Next == PrintNext \/ Flushed \/ \E p \in Callers : Accept(p)

Spec == Init /\ [][Next]_vars
=============================================================================
