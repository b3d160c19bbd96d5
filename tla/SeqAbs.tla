------------------------------- MODULE SeqAbs -------------------------------
(***************************************************************************)
(* What the calls of the kernel's linked structures (queue.c,              *)
(* linkedlist.c) promise: lists of entries, no entry in two places, and    *)
(* calls that put one in and give or take out one.                         *)
(***************************************************************************)
EXTENDS Integers, Sequences, SequencesExt

CONSTANTS Heads, Entries, None

VARIABLES lists,  \* the entries of each list, in order
          ret     \* the entry the last call gave, None if it gave none

vars == <<lists, ret>>

Init == lists = [h \in Heads |-> <<>>] /\ ret = None

Unlinked(e) == \A h \in Heads : \A i \in 1 .. Len(lists[h]) : lists[h][i] # e

Without(s, k) == SubSeq(s, 1, k - 1) \o SubSeq(s, k + 1, Len(s))

\* e joins h: before all others, behind them, or behind the k-th.
AddFirst(h, e) == /\ Unlinked(e)
                  /\ lists' = [lists EXCEPT ![h] = <<e>> \o @] /\ ret' = None
AddLast(h, e)  == /\ Unlinked(e)
                  /\ lists' = [lists EXCEPT ![h] = Append(@, e)] /\ ret' = None
AddAfter(h, e, k) ==
  /\ Unlinked(e)
  /\ lists' = [lists EXCEPT ![h] = SubSeq(@, 1, k) \o <<e>> \o SubSeq(@, k + 1, Len(@))]
  /\ ret' = None

\* The k-th entry of h leaves, and is given.
TakeOut(h, k) == /\ lists' = [lists EXCEPT ![h] = Without(@, k)]
                 /\ ret' = lists[h][k]

\* The k-th entry of h is given, and stays.
Look(h, k) == ret' = lists[h][k] /\ UNCHANGED lists

\* h has no entry to give.
Nothing(h) == lists[h] = <<>> /\ ret' = None /\ UNCHANGED lists

Next == \E h \in Heads :
          \/ \E e \in Entries : \/ AddFirst(h, e) \/ AddLast(h, e)
                                \/ \E k \in 1 .. Len(lists[h]) : AddAfter(h, e, k)
          \/ \E k \in 1 .. Len(lists[h]) : TakeOut(h, k) \/ Look(h, k)
          \/ Nothing(h)

Spec == Init /\ [][Next]_vars
=============================================================================
