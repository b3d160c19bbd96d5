----------------------------- MODULE LinkedList -----------------------------
(***************************************************************************)
(* The linked lists of src/src/common/linkedlist.c, singly and doubly      *)
(* linked, with the head's count and its link to the last node.            *)
(***************************************************************************)
EXTENDS Integers, Sequences, FiniteSets, SequencesExt

CONSTANTS Lists, Nodes, Data, Null

ASSUME ListAssumption == IsFiniteSet(Nodes) /\ Null \notin Nodes \cup Data

VARIABLES type,                     \* of all heads: "SLL" or "DLL"
          first, final, count,      \* next, last and count of each head
          succ, pred, data,         \* next, dll.last and data of each node
          given                     \* the node the last call returned

heads == <<first, final, count>>
lvars == <<type, first, final, count, succ, pred, data, given>>

\* ll_head_init and ll_node_init of everything there is.
LInit == /\ type \in {"SLL", "DLL"}
         /\ first = [h \in Lists |-> Null] /\ final = first
         /\ count = [h \in Lists |-> 0]
         /\ succ = [n \in Nodes |-> Null] /\ pred = succ /\ data = succ
         /\ given = Null

HasLast == type = "DLL"

\* What LL_ITER_LIST comes to, from the head to the first Null.
Chain(h) ==
  LET node[i \in 1 .. Cardinality(Nodes) + 1] ==
        IF i = 1 THEN first[h]
        ELSE IF node[i - 1] = Null THEN Null ELSE succ[node[i - 1]]
  IN [i \in {j \in 1 .. Cardinality(Nodes) : node[j] # Null} |-> node[i]]

\* ll_node_exists
Exists(h, n) == /\ count[h] # 0
                /\ n \in Range(Chain(h))

\* Mutant of FinalAfter: the head's last stays the node it was.
FinalKept(h, n, last) == final[h]

\* The head's last when n has joined h behind last.
FinalAfter(h, n, last) == IF final[h] = last THEN n ELSE final[h]

\* _ll_append_node.  The first node of a list keeps its own links.
AppendNode(h, n, last) ==
  LET front == last \in {Null, n}
      after == IF front THEN first[h] ELSE succ[last]
  IN IF first[h] = Null
     THEN /\ first' = [first EXCEPT ![h] = n] /\ final' = [final EXCEPT ![h] = n]
          /\ UNCHANGED <<succ, pred>>
     ELSE /\ first' = IF front THEN [first EXCEPT ![h] = n] ELSE first
          /\ succ' = IF front THEN [succ EXCEPT ![n] = after]
                     ELSE [succ EXCEPT ![last] = n, ![n] = after]
          /\ pred' = [m \in Nodes |-> CASE ~HasLast -> pred[m]
                                        [] HasLast /\ m = n -> last
                                        [] HasLast /\ m = after -> n
                                        [] OTHER -> pred[m]]
          /\ final' = [final EXCEPT ![h] = FinalAfter(h, n, last)]

\* The node before n: found by a walk, or by n's own link.
Before(h, n) == IF HasLast THEN pred[n]
                ELSE IF first[h] = n THEN Null
                ELSE CHOOSE m \in Range(Chain(h)) : succ[m] = n

\* _ll_delete_node; n keeps its own links.
DeleteNode(h, n, last) ==
  IF count[h] = 1
  THEN /\ first' = [first EXCEPT ![h] = Null] /\ final' = [final EXCEPT ![h] = Null]
       /\ UNCHANGED <<succ, pred>>
  ELSE /\ first' = IF last = Null THEN [first EXCEPT ![h] = succ[n]] ELSE first
       /\ succ' = IF last = Null THEN succ ELSE [succ EXCEPT ![last] = succ[n]]
       /\ pred' = IF HasLast /\ succ[n] # Null
                  THEN [pred EXCEPT ![succ[n]] = pred[n]] ELSE pred
       /\ final' = IF final[h] = n THEN [final EXCEPT ![h] = last] ELSE final

---------------------------------------------------------------------------
(* The calls.  A node that is given to one is in no list, and was          *)
(* initialised since it last was if it may become the only one of a list.  *)

InNone(n) == \A h \in Lists : ~Exists(h, n)
Fresh(h, n) == InNone(n) /\ (count[h] = 0 => succ[n] = Null /\ pred[n] = Null)

\* ll_node_init
NodeInit(n, d) == /\ InNone(n)
                  /\ succ' = [succ EXCEPT ![n] = Null]
                  /\ pred' = [pred EXCEPT ![n] = Null]
                  /\ data' = [data EXCEPT ![n] = d]
                  /\ given' = Null
                  /\ UNCHANGED <<type, heads>>

Grow(h) == count' = [count EXCEPT ![h] = @ + 1] /\ given' = Null /\ UNCHANGED <<type, data>>

\* Mutant of Push: the node is put in front.
PushFront(h, n) == Fresh(h, n) /\ AppendNode(h, n, Null) /\ Grow(h)

\* ll_push_list, ll_queue_list and ll_insert_node
Push(h, n) == /\ Fresh(h, n)
              /\ AppendNode(h, n, final[h])
              /\ Grow(h)
QueueNode(h, n) == /\ Fresh(h, n)
                   /\ AppendNode(h, n, Null)
                   /\ Grow(h)
Insert(h, n, last) == /\ Fresh(h, n) /\ Exists(h, last)
                      /\ AppendNode(h, n, last)
                      /\ Grow(h)

Shrink(h, n) == /\ DeleteNode(h, n, Before(h, n))
                /\ count' = [count EXCEPT ![h] = @ - 1] /\ given' = n /\ UNCHANGED <<type, data>>

\* The places of h's nodes with datum d; the loops stop at the first.
With(h, d) == {k \in DOMAIN Chain(h) : data[Chain(h)[k]] = d}

\* ll_delete_node, ll_pop_list and ll_delete_list_data
Delete(h, n) == /\ Exists(h, n)
                /\ Shrink(h, n)
Pop(h) == Exists(h, final[h]) /\ Shrink(h, final[h])
DeleteData(h, d) == With(h, d) # {} /\ Shrink(h, Chain(h)[Min(With(h, d))])

\* ll_peek_first, ll_peek_last, ll_search_data, and ll_pop_list of an empty list
PeekFirst(h) == /\ given' = IF count[h] = 0 THEN Null ELSE first[h]
                /\ UNCHANGED <<type, heads, succ, pred, data>>
PeekLast(h) == /\ given' = IF count[h] = 0 THEN Null ELSE final[h]
               /\ UNCHANGED <<type, heads, succ, pred, data>>
SearchData(h, d) ==
  /\ given' = IF With(h, d) = {} THEN Null ELSE Chain(h)[Min(With(h, d))]
  /\ UNCHANGED <<type, heads, succ, pred, data>>
PopEmpty(h) == /\ count[h] = 0 /\ given' = Null
               /\ UNCHANGED <<type, heads, succ, pred, data>>

LNext == \E h \in Lists :
           \/ \E n \in Nodes :
                \/ Push(h, n) \/ QueueNode(h, n) \/ Delete(h, n)
                \/ \E last \in Nodes : Insert(h, n, last)
           \/ \E d \in Data : DeleteData(h, d) \/ SearchData(h, d)
           \/ Pop(h) \/ PopEmpty(h) \/ PeekFirst(h) \/ PeekLast(h)
           \/ \E n \in Nodes, d \in Data : NodeInit(n, d)

LSpec == LInit /\ [][LNext]_lvars

---------------------------------------------------------------------------
(* Properties. *)

LAbs == INSTANCE SeqAbs WITH Heads <- Lists, Entries <- Nodes, None <- Null,
                             lists <- [h \in Lists |-> Chain(h)], ret <- given

\* Each call does to its list, and returns, what its name says, and leaves the
\* others; to initialise a node does nothing to a list.
ListCalls ==
  [][\A h \in Lists :
       /\ \A n \in Nodes :
            /\ Push(h, n) => LAbs!AddLast(h, n)
            /\ QueueNode(h, n) => LAbs!AddFirst(h, n)
            /\ Delete(h, n) => \E k \in 1 .. Len(Chain(h)) : LAbs!TakeOut(h, k) /\ given' = n
            /\ \A k \in 1 .. Len(Chain(h)) : Insert(h, n, Chain(h)[k]) => LAbs!AddAfter(h, n, k)
            /\ \A d \in Data : NodeInit(n, d) => Chain(h)' = Chain(h)
       /\ Pop(h) => LAbs!TakeOut(h, Len(Chain(h)))
       /\ \A d \in Data : DeleteData(h, d) => LAbs!TakeOut(h, Min(With(h, d)))
       /\ PeekFirst(h) => IF Chain(h) = <<>> THEN LAbs!Nothing(h) ELSE LAbs!Look(h, 1)
       /\ PeekLast(h) => IF Chain(h) = <<>> THEN LAbs!Nothing(h) ELSE LAbs!Look(h, Len(Chain(h)))]_lvars
=============================================================================
