------------------------------ MODULE HeapAbs -------------------------------
(***************************************************************************)
(* What kalloc promises: the memory of the objects that callers hold is    *)
(* as long as they asked for, and no two of them share an address.         *)
(***************************************************************************)
EXTENDS Integers

CONSTANTS Memory   \* the addresses of the heap

VARIABLE regions   \* <<first address, length>> of the objects in use

Bytes(r) == r[1] .. r[1] + r[2] - 1

Init == regions = {}

Alloc(r) == /\ Bytes(r) \subseteq Memory
            /\ \A s \in regions : Bytes(r) \cap Bytes(s) = {}
            /\ regions' = regions \cup {r}

Free(r) == r \in regions /\ regions' = regions \ {r}

Next == \/ \E r \in regions' : Alloc(r)
        \/ \E r \in regions : Free(r)

Spec == Init /\ [][Next]_regions
=============================================================================
