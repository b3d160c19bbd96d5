----------------------------- MODULE BlockPool -----------------------------
(***************************************************************************)
(* What the page allocator promises its callers: the blocks they own are   *)
(* aligned to their size and never overlap, and a block that is given back *)
(* is the one that was taken.                                              *)
(***************************************************************************)
EXTENDS Integers

CONSTANTS Pages, Orders, Size   \* Size[k], the pages of a block of order k

VARIABLE owned   \* the blocks <<first page, order>> that callers own

Block(p, k) == p .. p + Size[k] - 1

Init == owned = {}

Take(p, k) == /\ p % Size[k] = 0
              /\ \A b \in owned : Block(p, k) \cap Block(b[1], b[2]) = {}
              /\ owned' = owned \cup {<<p, k>>}

Give(p, k) == /\ <<p, k>> \in owned
              /\ owned' = owned \ {<<p, k>>}

Next == \E p \in Pages, k \in Orders : Take(p, k) \/ Give(p, k)

Spec == Init /\ [][Next]_owned
=============================================================================
