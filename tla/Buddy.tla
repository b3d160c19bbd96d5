------------------------------- MODULE Buddy -------------------------------
(***************************************************************************)
(* The page allocator, src/src/kernel/kalloc_page.c, with the parts of     *)
(* mm.c, linkedlist.c and kalloc.c that it runs on.  A kalloc_buddy_t      *)
(* stands for two pages and is named by the first of them, an even page    *)
(* index.  As the first buddy of a block it holds the order of the block;  *)
(* with order 0 its two pages are allocated one by one.  A step of a core  *)
(* is one turn of a loop of the code.                                      *)
(***************************************************************************)
EXTENDS Integers, Sequences, FiniteSets, SequencesExt

CONSTANTS Cores,
          None,         \* nobody has the lock
          MaxOrder,     \* MM_MAX_ORDER
          Size,         \* MM_MEMORDER_TO_PAGES: Size[k] is 2^k
          AreaCount,    \* area_count
          EarlyPages,   \* the pages that mm_init reserves
          FreeLocks,    \* kalloc_free takes the lock around
                        \* kalloc_page_free_pages; FALSE in kalloc.c:210
          AnyReserve    \* kalloc_page_reserve_pages is called after boot, as
                        \* the tests do, and not by mm_init only

ASSUME CoresAssumption == None \notin Cores
ASSUME SizeAssumption  == /\ MaxOrder \in Nat \ {0}
                          /\ Size \in [0 .. MaxOrder + 1 -> Nat \ {0}]
                          /\ Size[0] = 1
                          /\ \A k \in 0 .. MaxOrder : Size[k + 1] = 2 * Size[k]
ASSUME DivisionAssumption == \A k \in 0 .. MaxOrder + 1 : \A j \in 0 .. k : Size[k] % Size[j] = 0
ASSUME AreaAssumption  == /\ AreaCount \in Nat \ {0}
                          /\ EarlyPages \in 0 .. AreaCount * Size[MaxOrder + 1]
                          /\ FreeLocks \in BOOLEAN /\ AnyReserve \in BOOLEAN

Orders  == 0 .. MaxOrder
Areas   == 0 .. AreaCount - 1
Pages   == 0 .. AreaCount * Size[MaxOrder + 1] - 1
Buddies == {p \in Pages : p % 2 = 0}

VARIABLES order,     \* buddy_memorder of every kalloc_buddy_t
          lists,     \* lists.free[a][k] is free_buddy_list[k] of area a,
                     \* lists.areas[k] is free_areas_list[k]
          valid,     \* the pages with MM_PAGE_VALID
          free_page_num,
          lock,      \* the lock of kalloc.c
          reserved,  \* the pages that mm_init has reserved
          pc, call,  \* where each core is, and its arguments and locals
          held       \* the addresses (as page indices) that callers own

vars == <<order, lists, valid, free_page_num, lock, reserved, pc, call, held>>

NoCall == [op |-> "none", order |-> 0, addr |-> 0, buddy |-> 0, pages |-> 0]

---------------------------------------------------------------------------
(* Blocks. *)

\* kalloc_get_buddy_from_page_index, MM_AREA_INDEX
BuddyOf(x) == x - (x % 2)
AreaOf(x)  == x \div Size[MaxOrder + 1]
Block(p, k) == p .. p + Size[k] - 1

\* mm_page_is_valid of each page of S: none of them is, mm_pages_are_free; all
\* are, mm_pages_are_valid.
AreFree(S)  == S \cap valid = {}
AreValid(S) == S \subseteq valid

\* mm_mark_pages_valid, mm_mark_pages_free
MarkedValid(S) == valid \cup S
MarkedFree(S)  == valid \ S

\* Mutant of Sibling: the bit of the next order is inverted.
SiblingWide(b) == LET s == Size[order[b] + 1] IN
                  BuddyOf(IF (b \div s) % 2 = 0 THEN b + s ELSE b - s)

\* BITS_INVERT(index, memorder_pages)
Sibling(b) == LET s == Size[order[b]] IN
              BuddyOf(IF (b \div s) % 2 = 0 THEN b + s ELSE b - s)

Parent(b) == IF b > Sibling(b) THEN Sibling(b) ELSE b

\* Mutant of RightChild: the sibling of the block instead.
RightSibling(b) == Sibling(b)

RightChild(b) == BuddyOf(b + Size[order[b] - 1])

---------------------------------------------------------------------------
(* Free lists. *)

\* ll_push_list and ll_delete_node
Push(q, x)   == Append(q, x)
Delete(q, x) == RemoveAt(q, CHOOSE i \in 1 .. Len(q) : q[i] = x)

\* add_buddy_list
AddBuddy(L, b, k) ==
  [free  |-> [L.free EXCEPT ![AreaOf(b)][k] = Push(@, b)],
   areas |-> IF L.free[AreaOf(b)][k] = <<>>
             THEN [L.areas EXCEPT ![k] = Push(@, AreaOf(b))]
             ELSE L.areas]

\* Mutant of RemoveBuddy: the area stays on its list.
RemoveKeepsArea(L, b, k) ==
  [free |-> [L.free EXCEPT ![AreaOf(b)][k] = Delete(@, b)], areas |-> L.areas]

\* remove_buddy_list
RemoveBuddy(L, b, k) ==
  LET rest == Delete(L.free[AreaOf(b)][k], b) IN
  [free  |-> [L.free EXCEPT ![AreaOf(b)][k] = rest],
   areas |-> IF rest = <<>> THEN [L.areas EXCEPT ![k] = Delete(@, AreaOf(b))]
             ELSE L.areas]

\* is_buddy_free
IsFree(b) == b \in Range(lists.free[AreaOf(b)][order[b]])

\* mm_area_init: two blocks of the highest order in every area.
Tops(a) == LET first == a * Size[MaxOrder + 1]
           IN <<first, first + Size[MaxOrder]>>

Init == /\ order = [b \in Buddies |-> IF b % Size[MaxOrder] = 0 THEN MaxOrder ELSE 0]
        /\ lists = [free  |-> [a \in Areas |-> [k \in Orders |->
                                 IF k = MaxOrder THEN Tops(a) ELSE <<>>]],
                    areas |-> [k \in Orders |->
                                 IF k = MaxOrder THEN [i \in 1 .. AreaCount |-> i - 1]
                                 ELSE <<>>]]
        /\ valid = {} /\ held = {}
        /\ free_page_num = [a \in Areas |-> Size[MaxOrder + 1]]
        /\ lock = None /\ reserved = 0
        /\ pc = [c \in Cores |-> "idle"]
        /\ call = [c \in Cores |-> NoCall]

Goto(c, l) == pc' = [pc EXCEPT ![c] = l]

\* An assertion fails: the core spins with what it has.
Panic(c) == /\ Goto(c, "panic")
            /\ UNCHANGED <<order, lists, valid, free_page_num, lock, reserved, call, held>>

Return(c) == /\ Goto(c, "idle")
             /\ call' = [call EXCEPT ![c] = NoCall]
             /\ lock' = IF lock = c THEN None ELSE lock

Booted == reserved = EarlyPages
Nobody == \A c \in Cores : pc[c] = "idle"

---------------------------------------------------------------------------
(* kalloc_page_alloc_pages, called with the lock of kalloc.c. *)

Enter(c) == lock = None /\ lock' = c

Rest == UNCHANGED <<order, lists, valid, free_page_num, reserved, held>>

\* The orders of which area a has a free block; those of which some area has.
OrdersIn(a, k) == {j \in k .. MaxOrder :
                     lists.free[a][j] # <<>>}
OrdersAny(k) == {j \in k .. MaxOrder : lists.areas[j] # <<>>}
Lowest(j, S) == j \in S /\ \A i \in S : j <= i

\* mm_find_free_area finds none.
AllocFull(c, k) == /\ pc[c] = "idle" /\ Booted
                   /\ Enter(c) /\ Rest
                   /\ OrdersAny(k) = {}
                   /\ Goto(c, "full")
                   /\ call' = [call EXCEPT ![c].op = "alloc", ![c].order = k]

\* mm_find_free_area and the search of find_free_buddy
Alloc(c, k) ==
  /\ pc[c] = "idle" /\ Booted
  /\ Enter(c) /\ Rest
  /\ \E i \in Orders : Lowest(i, OrdersAny(k)) /\
       LET a == Head(lists.areas[i]) IN
       IF OrdersIn(a, k) = {} THEN Goto(c, "panic") /\ UNCHANGED call
       ELSE \E j \in Orders :
              /\ Lowest(j, OrdersIn(a, k))
              /\ call' = [call EXCEPT ![c].op = "alloc", ![c].order = k,
                                      ![c].buddy = Head(lists.free[a][j])]
              /\ Goto(c, "split")

---------------------------------------------------------------------------
(* kalloc_page_reserve_pages: mm_init reserves the first pages one by one. *)

Reserve(c, x, k) ==
  /\ Nobody
  /\ \/ ~Booted /\ x = reserved /\ k = 0
     \/ Booted /\ AnyReserve
  /\ x % Size[k] = 0 /\ AreFree(Block(x, k))
  /\ Goto(c, "ancestor")
  /\ call' = [call EXCEPT ![c] = [op |-> "reserve", order |-> k, addr |-> x,
                                  buddy |-> BuddyOf(x), pages |-> 0]]
  /\ UNCHANGED lock /\ Rest

\* A turn of get_free_ancestor.  A block of the highest order is only taken
\* when it is where the search begins.
Ancestor(c) ==
  LET b == call[c].buddy
      found == IsFree(b) \/ order[b] = MaxOrder
      above == Parent(b) IN
  /\ pc[c] = "ancestor"
  /\ \/ /\ found /\ order[b] >= call[c].order
        /\ Goto(c, "split")
        /\ UNCHANGED call
     \/ /\ ~found /\ above # b /\ order[above] # MaxOrder
        /\ call' = [call EXCEPT ![c].buddy = above]
        /\ UNCHANGED pc
     \/ /\ IF found THEN order[b] < call[c].order ELSE above = b \/ order[above] = MaxOrder
        /\ Goto(c, "panic")
        /\ UNCHANGED call
  /\ UNCHANGED lock /\ Rest

---------------------------------------------------------------------------
(* Splitting and assigning a block. *)

\* The child to go on with: the left one, or for a reserve the one with the
\* address, next_child_from_addr.
Side(c, b) == IF call[c].op = "alloc" \/ call[c].addr < b + Size[order[b] - 1]
              THEN b ELSE RightChild(b)

\* A turn of split_to_target_memorder or split_to_target_addr.  The halves of
\* a block of order 1 are the two pages of one buddy.
Split(c) ==
  LET b == call[c].buddy
      k == order[b]
      inside == call[c].op = "alloc" \/ call[c].addr \in Block(b, k)
      left   == AddBuddy(RemoveBuddy(lists, b, k), b, k - 1) IN
  /\ pc[c] = "split" /\ k > call[c].order
  /\ IF IsFree(b) /\ inside
     THEN /\ IF k = 1
             THEN /\ order' = [order EXCEPT ![b] = 0]
                  /\ lists' = left
             ELSE /\ order' = [order EXCEPT ![b] = k - 1, ![RightChild(b)] = k - 1]
                  /\ lists' = AddBuddy(left, RightChild(b), k - 1)
          /\ call' = [call EXCEPT ![c].buddy = Side(c, b)]
          /\ UNCHANGED <<valid, free_page_num, lock, reserved, pc, held>>
     ELSE Panic(c)

\* The other page of a buddy, page_index ^ 1.
Other(x) == IF x % 2 = 0 THEN x + 1 ELSE x - 1

\* Mutant of FreePage: always the first page.
FirstPage(b) == b

\* get_buddy_free_page
FreePage(b) == IF b \notin valid THEN b ELSE b + 1

\* The block is handed out: the pages that become valid, and whether the
\* buddy leaves its list.
Assigned(c, x, k, unlisted) ==
  LET b == call[c].buddy IN
  /\ valid' = MarkedValid(Block(x, k))
  /\ lists' = IF unlisted THEN RemoveBuddy(lists, b, k) ELSE lists
  /\ free_page_num' = [free_page_num EXCEPT ![AreaOf(x)] = @ - Size[k]]
  /\ reserved' = IF Booted THEN reserved ELSE reserved + 1
  /\ held' = held \cup {x}
  /\ Return(c)
  /\ UNCHANGED order

\* assign_buddy_page
AssignPage(c) ==
  LET b == call[c].buddy
      x == IF call[c].op = "alloc" THEN FreePage(b) ELSE call[c].addr
      last == Other(x) \in valid IN
  /\ pc[c] = "split" /\ order[b] = call[c].order /\ order[b] = 0
  /\ IF BuddyOf(x) = b /\ x \notin valid /\ (last => IsFree(b))
     THEN Assigned(c, x, 0, last)
     ELSE Panic(c)

\* assign_buddy
AssignBlock(c) ==
  LET b == call[c].buddy IN
  /\ pc[c] = "split" /\ order[b] = call[c].order /\ order[b] # 0
  /\ IF /\ IsFree(b) /\ AreFree(Block(b, order[b]))
        /\ call[c].op = "alloc" \/ call[c].addr = b
     THEN Assigned(c, b, order[b], TRUE)
     ELSE Panic(c)

---------------------------------------------------------------------------
(* kalloc_page_free_pages, called by kalloc_free and kalloc_free_pages. *)

\* Mutant of FreedPages: the count is taken after the two pages have become a
\* block of order 1.
FreedPagesLate(b) == Size[IF order[b] = 0 /\ ~({b, b + 1} \subseteq valid) THEN 1 ELSE order[b]]

\* memorder_pages
FreedPages(b) == Size[order[b]]

\* The pages become free and the buddy goes on its list; an order 0 buddy
\* whose two pages are free now becomes a block of order 1.  The pages that mm_init
\* reserved are never freed.
Free(c, x) ==
  LET b == BuddyOf(x)
      k == order[b]
      half  == k = 0 /\ Other(x) \in valid
      whole == k = 0 /\ ~half IN
  /\ pc[c] = "idle" /\ Booted /\ x \in held /\ x >= EarlyPages
  /\ IF FreeLocks THEN Enter(c) ELSE UNCHANGED lock
  /\ IF x % Size[k] = 0 /\ AreValid(Block(x, k)) /\ (whole => IsFree(b))
     THEN /\ valid' = MarkedFree(Block(x, k))
          /\ order' = IF whole THEN [order EXCEPT ![b] = 1] ELSE order
          /\ lists' = IF whole THEN AddBuddy(RemoveBuddy(lists, b, 0), b, 1)
                      ELSE AddBuddy(lists, b, k)
          /\ call' = [call EXCEPT ![c].op = "free", ![c].buddy = b,
                                  ![c].pages = FreedPages(b)]
          /\ Goto(c, "coalesce")
     ELSE Goto(c, "panic") /\ UNCHANGED <<order, lists, valid, call>>
  /\ held' = held \ {x}
  /\ UNCHANGED <<free_page_num, reserved>>

\* Mutant of Mergeable: only a right half looks for its left one.
MergeableLeft(b) == /\ order[b] \in 1 .. MaxOrder - 1 /\ order[Sibling(b)] = order[b]
                    /\ IsFree(b) /\ IsFree(Sibling(b)) /\ Parent(b) # b

\* coalesce_buddies goes on.
Mergeable(b) == /\ order[b] \in 1 .. MaxOrder - 1 /\ order[Sibling(b)] = order[b]
                /\ IsFree(b) /\ IsFree(Sibling(b))

Coalesce(c) ==
  LET b == call[c].buddy
      k == order[b]
      apart == RemoveBuddy(RemoveBuddy(lists, b, k), Sibling(b), k) IN
  /\ pc[c] = "coalesce" /\ Mergeable(b)
  /\ order' = [order EXCEPT ![Parent(b)] = k + 1]
  /\ lists' = AddBuddy(apart, Parent(b), k + 1)
  /\ call' = [call EXCEPT ![c].buddy = Parent(b)]
  /\ UNCHANGED <<valid, free_page_num, lock, reserved, pc, held>>

FreeDone(c) ==
  LET b == call[c].buddy IN
  /\ pc[c] = "coalesce" /\ ~Mergeable(b)
  /\ free_page_num' = [free_page_num EXCEPT ![AreaOf(b)] = @ + call[c].pages]
  /\ Return(c)
  /\ UNCHANGED <<order, lists, valid, reserved, held>>

---------------------------------------------------------------------------

Step(c) == \/ Ancestor(c) \/ Split(c) \/ AssignPage(c) \/ AssignBlock(c)
           \/ Coalesce(c) \/ FreeDone(c)

Next == \E c \in Cores :
          \/ Step(c)
          \/ \E k \in Orders : AllocFull(c, k) \/ Alloc(c, k)
          \/ \E x \in Pages, k \in Orders : Reserve(c, x, k)
          \/ \E x \in Pages : Free(c, x)

Spec == Init /\ [][Next]_vars

---------------------------------------------------------------------------
(* Properties. *)

PCs == {"idle", "ancestor", "split", "coalesce", "full", "panic"}

\* Every variable has its type.
TypeOK == /\ order \in [Buddies -> Orders]
          /\ lists.free \in [Areas -> [Orders -> Seq(Buddies)]]
          /\ lists.areas \in [Orders -> Seq(Areas)]
          /\ valid \subseteq Pages /\ held \subseteq Pages
          /\ free_page_num \in [Areas -> Int]
          /\ lock \in Cores \cup {None}
          /\ reserved \in 0 .. EarlyPages
          /\ pc \in [Cores -> PCs]
          /\ call \in [Cores -> [op : {"none", "alloc", "reserve", "free"}, order : Orders,
                                 addr : Pages, buddy : Buddies, pages : Nat]]

\* The pages a buddy speaks for, if it is the first of a block.
Extent(b) == Block(b, IF order[b] = 0 THEN 1 ELSE order[b])

\* The first buddies of blocks: those on a list, and those of owned pages.
OnList(b) == \E a \in Areas, k \in Orders : b \in Range(lists.free[a][k])
Heads     == {b \in Buddies : OnList(b) \/ \E x \in held : BuddyOf(x) = b}

\* The blocks, free and owned, are aligned and partition the memory, whatever
\* a split or a merge has done so far, and a page is marked if and only if it
\* is owned.
Partition ==
  /\ \A b \in Heads : b % Size[order[b]] = 0 /\ Extent(b) \subseteq Pages
  /\ \A b, d \in Heads : b # d => Extent(b) \cap Extent(d) = {}
  /\ \A x \in Pages : \E b \in Heads : x \in Extent(b)
  /\ valid = UNION {Block(x, order[BuddyOf(x)]) : x \in held}

IsSet(q) == \A i, j \in 1 .. Len(q) : q[i] = q[j] => i = j

\* A buddy is on the list of its area and order or on none, once, and not with
\* pages in use, except for order 0, where one of the two is; an area is on the
\* global list of an order if and only if it has a free block of it.
ListsInv ==
  /\ \A a \in Areas, k \in Orders :
       /\ IsSet(lists.free[a][k])
       /\ \A b \in Range(lists.free[a][k]) :
            /\ order[b] = k /\ AreaOf(b) = a
            /\ k > 0 => Block(b, k) \cap valid = {}
            /\ k = 0 => \E x \in Block(b, 1) : x \notin valid
  /\ \A k \in Orders :
       /\ IsSet(lists.areas[k])
       /\ \A a \in Areas : a \in Range(lists.areas[k]) <=> lists.free[a][k] # <<>>

\* No assertion of kalloc_page.c, mm.c and linkedlist.c fails but that of a
\* full memory.
NoPanic == \A c \in Cores : pc[c] # "panic"

\* The lists are as coalescing leaves them whenever nobody is in the allocator:
\* two free halves are never left apart.
Coalesced ==
  Nobody => \A b \in Buddies :
              ~(order[b] \in 1 .. MaxOrder - 1 /\ order[Sibling(b)] = order[b]
                /\ IsFree(b) /\ IsFree(Sibling(b)))

\* An allocation fails only if there is no aligned run of free pages of its size:
\* no free memory is lost to splits, merges or lists.
FullMeansFull ==
  \A c \in Cores : pc[c] = "full" =>
    \A p \in Pages : p % Size[call[c].order] = 0 => Block(p, call[c].order) \cap valid # {}

\* Merges and searches waste no free memory.
NoneWasted == Coalesced /\ FullMeansFull

\* free_page_num counts the pages that are not in use.
Counted == Nobody => \A a \in Areas : free_page_num[a] =
                       Cardinality({x \in Pages \ valid : AreaOf(x) = a})

Pool == INSTANCE BlockPool WITH owned <- {<<x, order[BuddyOf(x)]>> : x \in held}

\* What a caller owns is its own until it gives it back, and a block that is
\* freed is the block that was allocated: the order is looked up in the buddy.
Implements == Pool!Spec
=============================================================================
