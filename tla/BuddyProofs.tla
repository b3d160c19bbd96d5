---------------------------- MODULE BuddyProofs ----------------------------
(***************************************************************************)
(* Proofs about Buddy, for any number of cores, areas and orders, provided *)
(* that pages are reserved at boot only and that frees take the lock, or   *)
(* callers take turns without it: blocks partition the memory, lists and   *)
(* orders and page marks agree, no assertion fails, the allocator          *)
(* implements BlockPool, the count of free pages is right and no free      *)
(* memory is out of an allocation's reach.                                 *)
(***************************************************************************)
EXTENDS BuddyBlocks, FiniteSetTheorems, WellFoundedInduction

\* Lists and blocks are sound.
Sound(o, L, V, D) ==
  ListsGood(L) /\ PlacedIn(o, L) /\ BlocksGood(o, FreeIn(o, L), V, D)

\* The blocks of D have in p the orders they have in o.
Keeps(o, p, D) == \A y \in D : p[BuddyOf(y)] = o[BuddyOf(y)]

---------------------------------------------------------------------------
(* The changes that the actions make, blocks and lists together. *)

\* A split of a block of order 1, into two pages of one buddy.
LEMMA SplitLast ==
  ASSUME NEW o, NEW L, NEW V, NEW D, Sound(o, L, V, D),
         NEW b \in FreeIn(o, L), o[b] = 1,
         NEW p \in [Buddies -> Orders], p[b] = 0, \A d \in Buddies \ {b} : p[d] = o[d],
         NEW M, M = AddBuddy(RemoveBuddy(L, b, 1), b, 0)
  PROVE  Sound(p, M, V, D) /\ FreeIn(p, M) = FreeIn(o, L) /\ Keeps(o, p, D)
<1> DEFINE F == FreeIn(o, L)
           N == RemoveBuddy(L, b, o[b])
<1>1. /\ o \in [Buddies -> Orders] /\ b \in Buddies /\ 0 \in Orders
      /\ ListsGood(L) /\ PlacedIn(o, L) /\ BlocksGood(o, F, V, D)
  BY SizeFacts DEF Sound, BlocksGood
<1>2. ListsGood(N) /\ PlacedIn(o, N) /\ FreeIn(o, N) = F \ {b}
  BY <1>1, RemovePlaced
<1>3. M = AddBuddy(N, b, 0)
  OBVIOUS
<1> HIDE DEF N
<1>4. ListsGood(M) /\ PlacedIn(p, M) /\ FreeIn(p, M) = (F \ {b}) \cup {b}
  BY <1>1, <1>2, <1>3, AddPlaced
<1>5. BlocksGood(p, F, V, D) /\ \A y \in D : p[BuddyOf(y)] = o[BuddyOf(y)]
  <2>1. (\A y \in D : BuddyOf(y) # b) /\ \A x \in Reach(o, b) : x \notin V
    BY <1>1, FreeFacts
  <2> QED BY <1>1, <2>1, Relabel
<1>6. FreeIn(p, M) = F
  BY <1>4
<1> QED BY <1>4, <1>5, <1>6 DEF Sound, Keeps

\* A split of a larger block, into two halves.
LEMMA SplitHalves ==
  ASSUME NEW o, NEW L, NEW V, NEW D, Sound(o, L, V, D),
         NEW b \in FreeIn(o, L), NEW k, k = o[b], k > 1,
         NEW r, r = b + Size[k - 1],
         NEW p \in [Buddies -> Orders], p[b] = k - 1, p[r] = k - 1,
         \A d \in Buddies \ {b, r} : p[d] = o[d],
         NEW M, M = AddBuddy(AddBuddy(RemoveBuddy(L, b, k), b, k - 1), r, k - 1)
  PROVE  /\ Sound(p, M, V, D) /\ FreeIn(p, M) = FreeIn(o, L) \cup {r} /\ Keeps(o, p, D)
         /\ r \in Buddies /\ r # b
<1> DEFINE F == FreeIn(o, L)
           N == RemoveBuddy(L, b, k)
           q == [o EXCEPT ![b] = k - 1]
           K == AddBuddy(N, b, k - 1)
<1>1. /\ o \in [Buddies -> Orders] /\ b \in Buddies /\ k - 1 \in Orders
      /\ ListsGood(L) /\ PlacedIn(o, L) /\ BlocksGood(o, F, V, D)
  BY SizeFacts DEF Sound, BlocksGood, Orders
<1>2. ListsGood(N) /\ PlacedIn(o, N) /\ FreeIn(o, N) = F \ {b}
  BY <1>1, RemovePlaced
<1>3. M = AddBuddy(K, r, k - 1)
  OBVIOUS
<1>4. q \in [Buddies -> Orders] /\ q[b] = k - 1 /\ \A d \in Buddies \ {b} : q[d] = o[d]
  BY <1>1
<1>5. r \in Buddies /\ r # b
  <2>1. b % Size[k] = 0
    BY <1>1 DEF BlocksGood, Aligned, HeadsOf
  <2>2. Size[k - 1] > 0 /\ Size[k - 1] \in Nat /\ b \in Nat
    BY <1>1, SizeFacts, BuddyFacts DEF Orders
  <2>3. k \in Orders
    BY <1>1
  <2> QED BY <1>1, <2>1, <2>2, <2>3, ChildFacts
<1>6. /\ p \in [Buddies -> Orders] /\ p[r] = k - 1 /\ \A d \in Buddies \ {r} : p[d] = q[d]
  BY <1>1, <1>4, <1>5
<1> HIDE DEF N, q
<1>7. ListsGood(K) /\ PlacedIn(q, K) /\ FreeIn(q, K) = (F \ {b}) \cup {b}
  BY <1>1, <1>2, <1>4, AddPlaced
<1> HIDE DEF K
<1>8. /\ BlocksGood(p, F \cup {r}, V, D) /\ r \in Buddies /\ r \notin F
      /\ \A y \in D : p[BuddyOf(y)] = o[BuddyOf(y)]
  BY <1>1, <1>5, <1>6, SplitPair
<1>9. FreeIn(q, K) = F
  BY <1>7
<1>10. ListsGood(M) /\ PlacedIn(p, M) /\ FreeIn(p, M) = F \cup {r}
  BY <1>1, <1>3, <1>4, <1>7, <1>8, <1>9, <1>6, AddPlaced
<1> QED BY <1>8, <1>10, <1>5 DEF Sound, Keeps

\* A merge of two halves, of which q is the right one.
LEMMA MergeHalves ==
  ASSUME NEW o, NEW L, NEW V, NEW D, Sound(o, L, V, D),
         NEW x \in FreeIn(o, L), NEW y \in FreeIn(o, L),
         NEW k \in Orders, k > 0, k < MaxOrder, o[x] = k, o[y] = k,
         NEW p, NEW q, \/ p = x /\ q = y
                       \/ p = y /\ q = x,
         q = p + Size[k], p % Size[k + 1] = 0,
         NEW n \in [Buddies -> Orders], n[p] = k + 1, \A d \in Buddies \ {p} : n[d] = o[d],
         NEW M, M = AddBuddy(RemoveBuddy(RemoveBuddy(L, x, k), y, k), p, k + 1)
  PROVE  Sound(n, M, V, D) /\ Keeps(o, n, D) /\ FreeIn(n, M) = FreeIn(o, L) \ {q}
<1> DEFINE F == FreeIn(o, L)
           N == RemoveBuddy(L, x, k)
           K == RemoveBuddy(N, y, k)
<1>1. /\ o \in [Buddies -> Orders] /\ x \in Buddies /\ y \in Buddies /\ k + 1 \in Orders
      /\ ListsGood(L) /\ PlacedIn(o, L) /\ BlocksGood(o, F, V, D) /\ p \in F /\ q \in F
      /\ p \in Buddies
  BY SizeFacts DEF Sound, BlocksGood, Orders
<1>2. p # q /\ x # y
  BY <1>1, SizeFacts, BuddyFacts
<1>3. M = AddBuddy(K, p, k + 1)
  OBVIOUS
<1>4. ListsGood(N) /\ PlacedIn(o, N) /\ FreeIn(o, N) = F \ {x}
  BY <1>1, RemovePlaced
<1> HIDE DEF N
<1>5. ListsGood(K) /\ PlacedIn(o, K) /\ FreeIn(o, K) = (F \ {x}) \ {y}
  BY <1>1, <1>2, <1>4, RemovePlaced
<1> HIDE DEF K
<1>6. ListsGood(M) /\ PlacedIn(n, M) /\ FreeIn(n, M) = ((F \ {x}) \ {y}) \cup {p}
  <2>1. p \notin FreeIn(o, K)
    BY <1>5
  <2> QED BY <1>1, <1>3, <1>5, <2>1, AddPlaced
<1>7. ((F \ {x}) \ {y}) \cup {p} = F \ {q}
  BY <1>1, <1>2
<1>8. BlocksGood(n, F \ {q}, V, D) /\ \A z \in D : n[BuddyOf(z)] = o[BuddyOf(z)]
  <2>1. o[p] = k /\ o[q] = k
    OBVIOUS
  <2> QED BY <1>1, <2>1, MergePair
<1> QED BY <1>6, <1>7, <1>8 DEF Sound, Keeps

\* A page is handed out; its buddy leaves its list if the other one is in use.
LEMMA PageTaken ==
  ASSUME NEW o, NEW L, NEW V, NEW D, Sound(o, L, V, D),
         NEW x \in Pages, BuddyOf(x) \in FreeIn(o, L), o[BuddyOf(x)] = 0, x \notin V,
         NEW M, M = IF Other(x) \in V THEN RemoveBuddy(L, BuddyOf(x), 0) ELSE L
  PROVE  Sound(o, M, V \cup {x}, D \cup {x}) /\ FreeIn(o, M) \subseteq FreeIn(o, L)
<1> DEFINE F == FreeIn(o, L)
           b == BuddyOf(x)
<1>1. /\ o \in [Buddies -> Orders] /\ b \in Buddies
      /\ ListsGood(L) /\ PlacedIn(o, L) /\ BlocksGood(o, F, V, D)
  BY BuddyFacts DEF Sound, BlocksGood
<1>2. CASE Other(x) \in V
  <2>1. ListsGood(M) /\ PlacedIn(o, M) /\ FreeIn(o, M) = F \ {b}
    <3>1. M = RemoveBuddy(L, b, o[b])
      BY <1>2
    <3> QED BY <1>1, <3>1, RemovePlaced
  <2>2. BlocksGood(o, F \ {b}, V \cup {x}, D \cup {x})
    BY <1>1, <1>2, TakePage
  <2> QED BY <2>1, <2>2 DEF Sound
<1>3. CASE Other(x) \notin V
  <2>1. BlocksGood(o, F, V \cup {x}, D \cup {x})
    BY <1>1, <1>3, TakePage
  <2> QED BY <1>1, <1>3, <2>1 DEF Sound
<1> QED BY <1>2, <1>3

\* A larger block is handed out.
LEMMA BlockTaken ==
  ASSUME NEW o, NEW L, NEW V, NEW D, Sound(o, L, V, D), NEW b \in FreeIn(o, L), o[b] > 0
  PROVE  /\ Sound(o, RemoveBuddy(L, b, o[b]), V \cup Block(b, o[b]), D \cup {b})
         /\ Block(b, o[b]) \cap V = {}
<1> DEFINE F == FreeIn(o, L)
           M == RemoveBuddy(L, b, o[b])
<1>1. /\ o \in [Buddies -> Orders] /\ b \in F
      /\ ListsGood(L) /\ PlacedIn(o, L) /\ BlocksGood(o, F, V, D)
  BY DEF Sound, BlocksGood
<1>2. ListsGood(M) /\ PlacedIn(o, M) /\ FreeIn(o, M) = F \ {b}
  BY <1>1, RemovePlaced
<1>3. /\ BlocksGood(o, F \ {b}, V \cup Block(b, o[b]), D \cup {b})
      /\ Block(b, o[b]) \cap V = {}
  BY <1>1, TakeBlock
<1> QED BY <1>2, <1>3 DEF Sound

\* A page is given back while the other page of its buddy is in use.
LEMMA HalfGiven ==
  ASSUME NEW o, NEW L, NEW V, NEW D, Sound(o, L, V, D),
         NEW x \in D, o[BuddyOf(x)] = 0, Other(x) \in V
  PROVE  /\ Sound(o, AddBuddy(L, BuddyOf(x), 0), V \ {x}, D \ {x})
         /\ FreeIn(o, AddBuddy(L, BuddyOf(x), 0)) = FreeIn(o, L) \cup {BuddyOf(x)}
<1> DEFINE F == FreeIn(o, L)
           b == BuddyOf(x)
           M == AddBuddy(L, b, 0)
<1>1. /\ o \in [Buddies -> Orders] /\ b \in Buddies /\ 0 \in Orders
      /\ ListsGood(L) /\ PlacedIn(o, L) /\ BlocksGood(o, F, V, D)
  BY BuddyFacts, SizeFacts DEF Sound, BlocksGood
<1>2. BlocksGood(o, F \cup {b}, V \ {x}, D \ {x}) /\ b \notin F
  BY <1>1, GivePage, PairFacts
<1>3. ListsGood(M) /\ PlacedIn(o, M) /\ FreeIn(o, M) = F \cup {b}
  BY <1>1, <1>2, AddPlaced
<1> QED BY <1>2, <1>3 DEF Sound

\* A page is given back and the other page of its buddy is free: the buddy is
\* on its list, and becomes a block of order 1.
LEMMA WholeGiven ==
  ASSUME NEW o, NEW L, NEW V, NEW D, Sound(o, L, V, D),
         NEW x \in D, o[BuddyOf(x)] = 0, Other(x) \notin V,
         NEW p \in [Buddies -> Orders], p[BuddyOf(x)] = 1,
         \A d \in Buddies \ {BuddyOf(x)} : p[d] = o[d],
         NEW M, M = AddBuddy(RemoveBuddy(L, BuddyOf(x), 0), BuddyOf(x), 1)
  PROVE  /\ Sound(p, M, V \ {x}, D \ {x}) /\ Keeps(o, p, D \ {x})
         /\ BuddyOf(x) \in FreeIn(o, L) /\ FreeIn(p, M) = FreeIn(o, L)
<1> DEFINE F == FreeIn(o, L)
           b == BuddyOf(x)
           N == RemoveBuddy(L, b, 0)
<1>1. /\ o \in [Buddies -> Orders] /\ b \in Buddies /\ 0 \in Orders /\ 1 \in Orders
      /\ ListsGood(L) /\ PlacedIn(o, L) /\ BlocksGood(o, F, V, D) /\ x \in Pages
      /\ (x = b \/ x = b + 1) /\ b % 2 = 0 /\ b \in Nat
  BY BuddyFacts, SizeFacts DEF Sound, BlocksGood
<1>2. /\ BlocksGood(o, F \cup {b}, V \ {x}, D \ {x}) /\ b \in F
      /\ \A y \in D \ {x} : BuddyOf(y) # b
  <2>1. b \in F /\ \A y \in D \ {x} : BuddyOf(y) # b
    BY <1>1, PairFacts
  <2>2. BlocksGood(o, F \cup {b}, V \ {x}, D \ {x})
    BY <1>1, GivePage
  <2> QED BY <2>1, <2>2
<1>3. F \cup {b} = F /\ BlocksGood(o, F, V \ {x}, D \ {x})
  <2>1. F \cup {b} = F
    BY <1>2
  <2> QED BY <1>2, <2>1
<1>4. ListsGood(N) /\ PlacedIn(o, N) /\ FreeIn(o, N) = F \ {b}
  <2>1. N = RemoveBuddy(L, b, o[b])
    OBVIOUS
  <2> QED BY <1>1, <1>2, <2>1, RemovePlaced
<1>5. M = AddBuddy(N, b, 1)
  OBVIOUS
<1> HIDE DEF N
<1>6. ListsGood(M) /\ PlacedIn(p, M) /\ FreeIn(p, M) = (F \ {b}) \cup {b}
  BY <1>1, <1>4, <1>5, AddPlaced
<1>7. \A z \in Reach(o, b) : z \notin V \ {x}
  <2>1. Reach(o, b) = {b, b + 1}
    BY <1>1, ReachFacts
  <2>2. b + 1 = x \/ b + 1 = Other(x)
    BY <1>1 DEF Other
  <2>3. b = x \/ b = Other(x)
    <3>1. CASE x = b + 1
      <4>1. x % 2 # 0
        BY <1>1, <3>1
      <4> QED BY <1>1, <3>1, <4>1 DEF Other
    <3> QED BY <1>1, <3>1
  <2> QED BY <2>1, <2>2, <2>3
<1>8. BlocksGood(p, F, V \ {x}, D \ {x}) /\ \A y \in D \ {x} : p[BuddyOf(y)] = o[BuddyOf(y)]
  <2> DEFINE W == V \ {x}
             E == D \ {x}
  <2>1. /\ BlocksGood(o, F, W, E) /\ b \in F /\ o[b] = 0 /\ p[b] = 1
        /\ \A y \in E : BuddyOf(y) # b
        /\ \A z \in Reach(o, b) : z \notin W
    BY <1>2, <1>3, <1>7
  <2> HIDE DEF W, E
  <2>2. BlocksGood(p, F, W, E) /\ \A y \in E : p[BuddyOf(y)] = o[BuddyOf(y)]
    BY <2>1, Relabel
  <2> QED BY <2>2 DEF W, E
<1>9. FreeIn(p, M) = F
  BY <1>2, <1>6
<1> QED BY <1>2, <1>6, <1>8, <1>9 DEF Sound, Keeps

\* A larger block is given back.
LEMMA BlockGiven ==
  ASSUME NEW o, NEW L, NEW V, NEW D, Sound(o, L, V, D), NEW x \in D, o[BuddyOf(x)] > 0
  PROVE  /\ Sound(o, AddBuddy(L, BuddyOf(x), o[BuddyOf(x)]), V \ Block(x, o[BuddyOf(x)]), D \ {x})
         /\ FreeIn(o, AddBuddy(L, BuddyOf(x), o[BuddyOf(x)])) = FreeIn(o, L) \cup {BuddyOf(x)}
<1> DEFINE F == FreeIn(o, L)
           b == BuddyOf(x)
           M == AddBuddy(L, b, o[b])
<1>1. /\ o \in [Buddies -> Orders] /\ b \in Buddies /\ o[b] \in Orders
      /\ ListsGood(L) /\ PlacedIn(o, L) /\ BlocksGood(o, F, V, D)
  BY BuddyFacts DEF Sound, BlocksGood
<1>2. b \notin F
  BY <1>1, FreeFacts
<1>3. BlocksGood(o, F \cup {b}, V \ Block(x, o[b]), D \ {x})
  BY <1>1, GiveBlock
<1>4. ListsGood(M) /\ PlacedIn(o, M) /\ FreeIn(o, M) = F \cup {b}
  BY <1>1, <1>2, AddPlaced
<1> QED BY <1>3, <1>4 DEF Sound

---------------------------------------------------------------------------
(* The inductive invariant. *)

FreeBuddies == FreeIn(order, lists)

Record == [op : {"none", "alloc", "reserve", "free"}, order : Orders,
           addr : Pages, buddy : Buddies, pages : Nat]

Types == /\ free_page_num \in [Areas -> Int]
         /\ lock \in Cores \cup {None}
         /\ reserved \in 0 .. EarlyPages
         /\ pc \in [Cores -> PCs]
         /\ call \in [Cores -> Record]

\* One core is in the allocator, and after boot, if frees take it, it has the lock.
Alone == /\ \A c, d \in Cores : pc[c] # "idle" /\ pc[d] # "idle" => c = d
         /\ FreeLocks /\ Booted => \A c \in Cores : pc[c] # "idle" => lock = c

\* The callers take turns: a call begins only when no core is in the allocator,
\* and pages are reserved by mm_init only.
InTurn == \A c \in Cores :
  /\ \/ \E k \in Orders : AllocFull(c, k) \/ Alloc(c, k)
     \/ \E x \in Pages : Free(c, x)
     => Nobody
  /\ \A x \in Pages, k \in Orders : Reserve(c, x, k) => ~Booted

\* Until mm_init is done the pages up to reserved have been taken one by one
\* and no other, without the lock.
Early == ~Booted =>
           /\ lock = None /\ held = 0 .. reserved - 1
           /\ \A x \in held : order[BuddyOf(x)] = 0
           /\ \A c \in Cores : pc[c] \in {"idle", "ancestor", "split"}

\* The search and the split work on a free block that is large enough, and that
\* has the page to be reserved.
Searching(c) ==
  pc[c] \in {"ancestor", "split"} =>
    LET b == call[c].buddy IN
    /\ b \in FreeBuddies /\ order[b] >= call[c].order
    /\ \/ call[c].op = "alloc" /\ Booted /\ pc[c] = "split"
       \/ /\ call[c].op = "reserve" /\ ~Booted /\ call[c].order = 0
          /\ call[c].addr = reserved /\ reserved \notin valid
          /\ reserved \in Reach(order, b)

Control == /\ Types /\ Alone /\ Early
           /\ \A c \in Cores : Searching(c) /\ pc[c] # "panic"

IInv == Sound(order, lists, valid, held) /\ Control

\* What a step does to the blocks of the callers: nothing, or one is taken or
\* given back.
Quiet == held' = held /\ Keeps(order, order', held)
Takes == \E x \in Pages : LET k == order[BuddyOf(x)] IN
           /\ x % Size[k] = 0 /\ Block(x, k) \cap valid = {}
           /\ held' = held \cup {x} /\ order' = order
Gives == \E x \in held : held' = held \ {x} /\ Keeps(order, order', held \ {x})
Moves == Quiet \/ Takes \/ Gives

\* What the steps do to the free blocks: a block is split, a page or a block is
\* handed out, two blocks are merged, a block is freed.
Splits(c) ==
  LET b == call[c].buddy
      k == order[b]
      r == b + Size[k - 1] IN
  /\ pc[c] = "split" /\ b \in FreeBuddies /\ k > 0
  /\ order'[b] = k - 1
  /\ k = 1 => FreeBuddies' = FreeBuddies /\ call'[c].buddy = b
              /\ \A d \in Buddies \ {b} : order'[d] = order[d]
  /\ k > 1 => /\ r \in Buddies /\ FreeBuddies' = FreeBuddies \cup {r} /\ order'[r] = k - 1
              /\ call'[c].buddy \in {b, r}
              /\ \A d \in Buddies \ {b, r} : order'[d] = order[d]
  /\ UNCHANGED <<valid, free_page_num, pc>>

Assigns(c) ==
  \E x \in Pages :
    LET b == call[c].buddy
        k == order[b] IN
    /\ pc[c] = "split" /\ BuddyOf(x) = b /\ x % Size[k] = 0 /\ Block(x, k) \cap valid = {}
    /\ valid' = valid \cup Block(x, k) /\ order' = order
    /\ FreeBuddies' \subseteq FreeBuddies /\ (k > 0 => b \notin FreeBuddies')
    /\ free_page_num' = [free_page_num EXCEPT ![AreaOf(x)] = @ - Size[k]]
    /\ Return(c)

Merges(c) ==
  LET b == call[c].buddy
      k == order[b] IN
  \E p \in Buddies, q \in Buddies :
    /\ pc[c] = "coalesce" /\ b \in {p, q} /\ AreaOf(p) = AreaOf(b) /\ k > 0
    /\ FreeBuddies' = FreeBuddies \ {q} /\ order'[p] = k + 1
    /\ \A d \in Buddies \ {p} : order'[d] = order[d]
    /\ call' = [call EXCEPT ![c].buddy = p] /\ UNCHANGED <<valid, free_page_num, pc>>

Frees(c) ==
  \E x \in held :
    LET b == BuddyOf(x)
        k == order[b] IN
    /\ \A d \in Cores : pc[d] = "idle"
    /\ x % Size[k] = 0 /\ Block(x, k) \subseteq valid /\ valid' = valid \ Block(x, k)
    /\ FreeBuddies' = FreeBuddies \cup {b} /\ \A d \in Buddies \ {b} : order'[d] = order[d]
    /\ order'[b] = 0 => Other(x) \in valid'
    /\ call' = [call EXCEPT ![c].op = "free", ![c].buddy = b, ![c].pages = FreedPages(b)]
    /\ pc' = [pc EXCEPT ![c] = "coalesce"] /\ UNCHANGED free_page_num

\* What every step of a proof about the state needs.
LEMMA StateFacts ==
  ASSUME IInv
  PROVE  /\ order \in [Buddies -> Orders] /\ FreeBuddies \subseteq Buddies
         /\ held \subseteq Pages /\ \A x \in held : BuddyOf(x) \in Buddies
         /\ \A b \in Buddies : b \in FreeBuddies <=> IsFree(b)
         /\ \A k \in Orders : k \in Nat
         /\ None \notin Cores
         /\ reserved \in Nat /\ EarlyPages \in Nat
         /\ \A b \in FreeBuddies : b % Size[order[b]] = 0
<1>1. /\ order \in [Buddies -> Orders] /\ FreeBuddies \subseteq Buddies /\ held \subseteq Pages
      /\ \A b \in FreeBuddies : b % Size[order[b]] = 0
  BY DEF IInv, Sound, BlocksGood, FreeBuddies, Aligned, HeadsOf
<1>2. \A x \in held : BuddyOf(x) \in Buddies
  BY <1>1, BuddyFacts
<1>3. \A b \in Buddies : b \in FreeBuddies <=> IsFree(b)
  BY DEF FreeBuddies, FreeIn, IsFree
<1>4. (\A k \in Orders : k \in Nat) /\ EarlyPages \in Nat
  BY SizeFacts, PageFacts, AreaAssumption DEF Orders
<1>5. reserved \in Nat
  BY <1>4 DEF IInv, Control, Types
<1> QED BY <1>1, <1>2, <1>3, <1>4, <1>5, CoresAssumption

\* The steps that change nothing but where a core is.
LEMMA Unmoved ==
  ASSUME IInv, UNCHANGED <<order, lists, valid, held>>
  PROVE  Sound(order, lists, valid, held)' /\ Quiet
BY DEF IInv, Quiet, Keeps

\* The control part of the invariant, when only core c moves and it stays inside.
LEMMA OthersIdle ==
  ASSUME IInv, NEW c \in Cores, pc[c] # "idle", NEW d \in Cores, d # c
  PROVE  pc[d] = "idle"
BY DEF IInv, Control, Alone

\* With the lock free after boot, nobody is in the allocator, if frees take it too.
LEMMA NobodyElse ==
  ASSUME IInv, FreeLocks, Booted, lock = None, NEW c \in Cores
  PROVE  pc[c] = "idle"
BY StateFacts DEF IInv, Control, Alone

\* A step of a core that is in the allocator and stays there.
LEMMA InsideControl ==
  ASSUME IInv, NEW c \in Cores, pc[c] # "idle",
         NEW l \in PCs \ {"idle", "panic"}, ~Booted => l = "split",
         pc' = [pc EXCEPT ![c] = l], UNCHANGED <<free_page_num, lock, reserved>>,
         call' \in [Cores -> Record], Quiet, Searching(c)'
  PROVE  Control'
<1>1. \A d \in Cores \ {c} : pc[d] = "idle" /\ pc'[d] = "idle"
  BY OthersIdle DEF IInv, Control, Types
<1>2. pc'[c] = l /\ pc' \in [Cores -> PCs]
  BY DEF IInv, Control, Types
<1>3. Types'
  BY <1>2 DEF IInv, Control, Types, Record
<1>4. Alone'
  BY <1>1, <1>2 DEF IInv, Control, Alone, Booted
<1>5. Early'
  <2>1. ~Booted => \A x \in held : order'[BuddyOf(x)] = 0
    BY DEF IInv, Control, Early, Quiet, Keeps
  <2>2. ~Booted => \A d \in Cores : pc'[d] \in {"idle", "ancestor", "split"}
    BY <1>1, <1>2
  <2> QED BY <2>1, <2>2 DEF IInv, Control, Early, Quiet, Booted
<1>6. ASSUME NEW d \in Cores PROVE Searching(d)' /\ pc'[d] # "panic"
  BY <1>1, <1>2 DEF Searching
<1> QED BY <1>3, <1>4, <1>5, <1>6 DEF Control

\* A step with which a core leaves the allocator.
LEMMA ExitControl ==
  ASSUME IInv, NEW c \in Cores, pc[c] # "idle", Return(c), Types', Early'
  PROVE  Control'
<1>1. /\ pc' = [pc EXCEPT ![c] = "idle"]
      /\ \A d \in Cores : pc'[d] = "idle"
  BY OthersIdle DEF IInv, Control, Types, Return, Goto
<1>2. Alone'
  BY <1>1 DEF Alone
<1>3. ASSUME NEW d \in Cores PROVE Searching(d)' /\ pc'[d] # "panic"
  BY <1>1 DEF Searching
<1> QED BY <1>2, <1>3 DEF Control

\* A step with which a core enters the allocator.
LEMMA EnterControl ==
  ASSUME IInv, NEW c \in Cores, Booted, Nobody, lock' \in {c, lock}, FreeLocks => lock' = c, NEW l \in {"split", "coalesce", "full"},
         pc' = [pc EXCEPT ![c] = l], UNCHANGED <<free_page_num, reserved>>,
         call' \in [Cores -> Record], Searching(c)'
  PROVE  Control'
<1>1. \A d \in Cores : pc[d] = "idle"
  BY DEF Nobody
<1>2. /\ pc' \in [Cores -> PCs] /\ pc'[c] = l
      /\ \A d \in Cores \ {c} : pc'[d] = "idle"
  BY <1>1 DEF IInv, Control, Types, PCs
<1>3. Types'
  BY <1>2 DEF IInv, Control, Types, Record
<1>4. Alone' /\ Early'
  BY <1>2 DEF Alone, Early, Booted
<1>5. ASSUME NEW d \in Cores PROVE Searching(d)' /\ pc'[d] # "panic"
  BY <1>2 DEF Searching
<1> QED BY <1>3, <1>4, <1>5 DEF Control

---------------------------------------------------------------------------
(* The actions. *)

\* mm_find_free_area finds nothing: the state of the memory stays.
LEMMA AllocFullStep ==
  ASSUME IInv, NEW c \in Cores, NEW k \in Orders, AllocFull(c, k), Nobody
  PROVE  IInv' /\ Quiet
<1>1. Sound(order, lists, valid, held)' /\ Quiet
  BY Unmoved DEF AllocFull, Rest
<1>2. call' \in [Cores -> Record] /\ pc' = [pc EXCEPT ![c] = "full"]
  BY DEF AllocFull, Goto, IInv, Control, Types, Record
<1>3. Searching(c)'
  BY <1>2 DEF Searching, IInv, Control, Types
<1>4. Control'
  BY <1>2, <1>3, EnterControl DEF AllocFull, Rest, Enter
<1> QED BY <1>1, <1>4 DEF IInv

\* mm_find_free_area and find_free_buddy find a free block that is large enough.
LEMMA AllocStep ==
  ASSUME IInv, NEW c \in Cores, NEW k \in Orders, Alloc(c, k), Nobody
  PROVE  IInv' /\ Quiet
<1>1. Sound(order, lists, valid, held)' /\ Quiet
  BY Unmoved DEF Alloc, Rest
<1>2. PICK i \in Orders :
        /\ Lowest(i, OrdersAny(k))
        /\ LET a == Head(lists.areas[i]) IN
           IF OrdersIn(a, k) = {} THEN Goto(c, "panic") /\ UNCHANGED call
           ELSE \E j \in Orders :
                  /\ Lowest(j, OrdersIn(a, k))
                  /\ call' = [call EXCEPT ![c].op = "alloc", ![c].order = k,
                                          ![c].buddy = Head(lists.free[a][j])]
                  /\ Goto(c, "split")
  BY DEF Alloc
<1> DEFINE a == Head(lists.areas[i])
<1>3. ListsGood(lists) /\ PlacedIn(order, lists)
  BY DEF IInv, Sound
\* The area at the head of its list has a free block of that order.
<1>4. a \in Areas /\ OrdersIn(a, k) # {}
  <2>1. i \in k .. MaxOrder /\ lists.areas[i] # <<>> /\ lists.areas[i] \in Seq(Areas)
    BY <1>2, <1>3 DEF Lowest, OrdersAny, ListsGood
  <2>2. a \in Range(lists.areas[i])
    BY <2>1, RangeFacts
  <2>3. a \in Areas
    BY <2>1, <2>2, RangeFacts
  <2>4. Range(lists.free[a][i]) # {} /\ lists.free[a][i] \in Seq(Buddies)
    BY <1>3, <2>2, <2>3 DEF ListsGood
  <2>5. lists.free[a][i] # <<>>
    BY <2>4, RangeFacts
  <2> QED BY <2>1, <2>3, <2>5 DEF OrdersIn
<1>5. PICK j \in Orders :
        /\ Lowest(j, OrdersIn(a, k))
        /\ call' = [call EXCEPT ![c].op = "alloc", ![c].order = k,
                                ![c].buddy = Head(lists.free[a][j])]
        /\ Goto(c, "split")
  BY <1>2, <1>4
<1> DEFINE b == Head(lists.free[a][j])
<1>6. b \in FreeBuddies /\ b \in Buddies /\ order[b] = j /\ j >= k
  <2>1. j \in k .. MaxOrder /\ lists.free[a][j] # <<>> /\ lists.free[a][j] \in Seq(Buddies)
    BY <1>3, <1>4, <1>5 DEF Lowest, OrdersIn, ListsGood
  <2>2. b \in Range(lists.free[a][j]) /\ b \in Buddies
    BY <2>1, RangeFacts
  <2>3. order[b] = j /\ AreaOf(b) = a
    BY <1>3, <1>4, <2>2 DEF PlacedIn
  <2>4. b \in Range(lists.free[AreaOf(b)][order[b]])
    BY <2>2, <2>3
  <2>5. b \in FreeBuddies
    BY <2>2, <2>4 DEF FreeBuddies, FreeIn
  <2>6. j >= k
    BY <2>1, StateFacts
  <2> QED BY <2>2, <2>3, <2>5, <2>6
<1>7. /\ call' \in [Cores -> Record] /\ pc' = [pc EXCEPT ![c] = "split"]
      /\ call'[c].op = "alloc" /\ call'[c].order = k /\ call'[c].buddy = b
  BY <1>5, <1>6 DEF Goto, IInv, Control, Types, Record
<1>8. Searching(c)'
  <2>1. order' = order /\ lists' = lists /\ Booted' /\ pc'[c] = "split"
    BY <1>7 DEF Alloc, Rest, Booted, IInv, Control, Types
  <2>2. FreeBuddies' = FreeBuddies
    BY <2>1 DEF FreeBuddies
  <2> QED BY <1>6, <1>7, <2>1, <2>2 DEF Searching
<1>9. Control'
  BY <1>7, <1>8, EnterControl DEF Alloc, Rest, Enter
<1> QED BY <1>1, <1>9 DEF IInv

\* The page that mm_init reserves next lies in a free block, and is first in it
\* or second in a pair: the blocks before it are owned and those behind free.
LEMMA NextPageFree ==
  ASSUME IInv, ~Booted, reserved \notin valid
  PROVE  /\ reserved \in Pages
         /\ BuddyOf(reserved) \in FreeBuddies /\ reserved \in Reach(order, BuddyOf(reserved))
<1> DEFINE x == reserved
           b == BuddyOf(x)
<1>1. x \in Pages
  <2>1. /\ x \in Nat /\ x < EarlyPages /\ EarlyPages \in Nat
        /\ EarlyPages <= AreaCount * Size[MaxOrder + 1] /\ AreaCount * Size[MaxOrder + 1] \in Nat
    BY StateFacts, PageFacts, AreaAssumption DEF IInv, Control, Types, Booted
  <2> QED BY <2>1 DEF Pages
<1>2. BlocksGood(order, FreeBuddies, valid, held)
  BY DEF IInv, Sound, FreeBuddies
<1>3. PICK h \in HeadsOf(FreeBuddies, held) : x \in Reach(order, h)
  BY <1>1, <1>2 DEF BlocksGood, Covered
<1>4. /\ h \in Buddies /\ h \in Nat /\ h <= x /\ x \in Nat /\ order[h] \in Orders
      /\ b \in Buddies /\ (x = b \/ x = b + 1) /\ b \in Nat /\ h % 2 = 0 /\ b % 2 = 0
      /\ order \in [Buddies -> Orders]
  BY <1>1, <1>2, <1>3, HeadFacts, ReachFacts, BuddyFacts, PageFacts, StateFacts
<1>5. held = 0 .. x - 1 /\ \A y \in held : order[BuddyOf(y)] = 0
  BY DEF IInv, Control, Early
<1>6. h = b
  <2>1. CASE order[h] = 0
    <3>1. x = h \/ x = h + 1
      BY <1>3, <1>4, <2>1, ReachFacts
    <3>2. BuddyOf(x) = h
      BY <1>4, <3>1, BuddyFacts
    <3> QED BY <3>2
  <2>2. CASE order[h] > 0
    <3>1. h \in FreeBuddies
      <4> SUFFICES ASSUME h \notin FreeBuddies PROVE FALSE
        OBVIOUS
      <4>1. PICK y \in held : BuddyOf(y) = h
        BY <1>3 DEF HeadsOf
      <4> QED BY <1>5, <2>2, <4>1
    <3>2. h \notin held
      <4>1. h \in held => h \in valid
        BY <1>2, HeldFacts
      <4>2. h \in Reach(order, h)
        BY <1>4, ReachFacts
      <4> QED BY <1>2, <2>2, <3>1, <4>1, <4>2, FreeFacts
    <3>3. h = x
      BY <1>4, <1>5, <3>2
    <3> QED BY <1>4, <3>3, BuddyFacts
  <2> QED BY <1>4, <2>1, <2>2 DEF Orders
<1>7. b \in FreeBuddies
  <2> SUFFICES ASSUME b \notin FreeBuddies PROVE FALSE
    OBVIOUS
  <2>1. PICK y \in held : BuddyOf(y) = b
    BY <1>3, <1>6 DEF HeadsOf
  <2>2. order[b] = 0
    BY <1>5, <2>1
  <2>3. b \in valid /\ b + 1 \in valid
    BY <1>2, <2>1, <2>2 DEF BlocksGood, Owned
  <2> QED BY <1>4, <2>3
<1> QED BY <1>1, <1>3, <1>6, <1>7

\* kalloc_page_reserve_pages, from mm_init: the search starts at a free block.
LEMMA ReserveStep ==
  ASSUME IInv, ~Booted, NEW c \in Cores, NEW x \in Pages, NEW k \in Orders, Reserve(c, x, k)
  PROVE  IInv' /\ Quiet
<1>1. Sound(order, lists, valid, held)' /\ Quiet
  BY Unmoved DEF Reserve, Rest, AreFree
<1>2. ~Booted /\ x = reserved /\ k = 0 /\ x \notin valid
  <2>1. ~Booted /\ x = reserved /\ k = 0 /\ Block(x, k) \cap valid = {}
    BY DEF Reserve, AreFree
  <2>2. x \in Block(x, 0)
    <3>1. x \in Nat /\ Size[0] = 1
      BY SizeFacts, PageFacts
    <3> QED BY <3>1 DEF Block
  <2> QED BY <2>1, <2>2
<1> DEFINE b == BuddyOf(x)
<1>3. b \in FreeBuddies /\ x \in Reach(order, b) /\ b \in Buddies
  BY <1>2, NextPageFree, StateFacts
<1>4. /\ call' = [call EXCEPT ![c] = [op |-> "reserve", order |-> 0, addr |-> x,
                                      buddy |-> b, pages |-> 0]]
      /\ pc' = [pc EXCEPT ![c] = "ancestor"]
      /\ \A d \in Cores : pc[d] = "idle"
      /\ UNCHANGED <<order, lists, valid, free_page_num, lock, reserved, held>>
  BY <1>2 DEF Reserve, Goto, Rest, Nobody, AreFree
<1>5. /\ call' \in [Cores -> Record] /\ pc' \in [Cores -> PCs] /\ pc'[c] = "ancestor"
      /\ \A d \in Cores \ {c} : pc'[d] = "idle"
      /\ call'[c] = [op |-> "reserve", order |-> 0, addr |-> x, buddy |-> b, pages |-> 0]
  <2>1. 0 \in Orders /\ 0 \in Nat
    BY SizeFacts
  <2>2. call \in [Cores -> Record] /\ pc \in [Cores -> PCs]
    BY DEF IInv, Control, Types, Record
  <2>3. [op |-> "reserve", order |-> 0, addr |-> x, buddy |-> b, pages |-> 0] \in Record
    BY <1>3, <2>1 DEF Record
  <2>4. call' \in [Cores -> Record] /\ call'[c] = [op |-> "reserve", order |-> 0, addr |-> x, buddy |-> b, pages |-> 0]
    BY <1>4, <2>2, <2>3
  <2> QED BY <1>4, <2>2, <2>4 DEF PCs
<1>6. Types'
  BY <1>4, <1>5 DEF IInv, Control, Types, Record
<1>7. Alone'
  BY <1>2, <1>4, <1>5 DEF Alone, Booted
<1>8. Early'
  BY <1>1, <1>4, <1>5 DEF Early, IInv, Control, Booted
<1>9. ASSUME NEW d \in Cores PROVE Searching(d)' /\ pc'[d] # "panic"
  <2>1. CASE d = c
    <3>1. order[b] \in Orders /\ order[b] >= 0
      BY <1>3, StateFacts
    <3>2. FreeBuddies' = FreeBuddies /\ Reach(order, b)' = Reach(order, b)
      BY <1>4 DEF FreeBuddies, Reach
    <3> QED BY <1>2, <1>3, <1>4, <1>5, <2>1, <3>1, <3>2 DEF Searching, Booted, Reach
  <2>2. CASE d # c
    BY <1>5, <2>2 DEF Searching
  <2> QED BY <2>1, <2>2
<1> QED BY <1>1, <1>6, <1>7, <1>8, <1>9 DEF IInv, Control

\* get_free_ancestor returns at its first turn.
LEMMA AncestorStep ==
  ASSUME IInv, NEW c \in Cores, Ancestor(c)
  PROVE  IInv' /\ Quiet
<1>1. Sound(order, lists, valid, held)' /\ Quiet
  BY Unmoved DEF Ancestor, Rest
<1> DEFINE b == call[c].buddy
<1>2. pc[c] = "ancestor" /\ b \in FreeBuddies /\ order[b] >= call[c].order /\ ~Booted
  BY DEF Ancestor, IInv, Control, Searching
<1>3. IsFree(b)
  <2>1. b \in Buddies
    BY <1>2, StateFacts
  <2> QED BY <1>2, <2>1, StateFacts
<1>4. Goto(c, "split") /\ UNCHANGED <<call, order, lists, valid, free_page_num, lock, reserved, held>>
  <2>1. order[b] \in Nat /\ call[c].order \in Nat
    <3>1. b \in Buddies /\ order \in [Buddies -> Orders]
      BY <1>2, StateFacts
    <3>2. call[c].order \in Orders
      BY DEF IInv, Control, Types, Record
    <3> QED BY <3>1, <3>2, StateFacts
  <2> QED BY <1>2, <1>3, <2>1 DEF Ancestor, Rest
<1>5. pc' = [pc EXCEPT ![c] = "split"] /\ call' \in [Cores -> Record] /\ pc'[c] = "split"
  BY <1>4 DEF Goto, IInv, Control, Types, Record
<1>6. Searching(c)'
  <2>1. Searching(c) /\ FreeBuddies' = FreeBuddies /\ Booted' = Booted
    BY <1>4 DEF IInv, Control, FreeBuddies, Booted
  <2> QED BY <1>2, <1>4, <1>5, <2>1 DEF Searching, Reach
<1>7. Control'
  BY <1>1, <1>2, <1>4, <1>5, <1>6, InsideControl DEF PCs
<1> QED BY <1>1, <1>7 DEF IInv

\* A turn of the split loops.
LEMMA SplitStep ==
  ASSUME IInv, NEW c \in Cores, Split(c)
  PROVE  IInv' /\ Quiet /\ Splits(c)
<1> DEFINE b == call[c].buddy
           k == order[b]
           left == AddBuddy(RemoveBuddy(lists, b, k), b, k - 1)
<1>1. /\ pc[c] = "split" /\ b \in FreeBuddies /\ b \in Buddies /\ k > call[c].order /\ IsFree(b)
      /\ call[c] \in Record /\ k \in Orders /\ k \in Nat /\ call[c].order \in Nat /\ k > 0
      /\ call[c].addr \in Nat /\ b \in Nat
  <2>1. pc[c] = "split" /\ b \in FreeBuddies /\ k > call[c].order /\ call[c] \in Record
    BY DEF Split, IInv, Control, Searching, Types, Record
  <2>2. b \in Buddies /\ k \in Orders /\ IsFree(b)
    BY <2>1, StateFacts
  <2>3. call[c].order \in Orders /\ call[c].addr \in Pages
    BY <2>1 DEF Record
  <2> QED BY <2>1, <2>2, <2>3, StateFacts, PageFacts, BuddyFacts DEF Orders
<1>2. \/ call[c].op = "alloc" /\ Booted
      \/ /\ call[c].op = "reserve" /\ ~Booted /\ call[c].order = 0 /\ call[c].addr = reserved
         /\ reserved \notin valid /\ reserved \in Block(b, k)
  <2>1. Reach(order, b) = Block(b, k)
    BY <1>1, StateFacts, ReachFacts
  <2> QED BY <1>1, <2>1 DEF IInv, Control, Searching
<1>3. /\ k = 1 => order' = [order EXCEPT ![b] = 0] /\ lists' = left
      /\ k # 1 => /\ order' = [order EXCEPT ![b] = k - 1, ![RightChild(b)] = k - 1]
                  /\ lists' = AddBuddy(left, RightChild(b), k - 1)
      /\ call' = [call EXCEPT ![c].buddy = Side(c, b)]
      /\ UNCHANGED <<valid, free_page_num, lock, reserved, pc, held>>
  BY <1>1, <1>2 DEF Split
<1>4. Sound(order, lists, valid, held) /\ order \in [Buddies -> Orders]
  BY StateFacts DEF IInv
\* The child to go on with is free, of the next lower order, and has the page.
<1>5. /\ Sound(order', lists', valid, held) /\ Keeps(order, order', held)
      /\ order' \in [Buddies -> Orders]
      /\ Side(c, b) \in Buddies /\ Side(c, b) \in FreeBuddies' /\ order'[Side(c, b)] = k - 1
      /\ call[c].op # "alloc" => reserved \in Reach(order', Side(c, b))
      /\ order'[b] = k - 1
      /\ k = 1 => FreeBuddies' = FreeBuddies /\ Side(c, b) = b
                  /\ \A d \in Buddies \ {b} : order'[d] = order[d]
      /\ k > 1 => LET r == b + Size[k - 1] IN
                  /\ r \in Buddies /\ FreeBuddies' = FreeBuddies \cup {r} /\ order'[r] = k - 1
                  /\ Side(c, b) \in {b, r}
                  /\ \A d \in Buddies \ {b, r} : order'[d] = order[d]
  <2>1. CASE k = 1
    <3>1. /\ order' \in [Buddies -> Orders] /\ order'[b] = 0
          /\ \A d \in Buddies \ {b} : order'[d] = order[d]
          /\ lists' = AddBuddy(RemoveBuddy(lists, b, 1), b, 0)
      <4>1. order' = [order EXCEPT ![b] = 0] /\ lists' = left
        BY <1>3, <2>1
      <4>2. left = AddBuddy(RemoveBuddy(lists, b, 1), b, 0)
        BY <2>1
      <4> HIDE DEF left
      <4> QED BY <1>1, <1>4, <4>1, <4>2, SizeFacts
    <3>2. /\ Sound(order', lists', valid, held) /\ FreeIn(order', lists') = FreeBuddies
          /\ Keeps(order, order', held)
      BY <1>1, <1>4, <2>1, <3>1, SplitLast DEF FreeBuddies
    <3>3. Side(c, b) = b
      BY <1>1, <2>1, SizeFacts, BuddyFacts DEF Side, RightChild
    <3>4. call[c].op # "alloc" => reserved \in Reach(order', b)
      <4>1. Block(b, k) = {b, b + 1}
        <5>1. Block(b, k) = b .. b + 1
          BY <1>1, <2>1, SizeFacts DEF Block
        <5> QED BY <1>1, <5>1
      <4>2. Reach(order', b) = {b, b + 1}
        BY <1>1, <3>1, ReachFacts
      <4> QED BY <1>2, <4>1, <4>2
    <3> QED BY <1>1, <2>1, <3>1, <3>2, <3>3, <3>4 DEF FreeBuddies
  <2>2. CASE k # 1
    <3> DEFINE s == Size[k - 1]
               r == b + s
    <3>1. k > 1 /\ s \in Nat /\ s > 0 /\ Size[k] = 2 * s /\ k - 1 > 0
      BY <1>1, <2>2, SizeFacts DEF Orders
    <3>2. r \in Buddies /\ RightChild(b) = r /\ r # b
      <4>1. b % Size[k] = 0
        BY <1>1, StateFacts
      <4>2. r \in Buddies /\ BuddyOf(r) = r
        BY <1>1, <3>1, <4>1, ChildFacts
      <4> QED BY <1>1, <3>1, <4>2 DEF RightChild
    <3>3. /\ order' \in [Buddies -> Orders] /\ order'[b] = k - 1 /\ order'[r] = k - 1
          /\ \A d \in Buddies \ {b, r} : order'[d] = order[d]
          /\ lists' = AddBuddy(AddBuddy(RemoveBuddy(lists, b, k), b, k - 1), r, k - 1)
      <4>1. /\ order' = [order EXCEPT ![b] = k - 1, ![r] = k - 1]
            /\ lists' = AddBuddy(left, r, k - 1)
        BY <1>3, <2>2, <3>2
      <4>2. k - 1 \in Orders
        BY <1>1, SizeFacts
      <4> QED BY <1>1, <1>4, <3>2, <4>1, <4>2
    <3>4. /\ Sound(order', lists', valid, held) /\ FreeIn(order', lists') = FreeBuddies \cup {r}
          /\ Keeps(order, order', held)
      <4>1. /\ Sound(order, lists, valid, held) /\ b \in FreeIn(order, lists)
            /\ k = order[b] /\ k > 1 /\ r = b + Size[k - 1]
            /\ order' \in [Buddies -> Orders] /\ order'[b] = k - 1 /\ order'[r] = k - 1
            /\ \A d \in Buddies \ {b, r} : order'[d] = order[d]
            /\ lists' = AddBuddy(AddBuddy(RemoveBuddy(lists, b, k), b, k - 1), r, k - 1)
        BY <1>1, <1>4, <3>1, <3>3 DEF FreeBuddies
      <4> HIDE DEF b, k, r, s, left
      <4> QED BY ONLY <4>1, SplitHalves DEF FreeBuddies
    <3>5. Side(c, b) = IF call[c].op = "alloc" \/ call[c].addr < r THEN b ELSE r
      BY <3>2 DEF Side
    <3>6. call[c].op # "alloc" => reserved \in Reach(order', Side(c, b))
      <4>1. Reach(order', b) = Block(b, k - 1) /\ Reach(order', r) = Block(r, k - 1)
        BY <1>1, <3>1, <3>2, <3>3, ReachFacts
      <4>2. \A x \in Block(b, k) : x \in Nat /\ (x < r => x \in Block(b, k - 1))
                                   /\ (x >= r => x \in Block(r, k - 1))
        BY <1>1, <3>1 DEF Block
      <4>3. reserved \in Nat
        BY StateFacts
      <4>4. CASE call[c].addr < r
        BY <1>2, <3>5, <4>1, <4>2, <4>4
      <4>5. CASE ~(call[c].addr < r)
        <5>1. call[c].op # "alloc" => reserved >= r /\ Side(c, b) = r
          BY <1>1, <1>2, <3>1, <3>5, <4>3, <4>5
        <5> QED BY <1>2, <4>1, <4>2, <5>1
      <4> QED BY <4>4, <4>5
    <3>7. Side(c, b) = b \/ Side(c, b) = r
      BY <3>5
    <3>8. FreeBuddies' = FreeBuddies \cup {r}
      BY <3>4 DEF FreeBuddies
    <3>9. /\ Side(c, b) \in Buddies /\ Side(c, b) \in FreeBuddies' /\ order'[Side(c, b)] = k - 1
      BY <1>1, <3>2, <3>3, <3>7, <3>8
    <3> QED BY <2>2, <3>2, <3>3, <3>4, <3>6, <3>7, <3>8, <3>9
  <2> QED BY <2>1, <2>2
<1>6. Quiet /\ Sound(order, lists, valid, held)'
  BY <1>3, <1>5 DEF Quiet
<1> DEFINE d == Side(c, b)
<1>7. /\ call' \in [Cores -> Record] /\ call'[c] = [call[c] EXCEPT !.buddy = d]
  BY <1>1, <1>3, <1>5 DEF IInv, Control, Types, Record
<1>8. /\ call'[c].op = call[c].op /\ call'[c].order = call[c].order
      /\ call'[c].addr = call[c].addr /\ call'[c].buddy = d
  BY <1>1, <1>7 DEF Record
<1>9. Searching(c)'
  <2>1. k - 1 >= call[c].order /\ Booted' = Booted /\ pc'[c] = "split"
    BY <1>1, <1>3 DEF Booted
  <2>2. reserved' = reserved /\ valid' = valid
    BY <1>3
  <2> HIDE DEF d
  <2>3. d \in FreeBuddies' /\ order'[d] = k - 1 /\ (call[c].op # "alloc" => reserved \in Reach(order', d))
    BY <1>5 DEF d
  <2>4. call'[c].buddy \in FreeBuddies' /\ order'[call'[c].buddy] >= call'[c].order
    BY <1>8, <2>1, <2>3
  <2>5. call[c].op # "alloc" => reserved' \in Reach(order', call'[c].buddy)
    BY <1>8, <2>2, <2>3
  <2> QED BY <1>2, <1>8, <2>1, <2>2, <2>4, <2>5 DEF Searching
<1>10. pc' = [pc EXCEPT ![c] = "split"]
  BY <1>1, <1>3 DEF IInv, Control, Types
<1>11. Control'
  BY <1>1, <1>3, <1>6, <1>7, <1>9, <1>10, InsideControl DEF PCs
<1>12. Splits(c)
  <2>1. call'[c].buddy = Side(c, b)
    BY <1>8
  <2> HIDE DEF d
  <2> QED BY <1>1, <1>3, <1>5, <2>1 DEF Splits
<1> QED BY <1>6, <1>11, <1>12 DEF IInv

\* Returning from the allocator keeps the types.
LEMMA ReturnTypes ==
  ASSUME IInv, NEW c \in Cores, Return(c), free_page_num' \in [Areas -> Int],
         reserved' \in 0 .. EarlyPages
  PROVE  Types'
<1>1. NoCall \in Record
  <2>1. 0 \in Buddies /\ 0 \in Pages /\ 0 \in Orders /\ 0 \in Nat
    <3>1. 0 \in Pages
      BY PageFacts, SizeFacts, AreaAssumption DEF Pages
    <3> QED BY <3>1, SizeFacts DEF Buddies
  <2> QED BY <2>1 DEF NoCall, Record
<1> QED BY <1>1 DEF IInv, Control, Types, Return, Goto, Record, PCs

\* free_page_num stays a number.
LEMMA CountTypes ==
  ASSUME IInv, NEW x \in Pages, NEW n \in Int
  PROVE  /\ [free_page_num EXCEPT ![AreaOf(x)] = @ - n] \in [Areas -> Int]
         /\ [free_page_num EXCEPT ![AreaOf(x)] = @ + n] \in [Areas -> Int]
BY PageFacts DEF IInv, Control, Types

\* assign_buddy_page hands out one page.
LEMMA AssignPageStep ==
  ASSUME IInv, NEW c \in Cores, AssignPage(c)
  PROVE  IInv' /\ Takes /\ Assigns(c)
<1> DEFINE b == call[c].buddy
           x == IF call[c].op = "alloc" THEN FreePage(b) ELSE call[c].addr
           last == Other(x) \in valid
<1>1. /\ pc[c] = "split" /\ b \in FreeBuddies /\ b \in Buddies /\ order[b] = 0 /\ IsFree(b)
      /\ b \in Nat /\ order \in [Buddies -> Orders]
  <2>1. pc[c] = "split" /\ b \in FreeBuddies /\ order[b] = 0
    BY DEF AssignPage, IInv, Control, Searching
  <2> QED BY <2>1, StateFacts, BuddyFacts
<1>2. Sound(order, lists, valid, held) /\ BlocksGood(order, FreeBuddies, valid, held)
  BY DEF IInv, Sound, FreeBuddies
<1>3. x \in Pages /\ x \notin valid /\ BuddyOf(x) = b
  <2>1. CASE call[c].op = "alloc"
    <3>1. b \notin valid \/ b + 1 \notin valid
      BY <1>1, <1>2 DEF BlocksGood, Unused
    <3> QED BY <1>1, <2>1, <3>1, BuddyFacts DEF FreePage
  <2>2. CASE call[c].op # "alloc"
    <3>1. x = reserved /\ ~Booted /\ x \notin valid /\ x \in Reach(order, b)
      BY <1>1, <2>2 DEF IInv, Control, Searching
    <3>2. x = b \/ x = b + 1
      BY <1>1, <3>1, ReachFacts
    <3> QED BY <1>1, <3>1, <3>2, BuddyFacts
  <2> QED BY <2>1, <2>2
<1>4. Assigned(c, x, 0, last)
  BY <1>1, <1>3 DEF AssignPage
<1> HIDE DEF x
<1>5. Block(x, 0) = {x} /\ x \in Nat
  <2>1. x \in Nat
    BY <1>3, PageFacts
  <2> QED BY <2>1, SizeFacts DEF Block
<1>6. /\ valid' = valid \cup {x} /\ held' = held \cup {x} /\ order' = order
      /\ lists' = IF Other(x) \in valid THEN RemoveBuddy(lists, BuddyOf(x), 0) ELSE lists
      /\ free_page_num' = [free_page_num EXCEPT ![AreaOf(x)] = @ - 1]
      /\ reserved' = IF Booted THEN reserved ELSE reserved + 1
      /\ Return(c)
  BY <1>3, <1>4, <1>5, SizeFacts DEF Assigned, MarkedValid
<1>7. Sound(order, lists, valid, held)' /\ FreeBuddies' \subseteq FreeBuddies
  <2>1. BuddyOf(x) \in FreeIn(order, lists) /\ order[BuddyOf(x)] = 0
    BY <1>1, <1>3 DEF FreeBuddies
  <2>2. /\ Sound(order, lists', valid \cup {x}, held \cup {x})
        /\ FreeIn(order, lists') \subseteq FreeIn(order, lists)
    BY <1>2, <1>3, <1>6, <2>1, PageTaken
  <2> QED BY <1>6, <2>2 DEF FreeBuddies
<1>8. Takes
  <2>1. order[BuddyOf(x)] = 0 /\ x % Size[0] = 0 /\ Block(x, 0) \cap valid = {}
    BY <1>1, <1>3, <1>5, SizeFacts
  <2> QED BY <1>3, <1>6, <2>1 DEF Takes
<1>9. Types'
  <2>1. free_page_num' \in [Areas -> Int]
    BY <1>3, <1>6, CountTypes
  <2>2. reserved' \in 0 .. EarlyPages
    <3>1. CASE Booted
      BY <1>6, <3>1 DEF IInv, Control, Types
    <3>2. CASE ~Booted
      <4>1. reserved \in 0 .. EarlyPages /\ reserved # EarlyPages /\ reserved' = reserved + 1
        BY <1>6, <3>2 DEF IInv, Control, Types, Booted
      <4> QED BY <4>1, StateFacts
    <3> QED BY <3>1, <3>2
  <2> QED BY <1>6, <2>1, <2>2, ReturnTypes
<1>10. Early'
  <2> SUFFICES ASSUME ~Booted' PROVE Early'
    BY DEF Early
  <2>1. ~Booted /\ reserved' = reserved + 1
    BY <1>6 DEF Booted
  <2>2. x = reserved
    BY <1>1, <2>1 DEF IInv, Control, Searching, x
  <2>3. lock = None /\ held = 0 .. reserved - 1 /\ \A y \in held : order[BuddyOf(y)] = 0
    BY <2>1 DEF IInv, Control, Early
  <2>4. lock' = None /\ \A d \in Cores : pc'[d] = "idle"
    BY <1>1, <1>6, <2>3, OthersIdle DEF Return, Goto, IInv, Control, Types
  <2>5. held' = 0 .. reserved' - 1
    BY <1>6, <2>1, <2>2, <2>3, StateFacts
  <2>6. \A y \in held' : order'[BuddyOf(y)] = 0
    BY <1>1, <1>3, <1>6, <2>3
  <2> QED BY <2>4, <2>5, <2>6 DEF Early
<1>11. Control'
  BY <1>1, <1>6, <1>9, <1>10, ExitControl
<1>12. Assigns(c)
  <2>1. x % Size[0] = 0 /\ Block(x, 0) \cap valid = {} /\ valid' = valid \cup Block(x, 0)
        /\ free_page_num' = [free_page_num EXCEPT ![AreaOf(x)] = @ - Size[0]]
    BY <1>3, <1>5, <1>6, SizeFacts
  <2>2. /\ x % Size[order[b]] = 0 /\ Block(x, order[b]) \cap valid = {}
        /\ valid' = valid \cup Block(x, order[b]) /\ ~(order[b] > 0)
        /\ free_page_num' = [free_page_num EXCEPT ![AreaOf(x)] = @ - Size[order[b]]]
    BY <1>1, <2>1
  <2> QED BY <1>1, <1>3, <1>6, <1>7, <2>2 DEF Assigns
<1> QED BY <1>7, <1>8, <1>11, <1>12 DEF IInv

\* assign_buddy hands out a block.
LEMMA AssignBlockStep ==
  ASSUME IInv, NEW c \in Cores, AssignBlock(c)
  PROVE  IInv' /\ Takes /\ Assigns(c)
<1> DEFINE b == call[c].buddy
           k == order[b]
<1>1. /\ pc[c] = "split" /\ b \in FreeBuddies /\ b \in Buddies /\ b \in Pages /\ k \in Orders
      /\ k > 0 /\ k # 0 /\ IsFree(b) /\ call[c].op = "alloc" /\ Booted
  <2>1. pc[c] = "split" /\ b \in FreeBuddies /\ k # 0 /\ k = call[c].order
    BY DEF AssignBlock, IInv, Control, Searching, AreFree
  <2>2. b \in Buddies /\ k \in Orders /\ IsFree(b)
    BY <2>1, StateFacts
  <2>3. call[c].op = "alloc" /\ Booted
    BY <2>1 DEF IInv, Control, Searching
  <2> QED BY <2>1, <2>2, <2>3, StateFacts, BuddyFacts DEF Orders
<1>2. Sound(order, lists, valid, held) /\ b \in FreeIn(order, lists)
  BY <1>1 DEF IInv, FreeBuddies
<1>3. /\ Sound(order, RemoveBuddy(lists, b, k), valid \cup Block(b, k), held \cup {b})
      /\ Block(b, k) \cap valid = {}
  BY <1>1, <1>2, BlockTaken
<1>4. Assigned(c, b, k, TRUE)
  BY <1>1, <1>3 DEF AssignBlock, AreFree
<1>5. /\ valid' = valid \cup Block(b, k) /\ held' = held \cup {b} /\ order' = order
      /\ lists' = RemoveBuddy(lists, b, k)
      /\ free_page_num' = [free_page_num EXCEPT ![AreaOf(b)] = @ - Size[k]]
      /\ reserved' = reserved
      /\ Return(c)
  BY <1>1, <1>4 DEF Assigned, MarkedValid
<1>6. Sound(order, lists, valid, held)'
  BY <1>3, <1>5
<1>7. Takes
  <2>1. BuddyOf(b) = b /\ b % Size[k] = 0
    BY <1>1, BuddyFacts, StateFacts
  <2> QED BY <1>1, <1>3, <1>5, <2>1 DEF Takes
<1>8. Types'
  <2>1. free_page_num' \in [Areas -> Int]
    <3>1. Size[k] \in Int
      BY <1>1, SizeFacts DEF Orders
    <3> QED BY <1>1, <1>5, <3>1, CountTypes
  <2>2. reserved' \in 0 .. EarlyPages
    BY <1>5 DEF IInv, Control, Types
  <2> QED BY <1>5, <2>1, <2>2, ReturnTypes
<1>9. Early'
  BY <1>1, <1>5 DEF Early, Booted
<1>10. Control'
  BY <1>1, <1>5, <1>8, <1>9, ExitControl
<1>11. Assigns(c)
  <2>1. BuddyOf(b) = b /\ b % Size[k] = 0
    BY <1>1, BuddyFacts, StateFacts
  <2>2. FreeBuddies' = FreeBuddies \ {b}
    <3>1. /\ ListsGood(lists) /\ PlacedIn(order, lists) /\ order \in [Buddies -> Orders]
      BY <1>2, StateFacts DEF Sound
    <3>2. FreeIn(order, lists') = FreeIn(order, lists) \ {b}
      BY <1>2, <1>5, <3>1, RemovePlaced
    <3> QED BY <1>5, <3>2 DEF FreeBuddies
  <2> QED BY <1>1, <1>3, <1>5, <2>1, <2>2 DEF Assigns
<1> QED BY <1>6, <1>7, <1>10, <1>11 DEF IInv

\* The end of kalloc_page_free_pages.
LEMMA FreeDoneStep ==
  ASSUME IInv, NEW c \in Cores, FreeDone(c)
  PROVE  IInv' /\ Quiet
<1> DEFINE b == call[c].buddy
<1>1. Sound(order, lists, valid, held)' /\ Quiet
  BY Unmoved DEF FreeDone
<1>2. b \in Buddies /\ b \in Pages /\ call[c].pages \in Int /\ Booted /\ pc[c] = "coalesce"
  <2>1. call[c] \in Record /\ pc[c] = "coalesce"
    BY DEF IInv, Control, Types, FreeDone, Record
  <2>2. Booted
    BY <2>1 DEF IInv, Control, Early
  <2> QED BY <2>1, <2>2, BuddyFacts DEF Record
<1>3. Types'
  <2>1. free_page_num' \in [Areas -> Int]
    BY <1>2, CountTypes DEF FreeDone
  <2> QED BY <2>1, ReturnTypes DEF FreeDone, IInv, Control, Types
<1>4. Early'
  BY <1>2 DEF FreeDone, Early, Booted
<1>5. Control'
  BY <1>2, <1>3, <1>4, ExitControl DEF FreeDone
<1> QED BY <1>1, <1>5 DEF IInv

\* A turn of coalesce_buddies.
LEMMA CoalesceStep ==
  ASSUME IInv, NEW c \in Cores, Coalesce(c)
  PROVE  IInv' /\ Quiet /\ Merges(c)
<1> DEFINE b == call[c].buddy
           k == order[b]
           t == Sibling(b)
           p == Parent(b)
<1>1. /\ pc[c] = "coalesce" /\ b \in Buddies /\ k \in 1 .. MaxOrder - 1 /\ order[t] = k
      /\ IsFree(b) /\ IsFree(t) /\ call[c] \in Record
  BY DEF Coalesce, Mergeable, IInv, Control, Types, Record
<1>2. Booted
  BY <1>1 DEF IInv, Control, Early
<1>3. b \in FreeBuddies /\ b % Size[k] = 0
  BY <1>1, StateFacts
<1>4. /\ t \in Buddies /\ p \in Buddies /\ p % Size[k + 1] = 0 /\ AreaOf(p) = AreaOf(b)
      /\ \/ p = b /\ t = b + Size[k]
         \/ p = t /\ b = p + Size[k]
  BY <1>1, <1>3, SiblingFacts
<1>5. t \in FreeBuddies /\ order \in [Buddies -> Orders] /\ Sound(order, lists, valid, held)
  BY <1>1, <1>4, StateFacts DEF IInv
<1>6. k \in Orders /\ k > 0 /\ k < MaxOrder /\ k + 1 \in Orders
  BY <1>1, SizeFacts DEF Orders
<1>7. /\ order' = [order EXCEPT ![p] = k + 1]
      /\ lists' = AddBuddy(RemoveBuddy(RemoveBuddy(lists, b, k), t, k), p, k + 1)
      /\ call' = [call EXCEPT ![c].buddy = p]
      /\ UNCHANGED <<valid, free_page_num, lock, reserved, pc, held>>
  BY DEF Coalesce
<1> DEFINE q == IF p = b THEN t ELSE b
<1>8. q = p + Size[k] /\ ((p = b /\ q = t) \/ (p = t /\ q = b))
  BY <1>4
<1>9. /\ order' \in [Buddies -> Orders] /\ order'[p] = k + 1
      /\ \A d \in Buddies \ {p} : order'[d] = order[d]
  BY <1>4, <1>5, <1>6, <1>7
<1>10. /\ Sound(order', lists', valid, held) /\ Keeps(order, order', held)
       /\ FreeIn(order', lists') = FreeIn(order, lists) \ {q}
  <2>1. /\ Sound(order, lists, valid, held) /\ b \in FreeIn(order, lists)
        /\ t \in FreeIn(order, lists) /\ k \in Orders /\ k > 0 /\ k < MaxOrder
        /\ order[b] = k /\ order[t] = k
        /\ (p = b /\ q = t) \/ (p = t /\ q = b)
        /\ q = p + Size[k] /\ p % Size[k + 1] = 0
        /\ order' \in [Buddies -> Orders] /\ order'[p] = k + 1
        /\ \A d \in Buddies \ {p} : order'[d] = order[d]
        /\ lists' = AddBuddy(RemoveBuddy(RemoveBuddy(lists, b, k), t, k), p, k + 1)
    BY <1>1, <1>3, <1>4, <1>5, <1>6, <1>7, <1>8, <1>9 DEF FreeBuddies
  <2> HIDE DEF p, t, q, k, b
  <2> QED BY ONLY <2>1, MergeHalves
<1>11. Sound(order, lists, valid, held)' /\ Quiet
  BY <1>7, <1>10 DEF Quiet
<1>12. call' \in [Cores -> Record] /\ pc' = [pc EXCEPT ![c] = "coalesce"]
  BY <1>1, <1>4, <1>7 DEF IInv, Control, Types, Record
<1>13. Searching(c)'
  BY <1>1, <1>7 DEF Searching
<1>14. Control'
  BY <1>1, <1>2, <1>7, <1>11, <1>12, <1>13, InsideControl DEF PCs
<1>15. Merges(c)
  <2>1. FreeBuddies' = FreeBuddies \ {q} /\ q \in Buddies /\ b \in {p, q}
    BY <1>4, <1>8, <1>10, <1>1 DEF FreeBuddies
  <2> HIDE DEF p, q, t
  <2> QED BY <1>1, <1>4, <1>6, <1>7, <1>9, <2>1 DEF Merges
<1> QED BY <1>11, <1>14, <1>15 DEF IInv

\* kalloc_page_free_pages, up to its loop.
LEMMA FreeStep ==
  ASSUME IInv, NEW c \in Cores, NEW x \in Pages, Free(c, x), Nobody
  PROVE  IInv' /\ Gives /\ Frees(c)
<1> DEFINE b == BuddyOf(x)
           k == order[b]
           half  == k = 0 /\ Other(x) \in valid
           whole == k = 0 /\ ~half
<1>1. /\ x \in held /\ b \in Buddies /\ k \in Orders /\ x \in Nat /\ Booted
      /\ order \in [Buddies -> Orders]
      /\ held' = held \ {x} /\ UNCHANGED <<free_page_num, reserved>>
  BY StateFacts, BuddyFacts, PageFacts DEF Free, AreValid, MarkedFree
<1>2. Sound(order, lists, valid, held) /\ BlocksGood(order, FreeBuddies, valid, held)
  BY DEF IInv, Sound, FreeBuddies
<1>3. k = 0 \/ k > 0
  BY <1>1 DEF Orders
<1>4. k = 0 => Block(x, k) = {x} /\ x % Size[k] = 0
  <2> SUFFICES ASSUME k = 0 PROVE Block(x, 0) = {x} /\ x % Size[0] = 0
    OBVIOUS
  <2>1. Block(x, 0) = x .. x
    BY <1>1, SizeFacts DEF Block
  <2> QED BY <1>1, <2>1, SizeFacts
\* What is freed is a block of the order that its buddy has.
<1>5. x % Size[k] = 0 /\ Block(x, k) \subseteq valid /\ (whole => IsFree(b))
  <2>1. CASE k = 0
    <3>1. x \in valid /\ (Other(x) \notin valid => b \in FreeBuddies)
      BY <1>1, <1>2, <2>1, PairFacts
    <3> QED BY <1>1, <1>4, <2>1, <3>1, StateFacts
  <2>2. CASE k > 0
    BY <1>1, <1>2, <2>2, OwnedBlock
  <2> QED BY <1>3, <2>1, <2>2
<1>6. /\ valid' = valid \ Block(x, k)
      /\ order' = IF whole THEN [order EXCEPT ![b] = 1] ELSE order
      /\ lists' = IF whole THEN AddBuddy(RemoveBuddy(lists, b, 0), b, 1)
                  ELSE AddBuddy(lists, b, k)
      /\ call' = [call EXCEPT ![c].op = "free", ![c].buddy = b, ![c].pages = FreedPages(b)]
      /\ pc' = [pc EXCEPT ![c] = "coalesce"]
  BY <1>5 DEF Free, Goto, AreValid, MarkedFree
<1>7. /\ Sound(order', lists', valid', held') /\ Keeps(order, order', held')
      /\ FreeBuddies' = FreeBuddies \cup {b}
  <2>1. CASE half
    <3>1. /\ Sound(order, AddBuddy(lists, b, 0), valid \ {x}, held \ {x})
          /\ FreeIn(order, AddBuddy(lists, b, 0)) = FreeIn(order, lists) \cup {b}
      BY <1>1, <1>2, <2>1, HalfGiven
    <3> QED BY <1>1, <1>4, <1>6, <2>1, <3>1 DEF Keeps, FreeBuddies
  <2>2. CASE whole
    <3>1. /\ order' \in [Buddies -> Orders] /\ order'[b] = 1
          /\ \A d \in Buddies \ {b} : order'[d] = order[d]
          /\ lists' = AddBuddy(RemoveBuddy(lists, b, 0), b, 1)
      BY <1>1, <1>6, <2>2, SizeFacts
    <3>2. k = 0 /\ Other(x) \notin valid
      BY <2>2
    <3>3. /\ Sound(order', lists', valid \ {x}, held \ {x})
          /\ Keeps(order, order', held \ {x})
          /\ b \in FreeIn(order, lists) /\ FreeIn(order', lists') = FreeIn(order, lists)
      BY <1>1, <1>2, <3>1, <3>2, WholeGiven
    <3> QED BY <1>1, <1>4, <1>6, <3>2, <3>3 DEF FreeBuddies
  <2>3. CASE k > 0
    <3>1. /\ Sound(order, AddBuddy(lists, b, k), valid \ Block(x, k), held \ {x})
          /\ FreeIn(order, AddBuddy(lists, b, k)) = FreeIn(order, lists) \cup {b}
      BY <1>1, <1>2, <2>3, BlockGiven
    <3> QED BY <1>1, <1>6, <2>3, <3>1 DEF Keeps, FreeBuddies
  <2> QED BY <1>3, <2>1, <2>2, <2>3
<1>8. Gives
  BY <1>1, <1>7 DEF Gives
<1>9. call' \in [Cores -> Record]
  <2>1. FreedPages(b) \in Nat
    BY <1>1, SizeFacts DEF FreedPages, Orders
  <2>2. call \in [Cores -> Record]
    BY DEF IInv, Control, Types
  <2>3. [call[c] EXCEPT !.op = "free", !.buddy = b, !.pages = FreedPages(b)] \in Record
    BY <1>1, <2>1, <2>2 DEF Record
  <2>4. call' = [call EXCEPT ![c] = [call[c] EXCEPT !.op = "free", !.buddy = b,
                                                    !.pages = FreedPages(b)]]
    BY <1>6, <2>2 DEF Record
  <2> QED BY <2>2, <2>3, <2>4
<1>10. Searching(c)'
  BY <1>6 DEF Searching, IInv, Control, Types
<1>11. Control'
  <2>1. lock' \in {c, lock} /\ (FreeLocks => lock' = c)
    BY DEF Free, Enter
  <2> QED BY <1>1, <1>6, <1>9, <1>10, <2>1, EnterControl
<1>12. Frees(c)
  <2>1. \A d \in Cores : pc[d] = "idle"
    BY DEF Nobody
  <2>2. \A d \in Buddies \ {b} : order'[d] = order[d]
    BY <1>1, <1>6
  <2>3. order'[b] = 0 => Other(x) \in valid'
    <3>1. order'[b] = 0 => half
      BY <1>1, <1>6
    <3>2. Other(x) # x
      BY <1>1 DEF Other
    <3> QED BY <1>4, <1>6, <3>1, <3>2
  <2> QED BY <1>1, <1>5, <1>6, <1>7, <2>1, <2>2, <2>3 DEF Frees
<1> QED BY <1>7, <1>8, <1>11, <1>12 DEF IInv

---------------------------------------------------------------------------
(* Every step, and the initial state. *)

\* Every step keeps the invariant, and is one of the three moves.
LEMMA Steps ==
  ASSUME IInv, [Next]_vars, [InTurn]_vars
  PROVE  IInv' /\ Moves
<1>1. CASE UNCHANGED vars
  <2>1. Sound(order, lists, valid, held)' /\ Quiet
    BY <1>1, Unmoved DEF vars
  <2>2. Control'
    BY <1>1 DEF vars, IInv, Control, Types, Alone, Early, Searching, Booted, Reach, FreeBuddies, FreeIn
  <2> QED BY <2>1, <2>2 DEF IInv, Moves
<1>2. CASE Next /\ InTurn
  <2>1. PICK c \in Cores :
          \/ Step(c)
          \/ \E k \in Orders : AllocFull(c, k) \/ Alloc(c, k)
          \/ \E x \in Pages, k \in Orders : Reserve(c, x, k)
          \/ \E x \in Pages : Free(c, x)
    BY <1>2 DEF Next
  <2>2. CASE Step(c)
    BY <2>2, AncestorStep, SplitStep, AssignPageStep, AssignBlockStep, CoalesceStep, FreeDoneStep
       DEF Step, Moves
  <2>3. CASE \E k \in Orders : AllocFull(c, k) \/ Alloc(c, k)
    BY <1>2, <2>3, AllocFullStep, AllocStep DEF Moves, InTurn
  <2>4. CASE \E x \in Pages, k \in Orders : Reserve(c, x, k)
    BY <1>2, <2>4, ReserveStep DEF Moves, InTurn
  <2>5. CASE \E x \in Pages : Free(c, x)
    BY <1>2, <2>5, FreeStep DEF Moves, InTurn
  <2> QED BY <2>1, <2>2, <2>3, <2>4, <2>5
<1> QED BY <1>1, <1>2

\* With the lock taken by frees too, the callers take turns.
LEMMA LockedInTurn ==
  ASSUME FreeLocks, ~AnyReserve, IInv
  PROVE  InTurn
BY NobodyElse DEF InTurn, Nobody, AllocFull, Alloc, Free, Reserve, Enter

\* The two blocks of an area at the start.
LEMMA TopFacts ==
  ASSUME NEW b \in Buddies, b % Size[MaxOrder] = 0
  PROVE  LET s == AreaOf(b) * Size[MaxOrder + 1] IN b = s \/ b = s + Size[MaxOrder]
<1> DEFINE S == Size[MaxOrder]
           T == Size[MaxOrder + 1]
<1>1. S \in Nat /\ S > 0 /\ T \in Nat /\ T > 0 /\ T = 2 * S /\ b \in Nat
  BY SizeFacts, BuddyFacts
<1> HIDE DEF S, T
<1>2. CASE b % T = 0
  <2>1. b = (b \div T) * T
    BY <1>1, <1>2, Divided
  <2> QED BY <2>1 DEF AreaOf, T
<1>3. CASE b % T # 0
  <2>1. b >= S /\ (b - S) % T = 0
    <3>1. (b \div S) % 2 # 0
      BY <1>1, <1>3, HalfOf DEF S
    <3> QED BY <1>1, <3>1, HalfOf DEF S
  <2> DEFINE d == b - S
             a == d \div T
  <2>2. d \in Nat /\ d = a * T /\ a \in Nat
    BY <1>1, <2>1, Divided
  <2>3. a * T <= b /\ b < a * T + T /\ b = a * T + S
    <3> HIDE DEF a
    <3> QED BY <1>1, <2>1, <2>2
  <2>4. b \div T = a
    <3> HIDE DEF a
    <3> QED BY <1>1, <2>2, <2>3, Within
  <2> QED BY <2>3, <2>4 DEF AreaOf, T, S
<1> QED BY <1>2, <1>3

\* The first blocks of an area, one by one.
LEMMA TopBlocks ==
  ASSUME NEW a \in Areas, NEW s, s = a * Size[MaxOrder + 1], NEW t, t = s + Size[MaxOrder]
  PROVE  /\ s \in Buddies /\ t \in Buddies /\ s # t /\ Tops(a) = <<s, t>>
         /\ AreaOf(s) = a /\ AreaOf(t) = a
         /\ s % Size[MaxOrder] = 0 /\ t % Size[MaxOrder] = 0
<1> DEFINE S == Size[MaxOrder]
           T == Size[MaxOrder + 1]
<1>1. /\ S \in Nat /\ S > 0 /\ S % 2 = 0 /\ T \in Nat /\ T > 0 /\ T = 2 * S
      /\ a \in Nat /\ s \in Nat /\ t \in Nat /\ s + T <= AreaCount * T /\ AreaCount * T \in Nat
  <2>1. S \in Nat /\ S > 0 /\ T \in Nat /\ T > 0 /\ T = 2 * S /\ S % 2 = 0
    BY SizeFacts
  <2>2. a \in Nat /\ a * T \in Nat /\ a * T + T <= AreaCount * T /\ AreaCount * T \in Nat
    BY PageFacts
  <2> QED BY <2>1, <2>2
<1> HIDE DEF S, T
<1>2. s % T = 0 /\ s % S = 0 /\ t % S = 0
  <2>1. s % (2 * S) = 0
    BY <1>1, Multiple DEF T
  <2>2. s % S = 0 /\ (s + S) % S = 0
    BY <1>1, <2>1, Halves
  <2> QED BY <1>1, <2>1, <2>2 DEF S
<1>3. s \div T = a /\ t \div T = a
  <2>1. a * T <= s /\ s < a * T + T /\ a * T <= t /\ t < a * T + T
    BY <1>1 DEF T, S
  <2> QED BY <1>1, <2>1, Within
<1>4. s % 2 = 0 /\ t % 2 = 0
  <2>1. s = 2 * (a * S) /\ a * S \in Nat
    BY <1>1 DEF T
  <2>2. s % 2 = 0
    BY <2>1, Even
  <2> QED BY <1>1, <2>2 DEF S
<1>5. s \in Pages /\ t \in Pages
  BY <1>1 DEF Pages, T, S
<1> QED BY <1>1, <1>2, <1>3, <1>4, <1>5 DEF Buddies, AreaOf, Tops, S, T

\* mm_area_init leaves the lists in order, with all the memory on them.
LEMMA InitLists ==
  ASSUME Init
  PROVE  /\ ListsGood(lists) /\ PlacedIn(order, lists)
         /\ FreeBuddies = {b \in Buddies : b % Size[MaxOrder] = 0}
<1>1. /\ order = [b \in Buddies |-> IF b % Size[MaxOrder] = 0 THEN MaxOrder ELSE 0]
      /\ lists.free = [a \in Areas |-> [k \in Orders |->
                         IF k = MaxOrder THEN Tops(a) ELSE <<>>]]
      /\ lists.areas = [k \in Orders |-> IF k = MaxOrder THEN [i \in 1 .. AreaCount |-> i - 1]
                                         ELSE <<>>]
  BY DEF Init
<1>2. MaxOrder \in Orders /\ 0 \in Orders /\ MaxOrder # 0 /\ AreaCount \in Nat \ {0}
  BY SizeFacts, AreaAssumption
<1>3. ASSUME NEW a \in Areas
      PROVE  /\ Tops(a) \in Seq(Buddies) /\ IsSet(Tops(a)) /\ Range(Tops(a)) # {}
             /\ \A b : b \in Range(Tops(a)) <=> b = a * Size[MaxOrder + 1]
                                                \/ b = a * Size[MaxOrder + 1] + Size[MaxOrder]
  <2> DEFINE s == a * Size[MaxOrder + 1]
             t == s + Size[MaxOrder]
  <2>1. s \in Buddies /\ t \in Buddies /\ s # t /\ Tops(a) = <<s, t>>
    BY TopBlocks
  <2> HIDE DEF s, t
  <2>2. Tops(a) \in Seq(Buddies) /\ Len(Tops(a)) = 2 /\ Tops(a)[1] = s /\ Tops(a)[2] = t
    BY <2>1
  <2>3. IsSet(Tops(a))
    BY <2>1, <2>2 DEF IsSet
  <2>4. \A b : b \in Range(Tops(a)) <=> b = s \/ b = t
    BY <2>2, RangeFacts
  <2> QED BY <2>2, <2>3, <2>4 DEF s, t
<1>4. /\ <<>> \in Seq(Buddies) /\ <<>> \in Seq(Areas)
      /\ IsSet(<<>>) /\ Range(<<>>) = {}
  <2>1. <<>> \in Seq(Buddies) /\ <<>> \in Seq(Areas)
    OBVIOUS
  <2> QED BY <2>1, RangeFacts DEF IsSet
<1> DEFINE all == [i \in 1 .. AreaCount |-> i - 1]
<1>5. all \in Seq(Areas) /\ IsSet(all) /\ \A a \in Areas : a \in Range(all)
  <2>1. all \in Seq(Areas) /\ Len(all) = AreaCount
    BY <1>2 DEF Areas
  <2>2. IsSet(all)
    BY <1>2, <2>1 DEF IsSet
  <2>3. ASSUME NEW a \in Areas PROVE \E i \in 1 .. Len(all) : a = all[i]
    <3>1. a + 1 \in 1 .. AreaCount /\ all[a + 1] = a
      BY <1>2 DEF Areas
    <3> QED BY <2>1, <3>1
  <2>4. \A a \in Areas : a \in Range(all)
    <3> HIDE DEF all
    <3> QED BY <2>1, <2>3, RangeFacts
  <2> QED BY <2>1, <2>2, <2>4
<1> HIDE DEF all
<1>6. /\ \A a \in Areas : lists.free[a][MaxOrder] = Tops(a)
      /\ \A a \in Areas, k \in Orders : k # MaxOrder => lists.free[a][k] = <<>>
      /\ lists.areas[MaxOrder] = all
      /\ \A k \in Orders : k # MaxOrder => lists.areas[k] = <<>>
  BY <1>1, <1>2 DEF all
<1>7. ListsGood(lists)
  <2>1. \A a \in Areas, k \in Orders : lists.free[a][k] \in Seq(Buddies) /\ IsSet(lists.free[a][k])
    BY <1>3, <1>4, <1>6
  <2>2. \A k \in Orders : lists.areas[k] \in Seq(Areas) /\ IsSet(lists.areas[k])
    BY <1>4, <1>5, <1>6
  <2>3. lists.free \in [Areas -> [Orders -> Seq(Buddies)]]
    BY <1>1, <2>1
  <2>4. lists.areas \in [Orders -> Seq(Areas)]
    BY <1>1, <2>2
  <2>5. ASSUME NEW k \in Orders, NEW a \in Areas
        PROVE  a \in Range(lists.areas[k]) <=> Range(lists.free[a][k]) # {}
    BY <1>3, <1>4, <1>5, <1>6
  <2> QED BY <2>1, <2>2, <2>3, <2>4, <2>5 DEF ListsGood
<1>8. \A a \in Areas, k \in Orders : \A b \in Range(lists.free[a][k]) :
        /\ k = MaxOrder /\ b \in Buddies /\ AreaOf(b) = a /\ b % Size[MaxOrder] = 0
  <2> SUFFICES ASSUME NEW a \in Areas, NEW k \in Orders, NEW b \in Range(lists.free[a][k])
               PROVE  k = MaxOrder /\ b \in Buddies /\ AreaOf(b) = a /\ b % Size[MaxOrder] = 0
    OBVIOUS
  <2>1. k = MaxOrder
    BY <1>4, <1>6
  <2>2. \/ b = a * Size[MaxOrder + 1]
        \/ b = a * Size[MaxOrder + 1] + Size[MaxOrder]
    BY <1>3, <1>6, <2>1
  <2> QED BY <2>1, <2>2, TopBlocks
<1>9. PlacedIn(order, lists)
  BY <1>1, <1>8 DEF PlacedIn
<1>10. ASSUME NEW b \in Buddies PROVE b \in FreeBuddies <=> b % Size[MaxOrder] = 0
  <2>1. AreaOf(b) \in Areas
    BY BuddyFacts
  <2>2. CASE b % Size[MaxOrder] = 0
    <3>1. order[b] = MaxOrder
      BY <1>1, <2>2
    <3>2. b \in Range(Tops(AreaOf(b)))
      BY <1>3, <2>1, <2>2, TopFacts
    <3> QED BY <1>6, <2>1, <2>2, <3>1, <3>2 DEF FreeBuddies, FreeIn
  <2>3. CASE b % Size[MaxOrder] # 0
    <3>1. order[b] = 0
      BY <1>1, <2>3
    <3> QED BY <1>2, <1>4, <1>6, <2>1, <2>3, <3>1 DEF FreeBuddies, FreeIn
  <2> QED BY <2>2, <2>3
<1>11. FreeBuddies = {b \in Buddies : b % Size[MaxOrder] = 0}
  <2>1. FreeBuddies \subseteq Buddies
    BY DEF FreeBuddies, FreeIn
  <2> QED BY <1>10, <2>1
<1> QED BY <1>7, <1>9, <1>11

\* The blocks of mm_area_init partition the memory.
LEMMA InitBlocks ==
  ASSUME Init
  PROVE  BlocksGood(order, FreeBuddies, valid, held)
<1> DEFINE S == Size[MaxOrder]
           H == {b \in Buddies : b % S = 0}
<1>1. /\ order = [b \in Buddies |-> IF b % S = 0 THEN MaxOrder ELSE 0]
      /\ FreeBuddies = H /\ valid = {} /\ held = {}
  BY InitLists DEF Init
<1>2. S \in Nat /\ S > 0 /\ S % 2 = 0 /\ MaxOrder \in Orders /\ 0 \in Orders /\ MaxOrder > 0
  BY SizeFacts
<1>3. order \in [Buddies -> Orders] /\ \A b \in H : order[b] = MaxOrder
  BY <1>1, <1>2
<1>4. HeadsOf(FreeBuddies, held) = H
  BY <1>1 DEF HeadsOf
<1>5. Aligned(order, FreeBuddies, held)
  BY <1>3, <1>4 DEF Aligned
<1> HIDE DEF S
\* The block that covers a page is the S pages around it.
<1>6. ASSUME NEW x \in Pages
      PROVE  /\ (x \div S) * S \in H
             /\ \A b \in H : x \in Block(b, MaxOrder) <=> b = (x \div S) * S
  <2> DEFINE q == x \div S
             d == q * S
  <2>1. x \in Nat
    BY PageFacts
  <2>2. q \in Nat /\ d <= x /\ x < d + S
    BY <1>2, <2>1, Quotient
  <2>3. d \in Nat /\ d % S = 0 /\ d % 2 = 0
    <3>1. d \in Nat /\ d % S = 0
      <4> HIDE DEF q
      <4>1. q * S \in Nat
        BY <1>2, <2>2
      <4>2. (q * S) % S = 0
        BY <1>2, <2>2, Multiple
      <4> QED BY <4>1, <4>2
    <3>2. S = 2 * Size[MaxOrder - 1] /\ Size[MaxOrder - 1] \in Nat
      BY SizeFacts DEF S, Orders
    <3>3. d = 2 * (q * Size[MaxOrder - 1]) /\ q * Size[MaxOrder - 1] \in Nat
      <4> HIDE DEF q
      <4> QED BY <2>2, <3>2
    <3> QED BY <3>1, <3>3, Even
  <2>4. d \in H
    <3> HIDE DEF d
    <3>1. d \in Pages
      <4>1. x <= AreaCount * Size[MaxOrder + 1] - 1 /\ AreaCount * Size[MaxOrder + 1] \in Nat
        BY PageFacts DEF Pages
      <4> QED BY <2>1, <2>2, <2>3, <4>1 DEF Pages
    <3> QED BY <2>3, <3>1 DEF Buddies
  <2>5. ASSUME NEW b \in H PROVE x \in Block(b, MaxOrder) <=> b = d
    <3>1. b \in Nat /\ Block(b, MaxOrder) = b .. b + S - 1 /\ b % S = 0
      BY BuddyFacts DEF Block, S
    <3>2. b = d => x \in Block(b, MaxOrder)
      <4> HIDE DEF d
      <4> QED BY <1>2, <2>1, <2>2, <3>1
    <3>3. ASSUME x \in Block(b, MaxOrder) PROVE b = d
      <4>1. b <= x /\ x < b + S
        BY <1>2, <2>1, <3>1, <3>3
      <4>2. b \div S \in Nat /\ b = (b \div S) * S
        BY <1>2, <3>1, Divided
      <4>3. x \div S = b \div S
        <5> DEFINE r == b \div S
        <5> HIDE DEF r
        <5>1. r \in Nat /\ r * S <= x /\ x < r * S + S
          BY <4>1, <4>2 DEF r
        <5> QED BY <1>2, <2>1, <5>1, Within DEF r
      <4> QED BY <4>2, <4>3
    <3> QED BY <3>2, <3>3
  <2> QED BY <2>4, <2>5
<1>7. \A b \in H : Reach(order, b) = Block(b, MaxOrder)
  BY <1>2, <1>3, ReachFacts
<1>8. \A b \in H : \A x \in Block(b, MaxOrder) : x \in Pages
  BY <1>2, BlockInArea, BuddyFacts DEF S
<1>9. Apart(order, FreeBuddies, held) /\ Covered(order, FreeBuddies, held)
  BY <1>4, <1>6, <1>7, <1>8 DEF Apart, Covered
<1>10. Marked(order, valid, held) /\ Unused(order, FreeBuddies, valid) /\ Owned(order, FreeBuddies, valid, held)
  BY <1>1 DEF Marked, Unused, Owned
<1> QED BY <1>1, <1>3, <1>5, <1>9, <1>10 DEF BlocksGood

\* The invariant holds at the start.
LEMMA InitFacts == Init => IInv
<1> SUFFICES ASSUME Init PROVE IInv
  OBVIOUS
<1>1. Sound(order, lists, valid, held)
  BY InitLists, InitBlocks DEF Sound, FreeBuddies
<1>2. /\ 0 \in Buddies /\ 0 \in Pages /\ 0 \in Orders /\ 0 \in Nat /\ Size[MaxOrder + 1] \in Int
      /\ EarlyPages \in Nat
  <2>1. 0 \in Pages
    BY PageFacts, SizeFacts, AreaAssumption DEF Pages
  <2> QED BY <2>1, SizeFacts, StateFacts, AreaAssumption, PageFacts DEF Buddies
<1>3. Types
  <2>1. NoCall \in Record
    BY <1>2 DEF NoCall, Record
  <2>2. call \in [Cores -> Record] /\ pc \in [Cores -> PCs]
    BY <2>1 DEF Init, PCs
  <2>3. free_page_num \in [Areas -> Int] /\ lock \in Cores \cup {None} /\ reserved \in 0 .. EarlyPages
    BY <1>2 DEF Init
  <2> QED BY <2>2, <2>3 DEF Types
<1>4. Alone /\ Early /\ \A c \in Cores : Searching(c) /\ pc[c] # "panic"
  BY <1>2 DEF Init, Alone, Early, Searching
<1> QED BY <1>1, <1>3, <1>4 DEF IInv, Control

\* The invariant holds as long as the callers take turns.
LEMMA Invariance == Spec /\ [][InTurn]_vars => []IInv
<1>1. IInv /\ [Next]_vars /\ [InTurn]_vars => IInv'
  BY Steps
<1> QED BY <1>1, InitFacts, PTL DEF Spec

---------------------------------------------------------------------------
(* What the invariant says. *)

\* The terms of the properties in those of the proof.
LEMMA ExtentFacts ==
  ASSUME IInv
  PROVE  /\ BlocksGood(order, FreeBuddies, valid, held)
         /\ \A b \in Buddies : OnList(b) <=> b \in FreeBuddies
         /\ Heads = HeadsOf(FreeBuddies, held)
         /\ \A b \in Heads : Extent(b) = Reach(order, b) /\ Extent(b) \subseteq Pages
         /\ valid \subseteq Pages
<1>1. /\ BlocksGood(order, FreeBuddies, valid, held) /\ PlacedIn(order, lists)
      /\ order \in [Buddies -> Orders]
  BY StateFacts DEF IInv, Sound, FreeBuddies
<1>2. ASSUME NEW b \in Buddies PROVE OnList(b) <=> b \in FreeBuddies
  <2>1. AreaOf(b) \in Areas /\ order[b] \in Orders
    BY <1>1, BuddyFacts
  <2>2. OnList(b) => b \in FreeBuddies
    BY <1>1 DEF OnList, PlacedIn, FreeBuddies, FreeIn
  <2>3. b \in FreeBuddies => OnList(b)
    BY <2>1 DEF OnList, FreeBuddies, FreeIn
  <2> QED BY <2>2, <2>3
<1>3. Heads = HeadsOf(FreeBuddies, held)
  <2>1. HeadsOf(FreeBuddies, held) \subseteq Buddies
    BY <1>1, HeadFacts
  <2>2. \A b \in Buddies : b \in Heads <=> b \in HeadsOf(FreeBuddies, held)
    BY <1>2 DEF Heads, HeadsOf
  <2>3. Heads \subseteq Buddies
    BY DEF Heads
  <2> QED BY <2>1, <2>2, <2>3
<1>4. ASSUME NEW b \in Heads
      PROVE  Extent(b) = Reach(order, b) /\ Extent(b) \subseteq Pages
  <2>1. Extent(b) = Reach(order, b)
    BY DEF Extent, Reach, Block
  <2>2. b \in Buddies /\ order[b] \in Orders
    BY <1>1 DEF Heads
  <2>3. CASE order[b] = 0
    <3>1. Reach(order, b) = {b, b + 1}
      BY <1>1, <2>2, <2>3, ReachFacts
    <3> QED BY <2>1, <2>2, <3>1, BuddyFacts
  <2>4. CASE order[b] > 0
    <3>1. Reach(order, b) = Block(b, order[b])
      BY <1>1, <2>2, <2>4, ReachFacts
    <3>2. b % Size[order[b]] = 0
      BY <1>1, <1>3 DEF BlocksGood, Aligned
    <3>3. \A x \in Block(b, order[b]) : x \in Pages
      BY <2>2, <3>2, BlockInArea, BuddyFacts
    <3> QED BY <2>1, <3>1, <3>3
  <2> QED BY <2>2, <2>3, <2>4 DEF Orders
<1>5. valid \subseteq Pages
  <2> SUFFICES ASSUME NEW x \in valid PROVE x \in Pages
    OBVIOUS
  <2>1. PICK y \in held : x \in Block(y, order[BuddyOf(y)])
    BY <1>1 DEF BlocksGood, Marked
  <2>2. x \in Reach(order, BuddyOf(y)) /\ BuddyOf(y) \in HeadsOf(FreeBuddies, held)
    BY <1>1, <2>1, HeldFacts, HeadFacts
  <2> QED BY <1>3, <1>4, <2>2
<1> QED BY <1>1, <1>2, <1>3, <1>4, <1>5

\* The types.
LEMMA TypesFollow == IInv => TypeOK
<1> SUFFICES ASSUME IInv PROVE TypeOK
  OBVIOUS
<1>1. /\ lists.free \in [Areas -> [Orders -> Seq(Buddies)]]
      /\ lists.areas \in [Orders -> Seq(Areas)]
  BY DEF IInv, Sound, ListsGood
<1>2. order \in [Buddies -> Orders] /\ valid \subseteq Pages /\ held \subseteq Pages
  BY StateFacts, ExtentFacts
<1> QED BY <1>1, <1>2 DEF IInv, Control, Types, Record, TypeOK

\* The blocks.
LEMMA PartitionFollows == IInv => Partition
<1> SUFFICES ASSUME IInv PROVE Partition
  OBVIOUS
<1>1. /\ BlocksGood(order, FreeBuddies, valid, held) /\ Heads = HeadsOf(FreeBuddies, held)
      /\ \A b \in Heads : Extent(b) = Reach(order, b) /\ Extent(b) \subseteq Pages
  BY ExtentFacts
<1>2. \A b \in Heads : b % Size[order[b]] = 0
  BY <1>1 DEF BlocksGood, Aligned
<1>3. \A b, d \in Heads : b # d => Extent(b) \cap Extent(d) = {}
  BY <1>1 DEF BlocksGood, Apart
<1>4. \A x \in Pages : \E b \in Heads : x \in Extent(b)
  BY <1>1 DEF BlocksGood, Covered
<1>5. valid = UNION {Block(x, order[BuddyOf(x)]) : x \in held}
  BY <1>1 DEF BlocksGood, Marked
<1> QED BY <1>1, <1>2, <1>3, <1>4, <1>5 DEF Partition

\* The lists.
LEMMA ListsFollow == IInv => ListsInv
<1> SUFFICES ASSUME IInv PROVE ListsInv
  OBVIOUS
<1>1. BlocksGood(order, FreeBuddies, valid, held) /\ ListsGood(lists) /\ PlacedIn(order, lists)
  BY DEF IInv, Sound, FreeBuddies
<1>2. ASSUME NEW a \in Areas, NEW k \in Orders, NEW b \in Range(lists.free[a][k])
      PROVE  /\ order[b] = k /\ AreaOf(b) = a
             /\ k > 0 => Block(b, k) \cap valid = {}
             /\ k = 0 => \E x \in Block(b, 1) : x \notin valid
  <2>1. order[b] = k /\ AreaOf(b) = a
    BY <1>1 DEF PlacedIn
  <2>2. b \in Buddies
    <3>1. lists.free[a][k] \in Seq(Buddies)
      BY <1>1 DEF ListsGood
    <3> QED BY <3>1, RangeFacts
  <2>3. b \in FreeBuddies
    BY <2>1, <2>2 DEF FreeBuddies, FreeIn
  <2>4. k = 0 => b \in Block(b, 1) /\ b + 1 \in Block(b, 1)
    BY <2>2, BuddyFacts, SizeFacts DEF Block
  <2>5. /\ order[b] > 0 => \A x \in Block(b, order[b]) : x \notin valid
        /\ order[b] = 0 => b \notin valid \/ b + 1 \notin valid
    BY <1>1, <2>3 DEF BlocksGood, Unused
  <2> QED BY <2>1, <2>4, <2>5
<1>3. ASSUME NEW a \in Areas, NEW k \in Orders
      PROVE  a \in Range(lists.areas[k]) <=> lists.free[a][k] # <<>>
  <2>1. lists.free[a][k] \in Seq(Buddies)
    BY <1>1 DEF ListsGood
  <2>2. lists.free[a][k] = <<>> <=> Range(lists.free[a][k]) = {}
    BY <2>1, RangeFacts
  <2> QED BY <1>1, <2>2 DEF ListsGood
<1>4. /\ \A a \in Areas, k \in Orders : IsSet(lists.free[a][k])
      /\ \A k \in Orders : IsSet(lists.areas[k])
  BY <1>1 DEF ListsGood
<1> QED BY ONLY <1>2, <1>3, <1>4 DEF ListsInv

\* No core is stopped.
LEMMA PanicFollows == IInv => NoPanic
BY DEF IInv, Control, NoPanic

---------------------------------------------------------------------------
(* The allocator implements BlockPool. *)

OwnedBlocks == {<<x, order[BuddyOf(x)]>> : x \in held}

\* The moves are the actions of BlockPool, or leave what is owned alone.
LEMMA MovesImplement ==
  ASSUME IInv, Moves
  PROVE  [Pool!Next]_OwnedBlocks
<1>1. BlocksGood(order, FreeBuddies, valid, held)
  BY DEF IInv, Sound, FreeBuddies
<1>2. CASE Quiet
  <2>1. OwnedBlocks' = OwnedBlocks
    BY <1>2 DEF Quiet, Keeps, OwnedBlocks
  <2> QED BY <2>1
<1>3. CASE Takes
  <2>1. PICK x \in Pages : /\ x % Size[order[BuddyOf(x)]] = 0
                           /\ Block(x, order[BuddyOf(x)]) \cap valid = {}
                           /\ held' = held \cup {x} /\ order' = order
    BY <1>3 DEF Takes
  <2> DEFINE k == order[BuddyOf(x)]
  <2>2. k \in Orders
    BY StateFacts, BuddyFacts
  <2>3. OwnedBlocks' = OwnedBlocks \cup {<<x, k>>}
    BY <2>1 DEF OwnedBlocks
  <2>4. \A y \in held : Block(y, order[BuddyOf(y)]) \subseteq valid
    BY <1>1, HeldFacts
  <2>5. \A o \in OwnedBlocks : Pool!Block(x, k) \cap Pool!Block(o[1], o[2]) = {}
    BY <2>1, <2>4 DEF OwnedBlocks, Pool!Block, Block
  <2>6. Pool!Take(x, k)
    BY <2>1, <2>3, <2>5 DEF Pool!Take, OwnedBlocks
  <2> HIDE DEF k
  <2>7. Pool!Next
    <3>1. \E p \in Pages, j \in Orders : Pool!Take(p, j) \/ Pool!Give(p, j)
      BY <2>2, <2>6 DEF Pool!Take
    <3> QED BY <3>1 DEF Pool!Next
  <2> QED BY <2>7
<1>4. CASE Gives
  <2>1. PICK x \in held : held' = held \ {x} /\ Keeps(order, order', held \ {x})
    BY <1>4 DEF Gives
  <2> DEFINE k == order[BuddyOf(x)]
  <2>2. k \in Orders /\ x \in Pages
    BY StateFacts, BuddyFacts
  <2>3. OwnedBlocks' = OwnedBlocks \ {<<x, k>>}
    BY <2>1 DEF OwnedBlocks, Keeps
  <2>4. Pool!Give(x, k)
    BY <2>3 DEF Pool!Give, OwnedBlocks
  <2> HIDE DEF k
  <2>5. Pool!Next
    <3>1. \E p \in Pages, j \in Orders : Pool!Take(p, j) \/ Pool!Give(p, j)
      BY <2>2, <2>4 DEF Pool!Give
    <3> QED BY <3>1 DEF Pool!Next
  <2> QED BY <2>5
<1> QED BY <1>2, <1>3, <1>4 DEF Moves

\* So the allocator implements BlockPool as long as the callers take turns.
LEMMA PoolFollows == Spec /\ [][InTurn]_vars => Implements
<1>1. Init => Pool!Init
  BY DEF Init, Pool!Init
<1>2. IInv /\ [Next]_vars /\ [InTurn]_vars => [Pool!Next]_OwnedBlocks
  BY Steps, MovesImplement
<1> QED BY <1>1, <1>2, Invariance, PTL DEF Spec, Implements, Pool!Spec, OwnedBlocks

---------------------------------------------------------------------------
(* No free memory is wasted, and free_page_num counts it. *)

FreePages(V, a) == {x \in Pages \ V : AreaOf(x) = a}

\* free_page_num is late by the pages of a free that is still merging.
Counts == \A a \in Areas :
            /\ (\A c \in Cores : pc[c] = "coalesce" => AreaOf(call[c].buddy) # a) =>
                 free_page_num[a] = Cardinality(FreePages(valid, a))
            /\ \A c \in Cores : pc[c] = "coalesce" /\ AreaOf(call[c].buddy) = a =>
                 free_page_num[a] + call[c].pages = Cardinality(FreePages(valid, a))

\* x and y are the left and the right half of a block, and both are free.
Pair(o, F, x, y) == /\ x \in F /\ y \in F /\ o[x] \in 1 .. MaxOrder - 1 /\ o[y] = o[x]
                    /\ x % Size[o[x] + 1] = 0 /\ y = x + Size[o[x]]

\* Two free halves meet only at the block that a split or a merge works on.
Met == \A x, y : Pair(order, FreeBuddies, x, y) =>
         \E c \in Cores : pc[c] \in {"split", "coalesce"} /\ call[c].buddy \in {x, y}

\* A free buddy of order 0 with both pages free is one that is just split.
Lone == \A b \in FreeBuddies : order[b] = 0 /\ b \notin valid /\ b + 1 \notin valid =>
          \E c \in Cores : pc[c] = "split" /\ call[c].buddy = b

\* Where an allocation fails there is no block that is large enough.
Full == \A c \in Cores : pc[c] = "full" => \A b \in FreeBuddies : order[b] < call[c].order

Tight == Counts /\ Met /\ Lone /\ Full

\* The free pages of the areas when a block is taken, or given back.
LEMMA CountTaken ==
  ASSUME NEW V, NEW x \in Pages, NEW k \in Orders, x % Size[k] = 0,
         Block(x, k) \cap V = {}, NEW a \in Areas
  PROVE  /\ Cardinality(FreePages(V, a)) \in Nat
         /\ Cardinality(FreePages(V \cup Block(x, k), a)) =
              Cardinality(FreePages(V, a)) - (IF a = AreaOf(x) THEN Size[k] ELSE 0)
<1> DEFINE S == Block(x, k)
           W == FreePages(V, a)
<1>1. \A z \in S : z \in Pages /\ AreaOf(z) = AreaOf(x)
  BY BlockInArea
<1>2. Cardinality(S) = Size[k] /\ Cardinality({}) = 0
  <2>1. x \in Int /\ Size[k] \in Nat /\ Size[k] > 0
    BY PageFacts, SizeFacts DEF Orders
  <2> QED BY <2>1, FS_Interval, FS_EmptySet DEF Block
<1>3. IsFiniteSet(W) /\ Cardinality(W) \in Nat
  <2>1. IsFiniteSet(Pages)
    <3> DEFINE n == AreaCount * Size[MaxOrder + 1]
    <3>1. n \in Nat
      BY PageFacts
    <3> HIDE DEF n
    <3>2. IsFiniteSet(0 .. n - 1)
      BY <3>1, FS_Interval
    <3> QED BY <3>2 DEF Pages, n
  <2>2. W \in SUBSET Pages
    BY DEF FreePages
  <2> QED BY <2>1, <2>2, FS_Subset, FS_CardinalityType
<1>4. FreePages(V \cup S, a) = W \ S
  BY DEF FreePages
<1>5. W \cap S = IF a = AreaOf(x) THEN S ELSE {}
  BY <1>1 DEF FreePages
<1> HIDE DEF W, S
<1>6. Cardinality(W \ S) = Cardinality(W) - Cardinality(W \cap S)
  BY <1>3, FS_Difference
<1> QED BY <1>2, <1>3, <1>4, <1>5, <1>6 DEF W, S

LEMMA CountGiven ==
  ASSUME NEW V, NEW x \in Pages, NEW k \in Orders, x % Size[k] = 0,
         Block(x, k) \subseteq V, NEW a \in Areas
  PROVE  /\ Cardinality(FreePages(V, a)) \in Int
         /\ Cardinality(FreePages(V \ Block(x, k), a)) =
              Cardinality(FreePages(V, a)) + (IF a = AreaOf(x) THEN Size[k] ELSE 0)
<1> DEFINE W == V \ Block(x, k)
<1>1. Block(x, k) \cap W = {} /\ W \cup Block(x, k) = V
  OBVIOUS
<1> HIDE DEF W
<1>2. /\ Cardinality(FreePages(W, a)) \in Nat
      /\ Cardinality(FreePages(W \cup Block(x, k), a)) =
           Cardinality(FreePages(W, a)) - (IF a = AreaOf(x) THEN Size[k] ELSE 0)
  BY <1>1, CountTaken
<1>3. Size[k] \in Nat
  BY SizeFacts DEF Orders
<1>4. /\ Cardinality(FreePages(V, a)) \in Int
      /\ Cardinality(FreePages(W, a)) =
           Cardinality(FreePages(V, a)) + (IF a = AreaOf(x) THEN Size[k] ELSE 0)
  <2>1. PICK n \in Nat : n = Cardinality(FreePages(W, a))
    BY <1>2
  <2>2. Cardinality(FreePages(V, a)) = n - (IF a = AreaOf(x) THEN Size[k] ELSE 0)
    BY <1>1, <1>2, <2>1
  <2> QED BY <1>3, <2>1, <2>2
<1> QED BY <1>4 DEF W

\* Where a core works, no other one does.
LEMMA AloneInside ==
  ASSUME IInv, NEW c \in Cores, pc[c] # "idle"
  PROVE  \A d \in Cores : pc[d] # "idle" => d = c
BY OthersIdle

\* Nobody has split or merged anything, and nothing is changed.
LEMMA TightKept ==
  ASSUME IInv, Tight, UNCHANGED <<valid, free_page_num, order, lists>>,
         \A d \in Cores : pc[d] \notin {"split", "coalesce"} /\ pc'[d] # "coalesce", Full'
  PROVE  Tight'
<1>1. FreeBuddies' = FreeBuddies
  BY DEF FreeBuddies
<1>2. Met' /\ Lone'
  BY <1>1 DEF Tight, Met, Lone, Pair
<1>3. Counts'
  BY DEF Tight, Counts
<1> QED BY <1>2, <1>3 DEF Tight

\* The steps up to the first split.
LEMMA SearchTight ==
  ASSUME IInv, IInv', Tight, InTurn, NEW c \in Cores,
         \/ \E k \in Orders : AllocFull(c, k) \/ Alloc(c, k)
         \/ \E x \in Pages, k \in Orders : Reserve(c, x, k)
         \/ Ancestor(c)
  PROVE  Tight'
<1>1. CASE \E k \in Orders : AllocFull(c, k) \/ Alloc(c, k)
  <2>1. PICK k \in Orders : AllocFull(c, k) \/ Alloc(c, k)
    BY <1>1
  <2>2. \A d \in Cores : pc[d] = "idle"
    BY <2>1 DEF InTurn, Nobody
  <2>3. /\ UNCHANGED <<valid, free_page_num, order, lists>>
        /\ \A d \in Cores \ {c} : pc'[d] = "idle"
    BY <2>1, <2>2 DEF AllocFull, Alloc, Rest, Goto, IInv, Control, Types
  <2>4. pc'[c] # "coalesce" /\ (pc'[c] = "full" => AllocFull(c, k))
    BY <2>1 DEF AllocFull, Alloc, Goto, IInv, Control, Types
  <2>5. ASSUME AllocFull(c, k), NEW b \in FreeBuddies PROVE order[b] < k
    <3>1. ListsGood(lists) /\ b \in Buddies /\ order[b] \in Orders /\ AreaOf(b) \in Areas
          /\ b \in Range(lists.free[AreaOf(b)][order[b]])
      BY StateFacts, BuddyFacts DEF IInv, Sound, FreeBuddies, FreeIn
    <3>2. AreaOf(b) \in Range(lists.areas[order[b]]) /\ lists.areas[order[b]] \in Seq(Areas)
      BY <3>1 DEF ListsGood
    <3>3. lists.areas[order[b]] # <<>>
      BY <3>2, RangeFacts
    <3>4. OrdersAny(k) = {}
      BY <2>5 DEF AllocFull
    <3> QED BY <3>1, <3>3, <3>4 DEF OrdersAny, Orders
  <2>6. Full'
    <3> SUFFICES ASSUME NEW d \in Cores, pc'[d] = "full", NEW b \in FreeBuddies'
                 PROVE  order'[b] < call'[d].order
      BY DEF Full
    <3>1. d = c /\ AllocFull(c, k) /\ b \in FreeBuddies
      BY <2>3, <2>4 DEF FreeBuddies
    <3>2. call'[c].order = k
      BY <3>1 DEF AllocFull, IInv, Control, Types, Record
    <3> QED BY <2>3, <2>5, <3>1, <3>2
  <2> QED BY <2>2, <2>3, <2>4, <2>6, TightKept
<1>2. CASE \/ \E x \in Pages, k \in Orders : Reserve(c, x, k)
           \/ Ancestor(c)
  <2>1. /\ UNCHANGED <<valid, free_page_num, order, lists>>
        /\ \A d \in Cores : pc[d] \notin {"split", "coalesce", "full"}
    <3>1. CASE Ancestor(c)
      BY <3>1, AloneInside DEF Ancestor, Rest
    <3>2. CASE \E x \in Pages, k \in Orders : Reserve(c, x, k)
      BY <3>2 DEF Reserve, Rest, Nobody, AreFree
    <3> QED BY <1>2, <3>1, <3>2
  <2>2. \A d \in Cores : pc'[d] \notin {"coalesce", "full"}
    <3>1. \A d \in Cores \ {c} : pc'[d] = pc[d]
      BY <1>2 DEF Ancestor, Reserve, Goto, IInv, Control, Types
    <3>2. pc'[c] \in {"ancestor", "split", "panic"}
      BY <1>2 DEF Ancestor, Reserve, Goto, IInv, Control, Types
    <3> QED BY <2>1, <3>1, <3>2
  <2>3. Full'
    BY <2>2 DEF Full
  <2> QED BY <2>1, <2>2, <2>3, TightKept
<1> QED BY <1>1, <1>2

\* Two multiples of s are not nearer than s.
LEMMA NotNearer ==
  ASSUME NEW p \in Nat, NEW q \in Nat, NEW s \in Nat, p % s = 0, q % s = 0, p < q, q < p + s
  PROVE  FALSE
<1>1. s > 0
  OBVIOUS
<1>2. p + s <= q
  BY <1>1, NextMultiple
<1> QED BY <1>2

\* A turn of the split loops.
LEMMA SplitTight ==
  ASSUME IInv, Tight, NEW c \in Cores, Splits(c)
  PROVE  Tight'
<1> DEFINE b == call[c].buddy
           k == order[b]
           r == b + Size[k - 1]
<1>1. /\ pc[c] = "split" /\ b \in FreeBuddies /\ k > 0 /\ b \in Buddies /\ b \in Nat
      /\ k \in Orders /\ k \in Nat /\ UNCHANGED <<valid, free_page_num, pc>>
      /\ b % Size[k] = 0 /\ order'[b] = k - 1
  BY StateFacts, BuddyFacts DEF Splits
<1>2. \A d \in Cores : pc[d] # "idle" => d = c
  BY <1>1, AloneInside
<1>3. Counts'
  BY <1>1, <1>2 DEF Tight, Counts
<1>4. Full'
  BY <1>1, <1>2 DEF Full
<1>5. /\ \A x, y : Pair(order, FreeBuddies, x, y) => b \in {x, y}
      /\ \A d \in FreeBuddies : order[d] = 0 /\ d \notin valid /\ d + 1 \notin valid => d = b
  BY <1>2 DEF Tight, Met, Lone
<1>6. FreeBuddies \subseteq Buddies
  BY StateFacts
<1>7. CASE k = 1
  <2>1. /\ FreeBuddies' = FreeBuddies /\ call'[c].buddy = b
        /\ \A d \in Buddies \ {b} : order'[d] = order[d]
    BY <1>7 DEF Splits
  <2>2. Lone'
    BY <1>1, <1>5, <1>6, <2>1 DEF Lone
  <2>3. ASSUME NEW x, NEW y, Pair(order, FreeBuddies, x, y)' PROVE FALSE
    <3>1. x # b /\ y # b
      BY <1>1, <1>7, <2>3 DEF Pair
    <3>2. Pair(order, FreeBuddies, x, y)
      BY <1>6, <2>1, <2>3, <3>1 DEF Pair
    <3> QED BY <1>5, <3>1, <3>2
  <2>4. Met'
    BY <2>3 DEF Met, Pair
  <2> QED BY <1>3, <1>4, <2>2, <2>4 DEF Tight
<1>8. CASE k # 1
  <2>1. /\ r \in Buddies /\ FreeBuddies' = FreeBuddies \cup {r} /\ order'[r] = k - 1
        /\ call'[c].buddy \in {b, r} /\ \A d \in Buddies \ {b, r} : order'[d] = order[d]
    BY <1>1, <1>8 DEF Splits
  <2>2. /\ k - 1 \in Orders /\ k - 1 > 0 /\ Size[k] = 2 * Size[k - 1] /\ (k - 1) + 1 = k
        /\ Size[k - 1] \in Nat /\ Size[k - 1] > 0 /\ Size[k] \in Nat /\ r \in Nat
    <3>1. k - 1 \in Orders /\ Size[k] = 2 * Size[k - 1] /\ k - 1 > 0 /\ (k - 1) + 1 = k
      BY <1>1, <1>8, SizeFacts
    <3>2. Size[k - 1] \in Nat /\ Size[k - 1] > 0 /\ Size[k] \in Nat
      BY <1>1, <3>1, SizeFacts DEF Orders
    <3>3. r \in Nat
      BY <2>1, BuddyFacts
    <3> QED BY <3>1, <3>2, <3>3
  <2>3. Lone'
    BY <1>1, <1>5, <1>6, <2>1, <2>2 DEF Lone
  <2>4. ASSUME NEW x, NEW y, Pair(order', FreeBuddies', x, y) PROVE x = b /\ y = r
    <3>1. /\ x \in FreeBuddies \cup {r} /\ y \in FreeBuddies \cup {r} /\ order'[y] = order'[x]
          /\ x % Size[order'[x] + 1] = 0 /\ y = x + Size[order'[x]]
          /\ x \in Nat /\ y \in Nat /\ x \in Buddies /\ y \in Buddies
      BY <1>6, <2>1, <2>4, BuddyFacts DEF Pair
    <3>2. CASE x \notin {b, r} /\ y \notin {b, r}
      <4>1. Pair(order, FreeBuddies, x, y)
        BY <2>1, <2>4, <3>1, <3>2 DEF Pair
      <4> QED BY <1>5, <3>2, <4>1
    <3>3. CASE x \in {b, r} \/ y \in {b, r}
      <4>1. x % Size[k] = 0 /\ y = x + Size[k - 1]
        BY <1>1, <2>1, <2>2, <3>1, <3>3
      <4>2. x # r
        <5> SUFFICES ASSUME x = r PROVE FALSE
          OBVIOUS
        <5>1. b < x /\ x < b + Size[k]
          BY <1>1, <2>2
        <5> QED BY <1>1, <2>2, <3>1, <4>1, <5>1, NotNearer
      <4>3. y # b
        <5> SUFFICES ASSUME y = b PROVE FALSE
          OBVIOUS
        <5>1. x < b /\ b < x + Size[k]
          BY <1>1, <2>2, <3>1, <4>1
        <5> QED BY <1>1, <2>2, <3>1, <4>1, <5>1, NotNearer
      <4>4. x = b \/ y = r
        BY <3>3, <4>2, <4>3
      <4> QED
        <5>1. PICK h \in Nat : y = x + h /\ r = b + h
          BY <2>2, <4>1
        <5>2. x \in Nat /\ y \in Nat /\ r \in Nat /\ b \in Nat
          BY <1>1, <2>2, <3>1
        <5> QED BY ONLY <4>4, <5>1, <5>2
    <3> QED BY <3>2, <3>3
  <2>5. Met'
    BY <1>1, <2>1, <2>4 DEF Met
  <2> QED BY <1>3, <1>4, <2>3, <2>5 DEF Tight
<1> QED BY <1>7, <1>8

\* A block or a page is handed out.
LEMMA AssignTight ==
  ASSUME IInv, Tight, NEW c \in Cores, Assigns(c)
  PROVE  Tight'
<1> DEFINE b == call[c].buddy
           k == order[b]
<1>1. PICK x \in Pages :
        /\ pc[c] = "split" /\ BuddyOf(x) = b /\ x % Size[k] = 0 /\ Block(x, k) \cap valid = {}
        /\ valid' = valid \cup Block(x, k) /\ order' = order
        /\ FreeBuddies' \subseteq FreeBuddies /\ (k > 0 => b \notin FreeBuddies')
        /\ free_page_num' = [free_page_num EXCEPT ![AreaOf(x)] = @ - Size[k]]
        /\ Return(c)
  BY DEF Assigns
<1>2. \A d \in Cores : pc[d] # "idle" => d = c
  BY <1>1, AloneInside
<1>3. \A d \in Cores : pc'[d] = "idle"
  BY <1>1, <1>2 DEF Return, Goto, IInv, Control, Types
<1>4. b \in Buddies /\ k \in Orders /\ FreeBuddies \subseteq Buddies /\ x \in Nat /\ Size[k] \in Nat
  <2>1. b \in Buddies /\ FreeBuddies \subseteq Buddies /\ x \in Nat
    BY <1>1, StateFacts, BuddyFacts, PageFacts
  <2> QED BY <2>1, StateFacts, SizeFacts DEF Orders
<1>5. Counts'
  <2> SUFFICES ASSUME NEW a \in Areas
               PROVE  free_page_num'[a] = Cardinality(FreePages(valid', a))
    BY <1>3 DEF Counts
  <2>1. free_page_num[a] = Cardinality(FreePages(valid, a)) /\ free_page_num \in [Areas -> Int]
    BY <1>1, <1>2 DEF Tight, Counts, IInv, Control, Types
  <2>2. /\ Cardinality(FreePages(valid, a)) \in Nat
        /\ Cardinality(FreePages(valid \cup Block(x, k), a)) =
             Cardinality(FreePages(valid, a)) - (IF a = AreaOf(x) THEN Size[k] ELSE 0)
    BY <1>1, <1>4, CountTaken
  <2>3. free_page_num'[a] = free_page_num[a] - (IF a = AreaOf(x) THEN Size[k] ELSE 0)
    BY <1>1, <1>4, <2>1
  <2> QED BY <1>1, <2>1, <2>2, <2>3
<1>6. Met'
  <2> SUFFICES ASSUME NEW y, NEW z, Pair(order', FreeBuddies', y, z) PROVE FALSE
    BY DEF Met
  <2>1. Pair(order, FreeBuddies, y, z)
    BY <1>1 DEF Pair
  <2>2. b \in {y, z}
    BY <1>2, <2>1 DEF Tight, Met
  <2>3. k > 0
    BY <2>1, <2>2 DEF Pair
  <2> QED BY <1>1, <2>2, <2>3 DEF Pair
<1>7. Lone'
  <2> SUFFICES ASSUME NEW d \in FreeBuddies', order'[d] = 0, d \notin valid', d + 1 \notin valid'
               PROVE  FALSE
    BY DEF Lone
  <2>1. d \in FreeBuddies /\ order[d] = 0 /\ d \notin valid /\ d + 1 \notin valid
    BY <1>1
  <2>2. d = b
    BY <1>2, <2>1 DEF Tight, Lone
  <2>3. Block(x, 0) = {x}
    <3>1. Block(x, 0) = x .. x + 1 - 1
      BY SizeFacts DEF Block
    <3> QED BY <1>4, <3>1
  <2>4. x = b \/ x = b + 1
    BY <1>1, BuddyFacts
  <2> QED BY <1>1, <2>1, <2>2, <2>3, <2>4
<1>8. Full'
  BY <1>3 DEF Full
<1> QED BY <1>5, <1>6, <1>7, <1>8 DEF Tight

\* A turn of coalesce_buddies.
LEMMA MergeTight ==
  ASSUME IInv, Tight, NEW c \in Cores, Merges(c)
  PROVE  Tight'
<1> DEFINE b == call[c].buddy
           k == order[b]
<1>1. PICK p \in Buddies, q \in Buddies :
        /\ pc[c] = "coalesce" /\ b \in {p, q} /\ AreaOf(p) = AreaOf(b) /\ k > 0
        /\ FreeBuddies' = FreeBuddies \ {q} /\ order'[p] = k + 1
        /\ \A d \in Buddies \ {p} : order'[d] = order[d]
        /\ call' = [call EXCEPT ![c].buddy = p] /\ UNCHANGED <<valid, free_page_num, pc>>
  BY DEF Merges
<1>2. \A d \in Cores : pc[d] # "idle" => d = c
  BY <1>1, AloneInside
<1>3. FreeBuddies \subseteq Buddies /\ k \in Nat
  <2>1. k \in Orders
    BY <1>1, StateFacts
  <2> QED BY <2>1, StateFacts
<1>4. call'[c].buddy = p /\ call'[c].pages = call[c].pages
  BY <1>1 DEF IInv, Control, Types, Record
<1>5. Counts'
  <2> SUFFICES ASSUME NEW a \in Areas
               PROVE  /\ AreaOf(p) # a => free_page_num[a] = Cardinality(FreePages(valid, a))
                      /\ AreaOf(p) = a => free_page_num[a] + call[c].pages =
                                          Cardinality(FreePages(valid, a))
    BY <1>1, <1>2, <1>4 DEF Counts
  <2> QED BY <1>1, <1>2 DEF Tight, Counts
<1>6. Met'
  <2> SUFFICES ASSUME NEW x, NEW y, Pair(order', FreeBuddies', x, y) PROVE p \in {x, y}
    BY <1>1, <1>4 DEF Met
  <2>1. CASE x # p /\ y # p
    <3>1. Pair(order, FreeBuddies, x, y) /\ x # q /\ y # q
      BY <1>1, <1>3, <2>1 DEF Pair
    <3>2. b \in {x, y}
      BY <1>2, <3>1 DEF Tight, Met
    <3> QED BY <1>1, <2>1, <3>1, <3>2
  <2> QED BY <2>1
<1>7. Lone'
  <2> SUFFICES ASSUME NEW d \in FreeBuddies', order'[d] = 0, d \notin valid', d + 1 \notin valid'
               PROVE  FALSE
    BY DEF Lone
  <2>1. d # p
    BY <1>1, <1>3
  <2>2. d \in FreeBuddies /\ order[d] = 0 /\ d \notin valid /\ d + 1 \notin valid
    BY <1>1, <1>3, <2>1
  <2> QED BY <1>1, <1>2, <2>2 DEF Tight, Lone
<1>8. Full'
  BY <1>1, <1>2 DEF Full
<1> QED BY <1>5, <1>6, <1>7, <1>8 DEF Tight

\* The first part of kalloc_page_free_pages.
LEMMA FreeTight ==
  ASSUME IInv, Tight, NEW c \in Cores, Frees(c)
  PROVE  Tight'
<1>1. PICK x \in held :
        LET b == BuddyOf(x)
            k == order[b] IN
        /\ \A d \in Cores : pc[d] = "idle"
        /\ x % Size[k] = 0 /\ Block(x, k) \subseteq valid /\ valid' = valid \ Block(x, k)
        /\ FreeBuddies' = FreeBuddies \cup {b} /\ \A d \in Buddies \ {b} : order'[d] = order[d]
        /\ order'[b] = 0 => Other(x) \in valid'
        /\ call' = [call EXCEPT ![c].op = "free", ![c].buddy = b, ![c].pages = FreedPages(b)]
        /\ pc' = [pc EXCEPT ![c] = "coalesce"] /\ UNCHANGED free_page_num
  BY DEF Frees
<1> DEFINE b == BuddyOf(x)
           k == order[b]
<1>2. /\ x \in Pages /\ x \in Nat /\ b \in Buddies /\ k \in Orders /\ AreaOf(b) = AreaOf(x)
      /\ (x = b \/ x = b + 1) /\ Size[k] \in Nat /\ FreeBuddies \subseteq Buddies
      /\ b \in Nat /\ b % 2 = 0
  <2>1. x \in Pages /\ x \in Nat /\ b \in Buddies /\ k \in Orders /\ (x = b \/ x = b + 1)
    BY StateFacts, PageFacts, BuddyFacts
  <2>2. AreaOf(b) = AreaOf(x) /\ b \in Nat /\ b % 2 = 0
    BY <2>1, BuddyFacts
  <2> QED BY <2>1, <2>2, StateFacts, SizeFacts DEF Orders
<1>3. /\ pc'[c] = "coalesce" /\ \A d \in Cores \ {c} : pc'[d] = "idle"
      /\ call'[c].buddy = b /\ call'[c].pages = Size[k]
  BY <1>1 DEF IInv, Control, Types, Record, FreedPages
<1>4. Counts'
  <2> SUFFICES ASSUME NEW a \in Areas
               PROVE  /\ AreaOf(b) # a => free_page_num[a] = Cardinality(FreePages(valid', a))
                      /\ AreaOf(b) = a => free_page_num[a] + Size[k] =
                                          Cardinality(FreePages(valid', a))
    <3> HIDE DEF b, k
    <3>1. \A d \in Cores : pc'[d] = "coalesce" => d = c
      BY <1>3
    <3>2. free_page_num' = free_page_num
      BY <1>1
    <3> QED BY <1>3, <3>1, <3>2 DEF Counts
  <2>1. free_page_num[a] = Cardinality(FreePages(valid, a))
    BY <1>1 DEF Tight, Counts
  <2>2. /\ Cardinality(FreePages(valid, a)) \in Int
        /\ Cardinality(FreePages(valid \ Block(x, k), a)) =
             Cardinality(FreePages(valid, a)) + (IF a = AreaOf(x) THEN Size[k] ELSE 0)
    BY <1>1, <1>2, CountGiven
  <2> QED BY <1>1, <1>2, <2>1, <2>2
<1>5. Met'
  <2> SUFFICES ASSUME NEW y, NEW z, Pair(order', FreeBuddies', y, z) PROVE b \in {y, z}
    BY <1>3 DEF Met
  <2>1. CASE y # b /\ z # b
    <3>1. Pair(order, FreeBuddies, y, z)
      BY <1>1, <1>2, <2>1 DEF Pair
    <3> QED BY <1>1, <3>1 DEF Tight, Met
  <2> QED BY <2>1
<1>6. Lone'
  <2> SUFFICES ASSUME NEW d \in FreeBuddies', order'[d] = 0, d \notin valid', d + 1 \notin valid'
               PROVE  FALSE
    BY DEF Lone
  <2>1. CASE d = b
    <3>1. Other(x) \in valid'
      BY <1>1, <2>1
    <3>2. Other(x) = b \/ Other(x) = b + 1
      <4>1. CASE x = b
        BY <1>2, <4>1 DEF Other
      <4>2. CASE x = b + 1
        <5>1. x % 2 # 0
          BY <1>2, <4>2
        <5> QED BY <1>2, <4>2, <5>1 DEF Other
      <4> QED BY <1>2, <4>1, <4>2
    <3> QED BY <2>1, <3>1, <3>2
  <2>2. CASE d # b
    <3>1. d \in FreeBuddies /\ d \in Buddies /\ order[d] = 0
      BY <1>1, <1>2, <2>2
    <3>2. d \in valid \/ d + 1 \in valid
      BY <1>1, <3>1 DEF Tight, Lone
    <3>3. PICK z \in Block(x, k) : z \in {d, d + 1}
      BY <1>1, <3>2
    <3>4. BlocksGood(order, FreeBuddies, valid, held)
      BY DEF IInv, Sound, FreeBuddies
    <3>5. z \in Reach(order, b) /\ b \in HeadsOf(FreeBuddies, held)
      BY <3>3, <3>4, HeldFacts, HeadFacts
    <3>6. z \in Reach(order, d) /\ d \in HeadsOf(FreeBuddies, held)
      BY <3>1, <3>3, <3>4, ReachFacts, HeadFacts, StateFacts
    <3> QED BY <2>2, <3>4, <3>5, <3>6 DEF BlocksGood, Apart
  <2> QED BY <2>1, <2>2
<1>7. Full'
  BY <1>3 DEF Full
<1> QED BY <1>4, <1>5, <1>6, <1>7 DEF Tight
\* Two free halves are what the test of coalesce_buddies looks for, from either
\* of them.
LEMMA PairMergeable ==
  ASSUME IInv, NEW x, NEW y, Pair(order, FreeBuddies, x, y), NEW b \in {x, y}
  PROVE  Mergeable(b)
<1> DEFINE k == order[b]
<1>1. /\ x \in FreeBuddies /\ y \in FreeBuddies /\ order[x] = k /\ order[y] = k
      /\ k \in 1 .. MaxOrder - 1 /\ x % Size[k + 1] = 0 /\ y = x + Size[k]
      /\ x \in Buddies /\ y \in Buddies /\ b \in Buddies /\ b % Size[k] = 0
  BY StateFacts DEF Pair
<1>2. /\ k \in Orders /\ Size[k] \in Nat /\ Size[k] > 0 /\ Size[k + 1] \in Nat
      /\ Size[k + 1] = 2 * Size[k] /\ x \in Nat /\ y \in Nat
  <2>1. k \in Orders /\ k \in 0 .. MaxOrder + 1 /\ k + 1 \in 0 .. MaxOrder + 1
    BY <1>1, SizeFacts DEF Orders
  <2> QED BY <1>1, <2>1, SizeFacts, BuddyFacts
<1>3. /\ Sibling(b) \in Buddies /\ Parent(b) \in Buddies /\ Parent(b) % Size[k + 1] = 0
      /\ \/ Parent(b) = b /\ Sibling(b) = b + Size[k]
         \/ Parent(b) = Sibling(b) /\ b = Parent(b) + Size[k]
  BY <1>1, SiblingFacts
<1>4. PICK p \in Nat : p = Parent(b)
  BY <1>3, BuddyFacts
<1>5. PICK h \in Nat : h = Size[k] /\ h > 0
  BY <1>2
<1>6. PICK s \in Nat : s = Size[k + 1] /\ s = 2 * h
  BY <1>2, <1>5
<1>7. /\ p % s = 0 /\ x % s = 0 /\ y = x + h
      /\ (p = b /\ Sibling(b) = b + h) \/ (p = Sibling(b) /\ b = p + h)
  BY <1>1, <1>3, <1>4, <1>5, <1>6
<1>8. Sibling(b) \in {x, y}
  <2>1. CASE b = x /\ b = p + h
    <3>1. p < x /\ x < p + s
      BY <1>2, <1>5, <1>6, <2>1
    <3> QED BY <1>2, <1>7, <3>1, NotNearer
  <2>2. CASE b = y /\ p = b
    <3>1. x < p /\ p < x + s
      BY <1>2, <1>5, <1>6, <1>7, <2>2
    <3> QED BY <1>2, <1>7, <3>1, NotNearer
  <2>3. CASE b = x /\ Sibling(b) = b + h
    BY <1>7, <2>3
  <2>4. CASE b = y /\ p = Sibling(b) /\ b = p + h
    <3>1. p = x
      BY ONLY <1>2, <1>7, <2>4
    <3> QED BY <2>4, <3>1
  <2> QED BY <1>7, <2>1, <2>2, <2>3, <2>4
<1>9. IsFree(b) /\ IsFree(Sibling(b)) /\ order[Sibling(b)] = k
  BY <1>1, <1>8, StateFacts
<1> QED BY <1>1, <1>9 DEF Mergeable

\* Two free halves that the test of coalesce_buddies finds are a pair.
LEMMA MergeablePair ==
  ASSUME IInv, NEW b \in Buddies, Mergeable(b)
  PROVE  \E x, y : Pair(order, FreeBuddies, x, y)
<1> DEFINE k == order[b]
<1>1. /\ k \in 1 .. MaxOrder - 1 /\ order[Sibling(b)] = k /\ b \in FreeBuddies
      /\ b % Size[k] = 0
  BY StateFacts DEF Mergeable
<1>2. /\ Sibling(b) \in Buddies /\ Parent(b) % Size[k + 1] = 0
      /\ \/ Parent(b) = b /\ Sibling(b) = b + Size[k]
         \/ Parent(b) = Sibling(b) /\ b = Parent(b) + Size[k]
  BY <1>1, SiblingFacts
<1>3. Sibling(b) \in FreeBuddies
  BY <1>2, StateFacts DEF Mergeable
<1> QED BY <1>1, <1>2, <1>3 DEF Pair

\* The end of kalloc_page_free_pages: the count catches up.
LEMMA FreeDoneTight ==
  ASSUME IInv, Tight, NEW c \in Cores, FreeDone(c)
  PROVE  Tight'
<1> DEFINE b == call[c].buddy
<1>1. /\ pc[c] = "coalesce" /\ ~Mergeable(b)
      /\ free_page_num' = [free_page_num EXCEPT ![AreaOf(b)] = @ + call[c].pages]
      /\ UNCHANGED <<order, lists, valid>> /\ Return(c)
  BY DEF FreeDone
<1>2. \A d \in Cores : pc[d] # "idle" => d = c
  BY <1>1, AloneInside
<1>3. \A d \in Cores : pc'[d] = "idle"
  BY <1>1, <1>2 DEF Return, Goto, IInv, Control, Types
<1>4. FreeBuddies' = FreeBuddies
  BY <1>1 DEF FreeBuddies
<1>5. Counts'
  <2> SUFFICES ASSUME NEW a \in Areas
               PROVE  free_page_num'[a] = Cardinality(FreePages(valid, a))
    BY <1>1, <1>3 DEF Counts
  <2>1. /\ AreaOf(b) # a => free_page_num[a] = Cardinality(FreePages(valid, a))
        /\ AreaOf(b) = a => free_page_num[a] + call[c].pages = Cardinality(FreePages(valid, a))
        /\ free_page_num \in [Areas -> Int]
    BY <1>1, <1>2 DEF Tight, Counts, IInv, Control, Types
  <2> QED BY <1>1, <2>1
<1>6. Met'
  <2> SUFFICES ASSUME NEW x, NEW y, Pair(order, FreeBuddies, x, y) PROVE FALSE
    BY <1>1, <1>4 DEF Met, Pair
  <2>1. b \in {x, y}
    BY <1>2 DEF Tight, Met
  <2> QED BY <1>1, <2>1, PairMergeable
<1>7. Lone'
  BY <1>1, <1>2, <1>4 DEF Tight, Lone
<1>8. Full'
  BY <1>3 DEF Full
<1> QED BY <1>5, <1>6, <1>7, <1>8 DEF Tight

\* mm_area_init: all the memory is free, in blocks of the highest order.
LEMMA InitTight ==
  ASSUME Init
  PROVE  Tight
<1> DEFINE T == Size[MaxOrder + 1]
<1>1. /\ \A c \in Cores : pc[c] = "idle"
      /\ valid = {} /\ free_page_num = [a \in Areas |-> T]
      /\ \A b \in FreeBuddies : order[b] = MaxOrder
  BY InitLists DEF Init
<1>2. ASSUME NEW a \in Areas PROVE Cardinality(FreePages({}, a)) = T
  <2> DEFINE s == a * T
  <2>1. a \in Nat /\ s \in Nat /\ s + T <= AreaCount * T /\ AreaCount * T \in Nat
        /\ T \in Nat /\ T > 0
    BY PageFacts, SizeFacts, SizeAssumption
  <2> HIDE DEF T
  <2>2. ASSUME NEW x \in s .. s + T - 1 PROVE x \in Pages /\ AreaOf(x) = a
    <3> DEFINE e == AreaCount * T
    <3>1. x \in Nat /\ s <= x /\ x < s + T /\ s + T <= e /\ e \in Nat
      BY <2>1
    <3> HIDE DEF e
    <3>2. x \in 0 .. e - 1
      BY <2>1, <3>1
    <3>3. x \div T = a
      BY <2>1, <3>1, Within
    <3> QED BY <3>2, <3>3 DEF Pages, AreaOf, T, e
  <2>3. ASSUME NEW x \in Pages, AreaOf(x) = a PROVE x \in s .. s + T - 1
    <3>1. x \in Nat /\ x \div T = a
      BY <2>3, PageFacts DEF AreaOf, T
    <3>2. (x \div T) * T <= x /\ x < (x \div T) * T + T
      BY <2>1, <3>1, Quotient
    <3>3. s <= x /\ x < s + T
      BY <3>1, <3>2
    <3> HIDE DEF s
    <3> QED BY <2>1, <3>1, <3>3
  <2>4. FreePages({}, a) = s .. s + T - 1
    <3>1. FreePages({}, a) = {x \in Pages : AreaOf(x) = a}
      BY DEF FreePages
    <3> HIDE DEF s
    <3> QED BY <2>2, <2>3, <3>1
  <2> HIDE DEF s
  <2>5. Cardinality(s .. s + T - 1) = T
    <3>1. s \in Int /\ s + T - 1 \in Int /\ ~(s > s + T - 1) /\ (s + T - 1) - s + 1 = T
      BY <2>1
    <3> QED BY <3>1, FS_Interval
  <2> QED BY <2>4, <2>5
<1>3. Counts
  BY <1>1, <1>2 DEF Counts
<1>4. Met
  <2>1. MaxOrder \notin 1 .. MaxOrder - 1
    BY SizeFacts
  <2> QED BY <1>1, <2>1 DEF Met, Pair
<1>5. Lone
  <2>1. MaxOrder # 0
    BY SizeFacts
  <2> QED BY <1>1, <2>1 DEF Lone
<1>6. Full
  BY <1>1 DEF Full
<1> QED BY <1>3, <1>4, <1>5, <1>6 DEF Tight

\* Every step keeps the invariant.
LEMMA TightSteps ==
  ASSUME IInv, Tight, [Next]_vars, [InTurn]_vars
  PROVE  Tight'
<1>1. CASE UNCHANGED vars
  BY <1>1 DEF vars, Tight, Counts, Met, Lone, Full, Pair, FreeBuddies, FreePages
<1>2. CASE Next /\ InTurn
  <2>1. PICK c \in Cores :
          \/ Step(c)
          \/ \E k \in Orders : AllocFull(c, k) \/ Alloc(c, k)
          \/ \E x \in Pages, k \in Orders : Reserve(c, x, k)
          \/ \E x \in Pages : Free(c, x)
    BY <1>2 DEF Next
  <2>2. IInv'
    BY Steps
  <2>3. CASE Ancestor(c)
    BY <1>2, <2>2, <2>3, SearchTight
  <2>4. CASE Split(c)
    BY <2>4, SplitStep, SplitTight
  <2>5. CASE AssignPage(c) \/ AssignBlock(c)
    BY <2>5, AssignPageStep, AssignBlockStep, AssignTight
  <2>6. CASE Coalesce(c)
    BY <2>6, CoalesceStep, MergeTight
  <2>7. CASE FreeDone(c)
    BY <2>7, FreeDoneTight
  <2>8. CASE \/ \E k \in Orders : AllocFull(c, k) \/ Alloc(c, k)
             \/ \E x \in Pages, k \in Orders : Reserve(c, x, k)
    BY <1>2, <2>2, <2>8, SearchTight
  <2>9. CASE \E x \in Pages : Free(c, x)
    BY <1>2, <2>9, FreeStep, FreeTight DEF InTurn
  <2> QED BY <2>1, <2>3, <2>4, <2>5, <2>6, <2>7, <2>8, <2>9 DEF Step
<1> QED BY <1>1, <1>2

\* The stronger invariant holds as long as the callers take turns.
LEMMA TightInvariance == Spec /\ [][InTurn]_vars => [](IInv /\ Tight)
<1>1. (IInv /\ Tight) /\ [Next]_vars /\ [InTurn]_vars => (IInv /\ Tight)'
  BY Steps, TightSteps
<1>2. Init => IInv /\ Tight
  BY InitFacts, InitTight
<1> QED BY <1>1, <1>2, PTL DEF Spec

\* The counts.
LEMMA CountsFollow == IInv /\ Tight => Counted
BY DEF Tight, Counts, Counted, Nobody, FreePages
\* A multiple of a multiple.
LEMMA Multiples ==
  ASSUME NEW v \in Nat, NEW n \in Nat, NEW s \in Nat, n > 0, s > 0, v % n = 0, n % s = 0
  PROVE  v % s = 0 /\ (v + n) % s = 0
<1>1. PICK q \in Nat : v = q * n
  BY Divided
<1>2. PICK m \in Nat : n = m * s
  BY Divided
<1>3. v = (q * m) * s /\ v + n = (q * m + m) * s /\ q * m \in Nat
  BY <1>1, <1>2
<1>4. PICK w \in Nat : w = q * m
  BY <1>3
<1>5. (w * s) % s = 0 /\ ((w + m) * s) % s = 0
  BY Multiple
<1> QED BY <1>3, <1>4, <1>5

\* Of two aligned blocks with a page in common the smaller one lies in the other.
LEMMA Nests ==
  ASSUME NEW u \in Nat, NEW s \in Nat, NEW v \in Nat, NEW n \in Nat, s > 0, n > 0,
         u % s = 0, v % n = 0, n % s = 0,
         NEW x \in Nat, u <= x, x < u + s, v <= x, x < v + n
  PROVE  v <= u /\ u + s <= v + n
<1>1. v % s = 0 /\ (v + n) % s = 0
  BY Multiples
<1>2. v <= u
  <2> SUFFICES ASSUME u < v PROVE FALSE
    OBVIOUS
  <2>1. u + s <= v
    BY <1>1, NextMultiple
  <2> QED BY <2>1
<1>3. u + s <= v + n
  <2>1. PICK e \in Nat : e = v + n
    OBVIOUS
  <2>2. u < e /\ e % s = 0
    BY <1>1, <2>1
  <2>3. u + s <= e
    BY <2>2, NextMultiple
  <2> QED BY <2>1, <2>3
<1> QED BY <1>2, <1>3

\* A page that is not in use lies in a free block or in a free buddy.
LEMMA FreeCover ==
  ASSUME IInv, NEW x \in Pages, x \notin valid
  PROVE  \E h \in FreeBuddies : x \in Reach(order, h)
<1>1. BlocksGood(order, FreeBuddies, valid, held)
  BY DEF IInv, Sound, FreeBuddies
<1>2. PICK h \in HeadsOf(FreeBuddies, held) : x \in Reach(order, h)
  BY <1>1 DEF BlocksGood, Covered
<1>3. h \in Buddies /\ order \in [Buddies -> Orders] /\ order[h] \in Orders
  BY <1>1, <1>2, HeadFacts, StateFacts
<1> SUFFICES ASSUME h \notin FreeBuddies PROVE FALSE
  BY <1>2
<1>4. PICK y \in held : BuddyOf(y) = h
  BY <1>2 DEF HeadsOf
<1>5. CASE order[h] > 0
  BY <1>1, <1>2, <1>4, <1>5, HeldFacts
<1>6. CASE order[h] = 0
  <2>1. h \in valid /\ h + 1 \in valid
    BY <1>1, <1>4, <1>6 DEF BlocksGood, Owned
  <2>2. x = h \/ x = h + 1
    BY <1>2, <1>3, <1>6, ReachFacts
  <2> QED BY <2>1, <2>2
<1> QED BY <1>3, <1>5, <1>6 DEF Orders

\* The size of a block by its order, for Reach.
Pairs(k) == IF k = 0 THEN 1 ELSE k

\* The first page of a free block, and the pages it has.
LEMMA FreeReach ==
  ASSUME IInv, NEW d \in FreeBuddies
  PROVE  /\ d \in Buddies /\ d \in Nat /\ order[d] \in Orders /\ order[d] \in Nat
         /\ Pairs(order[d]) \in Orders
         /\ Size[Pairs(order[d])] \in Nat /\ Size[Pairs(order[d])] > 0
         /\ d % Size[Pairs(order[d])] = 0
         /\ \A x : x \in Reach(order, d) <=> x \in Nat /\ d <= x /\ x < d + Size[Pairs(order[d])]
<1> DEFINE j == Pairs(order[d])
<1>1. d \in Buddies /\ d \in Nat /\ d % 2 = 0 /\ order[d] \in Orders /\ order[d] \in Nat
  BY StateFacts, BuddyFacts
<1>2. j \in Orders
  BY <1>1, SizeFacts DEF Pairs
<1>3. Size[j] \in Nat /\ Size[j] > 0
  BY <1>2, SizeFacts DEF Orders
<1>4. d % Size[j] = 0
  <2>1. CASE order[d] = 0
    BY <1>1, <2>1, SizeFacts DEF Pairs
  <2>2. CASE order[d] # 0
    BY <2>2, StateFacts DEF Pairs
  <2> QED BY <2>1, <2>2
<1>5. Reach(order, d) = d .. d + Size[j] - 1
  BY DEF Reach, Pairs
<1> HIDE DEF j
<1>6. \A x : x \in d .. d + Size[j] - 1 <=> x \in Nat /\ d <= x /\ x < d + Size[j]
  BY <1>1, <1>3
<1> QED BY <1>1, <1>2, <1>3, <1>4, <1>5, <1>6 DEF j

\* Where no half lies free beside its free half, a run of free pages that is
\* aligned like a block lies in a free block of at least its order.
LEMMA RunInBlock ==
  ASSUME IInv, Tight, \A c \in Cores : pc[c] \notin {"split", "coalesce"},
         NEW k \in Orders, NEW p \in Pages, p % Size[k] = 0, Block(p, k) \cap valid = {}
  PROVE  \E b \in FreeBuddies : order[b] >= k
<1> SUFFICES ASSUME \A b \in FreeBuddies : order[b] < k PROVE FALSE
  <2>1. \A b \in FreeBuddies : order[b] \in Nat
    BY FreeReach
  <2>2. k \in Nat
    BY StateFacts
  <2> QED BY <2>1, <2>2
<1> DEFINE n == Size[k]
<1>1. /\ p \in Nat /\ k \in Nat /\ n \in Nat /\ n > 0 /\ p % n = 0
      /\ Block(p, k) = p .. p + n - 1
  BY PageFacts, StateFacts, SizeFacts DEF Orders, Block
<1> HIDE DEF n
<1>2. \A x \in p .. p + n - 1 : x \in Pages /\ x \notin valid
  BY <1>1, BlockInArea
<1>3. /\ \A x, y : ~Pair(order, FreeBuddies, x, y)
      /\ \A b \in FreeBuddies : ~(order[b] = 0 /\ b \notin valid /\ b + 1 \notin valid)
  BY DEF Tight, Met, Lone
<1>4. \A b, d \in FreeBuddies : \A x \in Reach(order, b) : x \in Reach(order, d) => b = d
  BY DEF IInv, Sound, BlocksGood, Apart, HeadsOf, FreeBuddies
\* The first page of the run is covered by a free buddy.
<1>5. p \in p .. p + n - 1
  BY <1>1
<1>6. PICK h \in FreeBuddies : p \in Reach(order, h)
  BY <1>2, <1>5, FreeCover
<1>7. k > 0
  <2>1. order[h] \in Nat /\ order[h] < k
    BY FreeReach
  <2> QED BY <1>1, <2>1
\* The sizes of the smaller blocks divide that of the run.
<1>8. ASSUME NEW j \in Orders, j <= k
      PROVE  Size[j] \in Nat /\ Size[j] > 0 /\ n % Size[j] = 0
  <2>1. k \in 0 .. MaxOrder + 1 /\ j \in 0 .. k
    BY <1>1, <1>8, SizeFacts DEF Orders
  <2>2. Size[k] % Size[j] = 0
    BY <2>1, DivisionAssumption
  <2> QED BY <1>8, <2>2, SizeFacts DEF n, Orders
<1>9. \A b \in FreeBuddies : Pairs(order[b]) \in Orders /\ Pairs(order[b]) <= k
  <2> SUFFICES ASSUME NEW b \in FreeBuddies PROVE Pairs(order[b]) \in Orders /\ Pairs(order[b]) <= k
    OBVIOUS
  <2>1. order[b] \in Nat /\ order[b] < k /\ Pairs(order[b]) \in Orders
    BY FreeReach
  <2> QED BY <1>1, <2>1 DEF Pairs
\* It is its first page.
<1>10. h = p
  <2> DEFINE s == Size[Pairs(order[h])]
  <2>1. h \in Nat /\ s \in Nat /\ s > 0 /\ h % s = 0 /\ h <= p /\ p < h + s
    BY <1>6, FreeReach
  <2>2. n % s = 0
    BY <1>8, <1>9
  <2> HIDE DEF s
  <2>3. p < p + n /\ p <= p
    BY <1>1
  <2>4. p <= h
    BY <1>1, <2>1, <2>2, <2>3, Nests
  <2> QED BY <1>1, <2>1, <2>4
\* Of the free buddies in the run, take one of the least order.
<1> DEFINE Inside == {b \in FreeBuddies : b \in p .. p + n - 1}
<1>11. PICK b \in Inside : \A d \in Inside : order[b] <= order[d]
  <2> DEFINE S == {order[b] : b \in Inside}
  <2>1. S \in SUBSET Nat
    BY FreeReach
  <2>2. S # {}
    BY <1>5, <1>10
  <2>3. PICK x \in S : \A y \in S : x <= y
    <3> HIDE DEF S
    <3> QED BY <2>1, <2>2, Least
  <2> QED BY <2>3
<1> DEFINE j == order[b]
<1>12. /\ b \in FreeBuddies /\ b \in Buddies /\ b \in Nat /\ p <= b /\ b < p + n
       /\ j \in Orders /\ j \in Nat /\ j < k /\ b % Size[Pairs(j)] = 0
  BY <1>1, <1>11, FreeReach
\* It is not one page of a buddy that is free.
<1>13. CASE j = 0
  <2>1. b % 2 = 0 /\ n % 2 = 0
    BY <1>7, <1>12, <1>13, SizeFacts DEF Pairs, n
  <2>2. /\ b \in Nat /\ 2 \in Nat /\ 2 > 0 /\ b <= b /\ b < b + 2 /\ p <= b /\ b < p + n
        /\ p \in Nat /\ n \in Nat /\ n > 0 /\ p % n = 0
    BY <1>1, <1>12
  <2>3. b + 2 <= p + n
    BY ONLY <2>1, <2>2, Nests
  <2>4. b \in p .. p + n - 1 /\ b + 1 \in p .. p + n - 1
    BY <1>1, <1>12, <2>3
  <2> QED BY <1>2, <1>3, <1>12, <1>13, <2>4
\* Nor is it a block whose other half is cut into smaller ones or in use.
<1>14. CASE j # 0
  <2> DEFINE q == Parent(b)
             t == Sibling(b)
             s == Size[j]
             w == Size[j + 1]
  <2>1. j \in 1 .. MaxOrder - 1 /\ b % s = 0 /\ j + 1 \in Orders /\ j + 1 <= k
    <3>1. MaxOrder \in Nat /\ k <= MaxOrder
      BY SizeFacts DEF Orders
    <3> QED BY <1>1, <1>12, <1>14, <3>1 DEF Pairs, Orders
  <2>2. /\ t \in Buddies /\ q \in Buddies /\ q % w = 0 /\ t \in Nat /\ q \in Nat
        /\ (q = b /\ t = b + s) \/ (q = t /\ b = q + s)
    <3>1. /\ t \in Buddies /\ q \in Buddies /\ q % w = 0
          /\ \/ q = b /\ t = b + s
             \/ q = t /\ b = q + s
      BY <1>12, <2>1, SiblingFacts
    <3> QED BY <3>1, BuddyFacts
  <2>3. s \in Nat /\ s > 0 /\ w \in Nat /\ w > 0 /\ w = 2 * s /\ n % s = 0 /\ n % w = 0
    <3>1. s \in Nat /\ s > 0 /\ n % s = 0
      <4>1. j <= k
        BY <1>1, <1>12
      <4> QED BY <1>8, <1>12, <4>1
    <3>2. w \in Nat /\ w > 0 /\ n % w = 0
      BY <1>8, <2>1
    <3>3. w = 2 * s
      BY <1>12, SizeFacts
    <3> QED BY <3>1, <3>2, <3>3
  <2> HIDE DEF q, t, s, w
  <2>4. q <= b /\ b < q + w /\ q <= t /\ t < q + w
    BY <1>12, <2>2, <2>3
  <2>5. p <= q /\ q + w <= p + n
    <3>1. /\ b \in Nat /\ p <= b /\ b < p + n /\ q <= b /\ b < q + w
          /\ p \in Nat /\ n \in Nat /\ n > 0 /\ p % n = 0 /\ n % w = 0
          /\ q \in Nat /\ w \in Nat /\ w > 0 /\ q % w = 0
      BY <1>1, <1>12, <2>2, <2>3, <2>4
    <3> QED BY ONLY <3>1, Nests
  <2>6. t \in p .. p + n - 1
    <3>1. p <= t /\ t < p + n
      <4>1. p \in Nat /\ n \in Nat /\ t \in Nat /\ q \in Nat /\ w \in Nat
        BY <1>1, <2>2, <2>3
      <4> QED BY ONLY <2>4, <2>5, <4>1
    <3> QED BY <1>1, <2>2, <3>1
  <2>7. PICK d \in FreeBuddies : t \in Reach(order, d)
    BY <1>2, <2>6, FreeCover
  <2> DEFINE m == order[d]
  <2>8. /\ d \in Nat /\ m \in Orders /\ m \in Nat /\ d <= t /\ t < d + Size[Pairs(m)]
        /\ Size[Pairs(m)] \in Nat /\ Size[Pairs(m)] > 0 /\ d % Size[Pairs(m)] = 0
    BY <2>7, FreeReach
  <2>9. d \in Inside
    <3>1. ASSUME d < p PROVE FALSE
      <4>1. p < d + Size[Pairs(m)] /\ d <= p
        BY <1>1, <2>4, <2>5, <2>8, <2>2, <3>1
      <4>2. p \in Reach(order, d)
        BY <1>1, <4>1, FreeReach
      <4>3. d = p
        BY <1>4, <1>6, <1>10, <4>2
      <4> QED BY <1>1, <3>1, <4>3
    <3>2. d <= p + n - 1
      BY <1>1, <2>2, <2>6, <2>8
    <3> QED BY <1>1, <2>8, <3>1, <3>2
  <2>10. j <= m /\ m < k
    BY <1>11, <2>9
  <2>11. Pairs(m) = m /\ m # 0
    BY <1>12, <1>14, <2>8, <2>10 DEF Pairs
  <2>12. CASE m = j
    <3>1. d <= t /\ t < d + s /\ d % s = 0
      BY <2>8, <2>11, <2>12 DEF s
    <3>2. t % s = 0
      <4>1. q % s = 0 /\ (q + s) % s = 0
        <5>1. q % (2 * s) = 0
          BY <2>2, <2>3
        <5> QED BY <2>2, <2>3, <5>1, Halves
      <4>2. t = q \/ t = q + s
        BY <2>2
      <4> QED BY <4>1, <4>2
    <3>3. t <= t /\ t < t + s /\ s % s = 0
      BY <2>2, <2>3
    <3>4. t + s <= d + s
      BY <2>2, <2>3, <2>8, <3>1, <3>2, <3>3, Nests
    <3>5. d = t
      BY <2>2, <2>3, <2>8, <3>1, <3>4
    <3>6. Pair(order, FreeBuddies, q, q + s)
      <4>1. order[b] = j /\ order[t] = j /\ t \in FreeBuddies
        BY <2>12, <3>5
      <4>2. /\ q \in {b, t} /\ q + s \in {b, t} /\ q % Size[j + 1] = 0
        BY <2>2 DEF w
      <4> QED BY <1>12, <2>1, <4>1, <4>2 DEF Pair, s
    <3> QED BY <1>3, <3>6
  <2>13. CASE m # j
    <3>1. j + 1 <= m
      BY <1>12, <2>8, <2>10, <2>13
    <3> DEFINE z == Size[m]
    <3>2. z \in Nat /\ z > 0 /\ d % z = 0 /\ d <= t /\ t < d + z
      BY <2>8, <2>11
    <3>3. z % w = 0
      <4>1. m \in 0 .. MaxOrder + 1 /\ j + 1 \in 0 .. m
        BY <1>12, <2>8, <3>1, SizeFacts DEF Orders
      <4> QED BY <4>1, DivisionAssumption DEF w
    <3> HIDE DEF z
    <3>4. d <= q /\ q + w <= d + z
      <4>1. /\ d \in Nat /\ t \in Nat /\ q \in Nat /\ w \in Nat /\ w > 0 /\ q % w = 0
            /\ q <= t /\ t < q + w
        BY <2>2, <2>3, <2>4, <2>8
      <4> QED BY ONLY <3>2, <3>3, <4>1, Nests
    <3>5. d <= b /\ b < d + z
      BY <1>12, <2>2, <2>3, <2>4, <2>8, <3>2, <3>4
    <3>6. b \in Reach(order, d)
      BY <1>12, <2>11, <3>5, FreeReach DEF z
    <3>7. b \in Reach(order, b)
      BY <1>12, StateFacts, ReachFacts
    <3>8. b = d
      BY <1>4, <1>12, <3>6, <3>7
    <3> QED BY <2>13, <3>8
  <2> QED BY <2>12, <2>13
<1> QED BY <1>13, <1>14

\* The lists are coalesced, and a search that fails is right.
LEMMA NoneFollow == IInv /\ Tight => NoneWasted
<1>1. IInv /\ Tight => Coalesced
  <2> SUFFICES ASSUME IInv, Tight, Nobody, NEW b \in Buddies, Mergeable(b) PROVE FALSE
    BY DEF Coalesced, Mergeable
  <2>1. \E x, y : Pair(order, FreeBuddies, x, y)
    BY MergeablePair
  <2> QED BY <2>1 DEF Tight, Met, Nobody
<1>2. IInv /\ Tight => FullMeansFull
  <2> SUFFICES ASSUME IInv, Tight, NEW c \in Cores, pc[c] = "full",
                      NEW p \in Pages, p % Size[call[c].order] = 0,
                      Block(p, call[c].order) \cap valid = {}
               PROVE  FALSE
    BY DEF FullMeansFull
  <2>1. \A d \in Cores : pc[d] \notin {"split", "coalesce"}
    BY AloneInside
  <2>2. call[c].order \in Orders
    BY DEF IInv, Control, Types, Record
  <2>3. PICK b \in FreeBuddies : order[b] >= call[c].order
    BY <2>1, <2>2, RunInBlock
  <2>4. order[b] < call[c].order /\ order[b] \in Nat /\ call[c].order \in Nat
    BY <2>2, FreeReach, StateFacts DEF Tight, Full
  <2> QED BY <2>3, <2>4
<1> QED BY <1>1, <1>2 DEF NoneWasted

---------------------------------------------------------------------------
(* The theorems: of callers that take turns, and of frees with the lock. *)

\* The allocator as it is, where kalloc_free takes no lock (kalloc.c:210): all of
\* the below is right as long as a call begins only when no core is in the
\* allocator, with reserves at boot only.  The missing lock is all that is wrong.
THEOREM RightInTurn ==
  Spec /\ [][InTurn]_vars =>
    /\ [](TypeOK /\ Partition /\ ListsInv /\ NoPanic /\ Counted /\ NoneWasted)
    /\ Implements
<1>1. IInv /\ Tight => TypeOK /\ Partition /\ ListsInv /\ NoPanic /\ Counted /\ NoneWasted
  BY TypesFollow, PartitionFollows, ListsFollow, PanicFollows, CountsFollow, NoneFollow
<1> QED BY <1>1, TightInvariance, PoolFollows, PTL

\* On one core they do.
LEMMA LoneInTurn ==
  ASSUME ~AnyReserve, \A c, d \in Cores : c = d
  PROVE  InTurn
BY DEF InTurn, Nobody, AllocFull, Alloc, Free, Reserve

\* On one core the allocator is right as it is, with and without the lock.
THEOREM RightOnOneCore ==
  ASSUME ~AnyReserve, \A c, d \in Cores : c = d
  PROVE  Spec => /\ [](TypeOK /\ Partition /\ ListsInv /\ NoPanic /\ Counted /\ NoneWasted)
                 /\ Implements
<1>1. [][InTurn]_vars
  BY LoneInTurn, PTL
<1> QED BY <1>1, RightInTurn, PTL

\* With frees that take the lock the callers take turns.
LEMMA LockedTurns == ASSUME FreeLocks, ~AnyReserve PROVE Spec => [][InTurn]_vars
<1>1. IInv => InTurn
  BY LockedInTurn
<1>2. IInv /\ [Next]_vars => IInv' /\ [InTurn]_vars
  BY <1>1, Steps
<1> QED BY <1>2, InitFacts, PTL DEF Spec

\* The type invariant.
THEOREM TypeCorrect == ASSUME FreeLocks, ~AnyReserve PROVE Spec => []TypeOK
<1> QED BY LockedTurns, RightInTurn, PTL

\* The blocks partition the memory and the pages in use are those of the owned
\* blocks, whatever the splits and merges of kalloc_page.c have done so far.
THEOREM PagesPartitioned == ASSUME FreeLocks, ~AnyReserve PROVE Spec => []Partition
<1> QED BY LockedTurns, RightInTurn, PTL

\* The free lists, the orders in the buddies, the page marks and the global
\* lists of areas agree (ll_push_list and ll_delete_node in kalloc_page.c).
THEOREM ListsSafe == ASSUME FreeLocks, ~AnyReserve PROVE Spec => []ListsInv
<1> QED BY LockedTurns, RightInTurn, PTL

\* No assertion of the allocator fails.
THEOREM PanicFree == ASSUME FreeLocks, ~AnyReserve PROVE Spec => []NoPanic
<1> QED BY LockedTurns, RightInTurn, PTL

\* The blocks that callers own are aligned, never overlap, and are given back as
\* they were taken (kalloc_page_alloc_pages and kalloc_page_free_pages).
THEOREM BuddyImplements == ASSUME FreeLocks, ~AnyReserve PROVE Spec => Implements
<1> QED BY LockedTurns, RightInTurn, PTL

\* free_page_num is the number of pages that are not in use, in every area and
\* whenever nobody is in the allocator (kalloc_page_alloc_pages,
\* kalloc_page_free_pages).
THEOREM PagesCounted == ASSUME FreeLocks, ~AnyReserve PROVE Spec => []Counted
<1> QED BY LockedTurns, RightInTurn, PTL

\* A search that fails is right: no run of free pages was large enough; and when
\* nobody is in the allocator no two free halves are left apart (find_free_buddy,
\* coalesce_buddies).
THEOREM NothingWasted == ASSUME FreeLocks, ~AnyReserve PROVE Spec => []NoneWasted
<1> QED BY LockedTurns, RightInTurn, PTL
============================================================================
