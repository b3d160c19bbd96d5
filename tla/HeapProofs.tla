----------------------------- MODULE HeapProofs -----------------------------
(***************************************************************************)
(* Proofs about Heap: when nothing calls kalloc_cache_remove_slab, as in   *)
(* the code, and also if callers did and it took the slab off its free     *)
(* list, no assert of the heap fails (HNoPanic), the lists, the counts and *)
(* the chains of free indexes are those of the objects in use (ListsRight, *)
(* ChainRight), and objects in use never overlap (HImplements).            *)
(***************************************************************************)
EXTENDS Heap, SharedLemmas, FiniteSetTheorems

---------------------------------------------------------------------------
(* The inductive invariant, as predicates of the slabs S, the caches C,    *)
(* the page links P, the blocks B and the addresses L of the objects that  *)
(* are in use or being freed.                                              *)

\* Of an entry: the objects of a slab with the one in reserve, the bytes before
\* the first, the order of the slab's block.
Num(e)   == InlineObjNum(Entries[e].size, Entries[e].pages)
Ahead(e) == StructSize(Num(e), Entries[e].size)
OrderOf(e) == MemOrder(Entries[e].pages)

\* The list a slab belongs on.
ListOf(s) == CASE s.num = s.max_num -> "full" [] s.num = 0 -> "free" [] OTHER -> "partial"

\* A slab of entry e that begins at b.
SlabOf(s, b, e) ==
  /\ s = [start |-> b, size |-> Entries[e].size, pages |-> Entries[e].pages,
          mem |-> b + Ahead(e), max_num |-> Num(e) - 1, num |-> s.num,
          free_index |-> s.free_index, free_indexs |-> s.free_indexs, on |-> s.on]
  /\ s.num \in 0 .. Num(e) - 1
  /\ s.free_indexs \in [0 .. Num(e) - 2 -> 0 .. Num(e) - 1]
  /\ s.on = ListOf(s)

\* The indexes of the objects of slab s that are in use.
UsedOf(s, L) == {i \in 0 .. s.max_num - 1 : ObjectAt(s, i) \in L}

\* ch is the chain of the free indexes of s, all but those in U.
IsChain(ch, s, U) ==
  /\ ch \in [0 .. s.max_num - s.num -> 0 .. s.max_num]
  /\ ch[0] = s.free_index
  /\ \A i \in 0 .. s.max_num - s.num - 1 : /\ ch[i] \in 0 .. s.max_num - 1
                                           /\ ch[i + 1] = s.free_indexs[ch[i]]
  /\ ch[s.max_num - s.num] = s.max_num
  /\ \A i, j \in 0 .. s.max_num - s.num : ch[i] = ch[j] => i = j
  /\ \A x \in 0 .. s.max_num : (x \in U) <=> ~ \E i \in 0 .. s.max_num - s.num : ch[i] = x

PagesOf(b, e) == PageOf(b) .. PageOf(b) + Entries[e].pages - 1

SlabRight(s, b, e, P, B, L) ==
  /\ b \in Nat /\ b % PageSize = 0
  /\ e \in CacheIds
  /\ SlabOf(s, b, e)
  /\ Cardinality(UsedOf(s, L)) = s.num
  /\ \E ch : IsChain(ch, s, UsedOf(s, L))
  /\ <<PageOf(b), OrderOf(e)>> \in B
  /\ \A p \in PagesOf(b, e) : P[p] = e

SlabsRight(S, P, B, L) == \A b \in DOMAIN S : SlabRight(S[b], b, P[PageOf(b)], P, B, L)

\* q lists the members of X, each once.
Lists(q, X) == /\ q \in Seq(X)
               /\ \A x \in X : \E k \in 1 .. Len(q) : q[k] = x
               /\ \A j, k \in 1 .. Len(q) : q[j] = q[k] => j = k

On(S, P, e, l) == {b \in DOMAIN S : P[PageOf(b)] = e /\ S[b].on = l}

CachesList(S, C, P) ==
  /\ C \in [CacheIds -> [num : Nat, max_num : Nat, lists : [ListNames -> Seq(Nat)]]]
  /\ \A e \in CacheIds, l \in ListNames : Lists(C[e].lists[l], On(S, P, e, l))

\* One element for each object of the slabs of entry e: of those in use, of all.
NumPlaces(S, P, e) == {x \in (DOMAIN S) \X Nat : P[PageOf(x[1])] = e /\ x[2] \in 1 .. S[x[1]].num}
MaxPlaces(S, P, e) == {x \in (DOMAIN S) \X Nat : P[PageOf(x[1])] = e /\ x[2] \in 1 .. S[x[1]].max_num}

CachesCount(S, C, P) ==
  \A e \in CacheIds :
    /\ IsFiniteSet(MaxPlaces(S, P, e))
    /\ C[e].num = Cardinality(NumPlaces(S, P, e))
    /\ C[e].max_num = Cardinality(MaxPlaces(S, P, e))

\* A page is linked only as one of a slab.
LinksRight(S, P) ==
  /\ P \in [Pages -> CacheIds \cup {None}]
  /\ \A p \in Pages : P[p] # None =>
       \E b \in DOMAIN S : P[PageOf(b)] \in CacheIds /\ p \in PagesOf(b, P[PageOf(b)])

BlocksRight(B) ==
  /\ B \subseteq Pages \X Orders
  /\ \A x \in B : Pool!Block(x[1], x[2]) \subseteq Pages
  /\ \A x, y \in B : x # y => Pool!Block(x[1], x[2]) \cap Pool!Block(y[1], y[2]) = {}

\* n bytes from address a are an object of a slab, or whole pages.
InObject(a, n, S) ==
  \E b \in DOMAIN S : \E i \in 0 .. S[b].max_num - 1 : a = ObjectAt(S[b], i) /\ n <= S[b].size
InPages(a, n, S, P, B) ==
  /\ a \in Nat /\ a % PageSize = 0 /\ a \notin DOMAIN S
  /\ P[PageOf(a)] = None
  /\ \E k \in Orders : <<PageOf(a), k>> \in B /\ n <= Size[k] * PageSize

\* R is a set of pairs <<address, length>>.
Addresses(R) == {r[1] : r \in R}

HeldRight(S, P, B, R) ==
  /\ \A r \in R : /\ r = <<r[1], r[2]>> /\ r[2] \in Nat
                  /\ InObject(r[1], r[2], S) \/ InPages(r[1], r[2], S, P, B)
  /\ \A r, q \in R : r[1] = q[1] => r = q

Good(S, C, P, B, R) ==
  /\ SlabsRight(S, P, B, Addresses(R))
  /\ CachesList(S, C, P)
  /\ CachesCount(S, C, P)
  /\ LinksRight(S, P)
  /\ BlocksRight(B)
  /\ HeldRight(S, P, B, R)

\* What callers hold, and of what is being freed the address.
BeingFreed(F) == {<<F[c].obj, 0>> : c \in {d \in Cores : F[d] # None}}
Held == regions \cup BeingFreed(freeing)

\* What the cores have read stays true, and nobody else holds the object.
FreeingRight(F, P, G) ==
  /\ F \in [Cores -> [obj : Int, cache : CacheIds \cup {None}] \cup {None}]
  /\ \A c \in Cores : F[c] # None =>
       /\ F[c].cache = P[PageOf(F[c].obj)]
       /\ \A r \in G : r[1] # F[c].obj
       /\ \A d \in Cores \ {c} : F[d] # None => F[d].obj # F[c].obj

HInv ==
  /\ Good(slabs, caches, page_obj, blocks, Held)
  /\ FreeingRight(freeing, page_obj, regions)
  /\ panic \in {"none", "memory"}
  /\ inited \in 0 .. Len(Entries)

---------------------------------------------------------------------------
(* Arithmetic of slabs. *)

\* ALIGN_UP goes up, by less than what it aligns to.
LEMMA AlignUpBounds ==
  ASSUME NEW n \in Nat, NEW a \in Nat \ {0}
  PROVE  AlignUp(n, a) \in Nat /\ n <= AlignUp(n, a) /\ AlignUp(n, a) < n + a
<1>1. n % a \in 0 .. a - 1
  OBVIOUS
<1> QED BY <1>1 DEF AlignUp

\* A set of numbers up to q has a greatest.
LEMMA Greatest ==
  ASSUME NEW q \in Nat, NEW F \in SUBSET (1 .. q), F # {}
  PROVE  Max(F) \in F
<1> DEFINE D == {q - x : x \in F}
<1>0. \A x \in F : x \in Nat /\ x <= q /\ q - x \in Nat
  OBVIOUS
<1>1. D \in SUBSET Nat /\ D # {}
  BY <1>0
<1>2. PICK d \in D : \A y \in D : d <= y
  BY <1>1, Least
<1>3. PICK x \in F : d = q - x
  BY <1>2
<1>4. ASSUME NEW y \in F PROVE x >= y
  <2>1. q - y \in D
    OBVIOUS
  <2>2. q - x <= q - y
    BY <1>2, <1>3, <2>1
  <2> QED BY <1>0, <2>2
<1> QED BY <1>3, <1>4 DEF Max

\* What the entries are, and what a slab of one has room for.
LEMMA EntryFacts ==
  ASSUME NEW e \in CacheIds
  PROVE  /\ Entries[e].size \in Nat \ {0} /\ Entries[e].pages \in Nat \ {0}
         /\ PageSize \in Nat \ {0} /\ StructBytes \in Nat \ {0} /\ IndexBytes \in Nat \ {0}
         /\ Num(e) \in Nat /\ Num(e) > 1
         /\ Ahead(e) \in Nat /\ Ahead(e) < PageSize
         /\ StructBytes + IndexBytes * (Num(e) - 1) <= Ahead(e)
         /\ Ahead(e) + Entries[e].size * Num(e) <= Entries[e].pages * PageSize
         /\ OrderOf(e) \in Orders /\ Entries[e].pages <= Size[OrderOf(e)]
         /\ Size[OrderOf(e)] \in Nat \ {0}
<1>1. /\ Entries[e].size \in Nat \ {0} /\ Entries[e].pages \in Nat \ {0}
      /\ PageSize \in Nat \ {0} /\ StructBytes \in Nat \ {0} /\ IndexBytes \in Nat \ {0}
  <2>1. Entries \in [1 .. Len(Entries) -> [size : Nat \ {0}, pages : Nat \ {0}]]
    BY EntriesAssumption, LenProperties
  <2>2. Entries[e] \in [size : Nat \ {0}, pages : Nat \ {0}]
    BY <2>1 DEF CacheIds
  <2> QED BY <2>2, SlabAssumption
<1>2. /\ Num(e) > 1 /\ Ahead(e) < PageSize
      /\ OrderOf(e) \in Orders /\ Entries[e].pages <= Size[OrderOf(e)]
      /\ Size[OrderOf(e)] \in Nat \ {0}
  BY FitAssumption DEF Num, Ahead, OrderOf
<1> DEFINE s == Entries[e].size
           w == Entries[e].pages * PageSize
           F == {n \in 1 .. w \div s : TotalSize(n, s) <= w}
<1>3. w \in Nat /\ w \div s \in Nat
  <2>1. w \in Nat
    BY <1>1
  <2> HIDE DEF w
  <2> QED BY <1>1, <2>1, Quotient
<1>4. F # {} /\ Num(e) = Max(F) - 1
  BY <1>2 DEF Num, InlineObjNum
<1>5. PICK m \in F : m = Max(F)
  <2> HIDE DEF w, s
  <2>1. F \in SUBSET (1 .. w \div s)
    OBVIOUS
  <2> HIDE DEF F
  <2> QED BY <1>3, <1>4, <2>1, Greatest
<1>6. m \in Nat /\ TotalSize(m, s) <= w /\ Num(e) = m - 1
  BY <1>3, <1>4, <1>5
<1>7. Num(e) \in Nat /\ m > 2
  BY <1>2, <1>6
<1>8. PICK f \in Nat : f = StructBytes + IndexBytes * (m - 1)
  BY <1>1, <1>6, <1>7
<1>9. PICK g \in Nat : g = StructBytes + IndexBytes * (Num(e) - 1)
  BY <1>1, <1>6, <1>7
<1>10. g <= f
  <2>1. IndexBytes * (m - 1) = IndexBytes * (m - 2) + IndexBytes
    BY <1>1, <1>6, <1>7
  <2> QED BY <1>1, <1>6, <1>7, <1>8, <1>9, <2>1
<1>11. AlignUp(g, s) \in Nat /\ g <= AlignUp(g, s) /\ AlignUp(g, s) < g + s
  BY <1>1, AlignUpBounds
<1>12. Ahead(e) = AlignUp(g, s)
  BY <1>9 DEF Ahead, StructSize, FreeListSize
<1>13. AlignUp(f, s) \in Nat /\ f <= AlignUp(f, s)
  BY <1>1, AlignUpBounds
<1>14. AlignUp(AlignUp(f, s), s) \in Nat /\ AlignUp(f, s) <= AlignUp(AlignUp(f, s), s)
  BY <1>1, <1>13, AlignUpBounds
<1>15. TotalSize(m, s) = AlignUp(AlignUp(f, s), s) + m * s
  BY <1>8 DEF TotalSize, StructSize, FreeListSize
<1>16. m * s = s * Num(e) + s /\ s * Num(e) \in Nat
  BY <1>1, <1>6, <1>7
<1>17. Ahead(e) + s * Num(e) <= w
  BY <1>1, <1>3, <1>6, <1>10, <1>11, <1>12, <1>13, <1>14, <1>15, <1>16
<1> QED BY <1>1, <1>2, <1>7, <1>9, <1>11, <1>12, <1>17

\* What the struct of a slab of entry e holds.
LEMMA SlabFacts ==
  ASSUME NEW e \in CacheIds, NEW s, NEW b \in Nat, SlabOf(s, b, e)
  PROVE  /\ s.start = b /\ s.size = Entries[e].size /\ s.pages = Entries[e].pages
         /\ s.mem = b + Ahead(e) /\ s.max_num = Num(e) - 1
         /\ s.size \in Nat \ {0} /\ s.pages \in Nat \ {0} /\ s.mem \in Nat
         /\ s.max_num \in Nat \ {0} /\ s.num \in 0 .. s.max_num
         /\ s.free_indexs \in [0 .. s.max_num - 1 -> 0 .. s.max_num]
         /\ s.on = ListOf(s) /\ s.on \in ListNames
<1>1. /\ s.start = b /\ s.size = Entries[e].size /\ s.pages = Entries[e].pages
      /\ s.mem = b + Ahead(e) /\ s.max_num = Num(e) - 1
  BY DEF SlabOf
<1>2. /\ s.num \in 0 .. Num(e) - 1 /\ s.on = ListOf(s)
      /\ s.free_indexs \in [0 .. Num(e) - 2 -> 0 .. Num(e) - 1]
  BY DEF SlabOf
<1>3. /\ Num(e) \in Nat /\ Num(e) > 1 /\ Ahead(e) \in Nat
      /\ Entries[e].size \in Nat \ {0} /\ Entries[e].pages \in Nat \ {0}
  BY EntryFacts
<1>4. s.max_num - 1 = Num(e) - 2
  BY <1>1, <1>3
<1>5. s.on \in ListNames
  BY <1>2 DEF ListOf, ListNames
<1> QED BY <1>1, <1>2, <1>3, <1>4, <1>5

\* Where the objects of a slab lie, the one in reserve included: behind the
\* struct and its array, inside the slab's pages.
LEMMA ObjectPlace ==
  ASSUME NEW e \in CacheIds, NEW s, NEW b \in Nat, SlabOf(s, b, e), NEW i \in 0 .. s.max_num
  PROVE  /\ ObjectAt(s, i) \in Nat
         /\ s.mem <= ObjectAt(s, i) /\ b + StructBytes + IndexBytes * s.max_num <= s.mem
         /\ ObjectAt(s, i) + s.size <= s.mem + s.size * (s.max_num + 1)
         /\ s.mem + s.size * (s.max_num + 1) <= b + Entries[e].pages * PageSize
<1>1. /\ s.size = Entries[e].size /\ s.mem = b + Ahead(e) /\ s.max_num = Num(e) - 1
      /\ s.size \in Nat \ {0} /\ s.mem \in Nat /\ s.max_num \in Nat
  BY SlabFacts
<1>2. /\ Num(e) \in Nat /\ Num(e) > 1 /\ Ahead(e) \in Nat
      /\ StructBytes \in Nat /\ IndexBytes \in Nat /\ PageSize \in Nat /\ Entries[e].pages \in Nat
      /\ StructBytes + IndexBytes * (Num(e) - 1) <= Ahead(e)
      /\ Ahead(e) + Entries[e].size * Num(e) <= Entries[e].pages * PageSize
  BY EntryFacts
<1>3. PICK k \in Nat : k = s.size * i
  BY <1>1
<1>4. s.size * (s.max_num + 1) = (k + s.size) + s.size * (s.max_num - i)
  <2>1. PICK z \in Nat : z = s.size
    BY <1>1
  <2>2. PICK m \in Nat : m = s.max_num
    BY <1>1
  <2>3. z * (m + 1) = z * i + z + z * (m - i)
    BY <2>2
  <2> QED BY <1>3, <2>1, <2>2, <2>3
<1>5. s.size * (s.max_num - i) \in Nat /\ IndexBytes * s.max_num \in Nat
  BY <1>1, <1>2
<1>6. s.size * (s.max_num + 1) = Entries[e].size * Num(e)
  BY <1>1, <1>2
<1>7. PICK v \in Nat : v = s.size * (s.max_num + 1)
  BY <1>1
<1>8. PICK w \in Nat : w = Entries[e].pages * PageSize
  BY <1>2
<1>9. ObjectAt(s, i) = s.mem + k
  BY <1>3 DEF ObjectAt
<1>10. b + StructBytes + IndexBytes * s.max_num <= s.mem
  BY <1>1, <1>2, <1>5
<1>11. k + s.size <= v /\ s.mem + v <= b + w
  BY <1>1, <1>2, <1>4, <1>5, <1>6, <1>7, <1>8
<1> QED BY <1>1, <1>7, <1>8, <1>9, <1>10, <1>11

\* The index of what lies in the i-th object is i.
LEMMA IndexPlace ==
  ASSUME NEW e \in CacheIds, NEW s, NEW b \in Nat, SlabOf(s, b, e), NEW i \in 0 .. s.max_num
  PROVE  IndexOf(s, ObjectAt(s, i)) = i
<1>1. s.size \in Nat \ {0} /\ s.mem \in Nat /\ s.max_num \in Nat
  BY SlabFacts
<1>2. PICK k \in Nat : k = i * s.size
  BY <1>1
<1>3. k \div s.size = i
  BY <1>1, <1>2, Multiple
<1>4. ObjectAt(s, i) - s.mem = k
  <2>1. s.size * i = k
    BY <1>1, <1>2
  <2> QED BY <1>1, <2>1 DEF ObjectAt
<1> QED BY <1>3, <1>4 DEF IndexOf

\* The page of an address in n pages from the aligned address b on.
LEMMA PageWithin ==
  ASSUME NEW b \in Nat, b % PageSize = 0, NEW n \in Nat, NEW a \in Int,
         b <= a, a < b + n * PageSize
  PROVE  PageOf(a) \in PageOf(b) .. PageOf(b) + n - 1
<1>1. PageSize \in Nat \ {0} /\ a \in Nat
  BY SlabAssumption
<1>2. PICK q \in Nat : b = q * PageSize /\ PageOf(b) = q
  BY <1>1, Divided DEF PageOf
<1>3. PICK p \in Nat : p = PageOf(a) /\ p * PageSize <= a /\ a < p * PageSize + PageSize
  BY <1>1, Quotient DEF PageOf
<1>4. a < (q + n) * PageSize
  BY <1>1, <1>2
<1>5. p < q + n
  <2>1. q + n \in Nat /\ PageSize > 0
    BY <1>1
  <2> QED BY <1>1, <1>3, <1>4, <2>1, Bounded DEF PageOf
<1>6. q <= p
  <2>1. SUFFICES ASSUME p < q PROVE FALSE
    OBVIOUS
  <2>2. (q - p) * PageSize >= PageSize
    BY <1>1, <2>1
  <2>3. q * PageSize = p * PageSize + (q - p) * PageSize
    BY <1>1, <2>1
  <2> QED BY <1>1, <1>2, <1>3, <2>2, <2>3
<1> QED BY <1>2, <1>3, <1>5, <1>6

\* An aligned address is that of its page.
LEMMA PageStart ==
  ASSUME NEW a \in Nat, a % PageSize = 0
  PROVE  PageOf(a) \in Nat /\ a = PageOf(a) * PageSize
BY SlabAssumption, Divided DEF PageOf

\* An object, the one in reserve included, lies on the pages of its slab, and
\* so do all its bytes.
LEMMA ObjectPages ==
  ASSUME NEW e \in CacheIds, NEW s, NEW b \in Nat, b % PageSize = 0, SlabOf(s, b, e),
         NEW a \in Int, s.mem <= a, a < s.mem + s.size * (s.max_num + 1)
  PROVE  PageOf(a) \in PagesOf(b, e)
<1>1. s.max_num \in Nat /\ Entries[e].pages \in Nat /\ s.mem \in Nat /\ s.size \in Nat
  BY SlabFacts
<1>2. /\ b <= s.mem /\ s.mem + s.size * (s.max_num + 1) <= b + Entries[e].pages * PageSize
  <2>1. s.mem = b + Ahead(e) /\ Ahead(e) \in Nat
    BY SlabFacts, EntryFacts
  <2>2. 0 \in 0 .. s.max_num
    BY <1>1
  <2>3. s.mem + s.size * (s.max_num + 1) <= b + Entries[e].pages * PageSize
    BY <2>2, ObjectPlace
  <2> QED BY <2>1, <2>3
<1>3. PICK w \in Nat : w = Entries[e].pages * PageSize
  BY <1>1, SlabAssumption
<1>4. PICK v \in Nat : v = s.size * (s.max_num + 1)
  BY <1>1
<1>5. b <= a /\ a < b + Entries[e].pages * PageSize
  BY <1>1, <1>2, <1>3, <1>4
<1> QED BY <1>1, <1>5, PageWithin DEF PagesOf

---------------------------------------------------------------------------
(* Pages and blocks. *)

\* None is not a cache.
LEMMA NoneIsNoCache == /\ None \notin CacheIds /\ CacheIds \subseteq Nat
                       /\ Len(Entries) \in Nat \ {0} /\ CacheIds = 1 .. Len(Entries)
<1>1. Entries \in Seq([size : Nat \ {0}, pages : Nat \ {0}]) /\ Entries # <<>> /\ None \notin Int
  BY EntriesAssumption
<1>2. Len(Entries) \in Nat /\ DOMAIN Entries = 1 .. Len(Entries) /\ Len(Entries) # 0
  BY <1>1, LenProperties, EmptySeq
<1> QED BY <1>1, <1>2 DEF CacheIds

\* The pages of a slab are pages of the block it was made of.
LEMMA PagesInBlock ==
  ASSUME NEW s, NEW b, NEW e, NEW P, NEW B, NEW L, SlabRight(s, b, e, P, B, L), BlocksRight(B)
  PROVE  /\ PagesOf(b, e) \subseteq Pool!Block(PageOf(b), OrderOf(e))
         /\ PagesOf(b, e) \subseteq Pages
         /\ PageOf(b) \in PagesOf(b, e)
         /\ PageOf(b) \in Nat /\ b = PageOf(b) * PageSize
<1>1. b \in Nat /\ b % PageSize = 0 /\ e \in CacheIds /\ <<PageOf(b), OrderOf(e)>> \in B
  BY DEF SlabRight
<1>2. PageOf(b) \in Nat /\ b = PageOf(b) * PageSize
  BY <1>1, PageStart
<1>3. /\ Entries[e].pages \in Nat \ {0} /\ Entries[e].pages <= Size[OrderOf(e)]
      /\ Size[OrderOf(e)] \in Nat
  BY <1>1, EntryFacts
<1>4. PagesOf(b, e) \subseteq Pool!Block(PageOf(b), OrderOf(e))
  BY <1>2, <1>3 DEF PagesOf, Pool!Block
<1>5. Pool!Block(PageOf(b), OrderOf(e)) \subseteq Pages
  BY <1>1 DEF BlocksRight
<1>6. PageOf(b) \in PagesOf(b, e)
  BY <1>2, <1>3 DEF PagesOf
<1> QED BY <1>2, <1>4, <1>5, <1>6

\* A page belongs to one slab,
LEMMA OneSlab ==
  ASSUME NEW S, NEW P, NEW B, NEW L, SlabsRight(S, P, B, L), BlocksRight(B),
         NEW b \in DOMAIN S, NEW c \in DOMAIN S, NEW p,
         p \in PagesOf(b, P[PageOf(b)]), p \in PagesOf(c, P[PageOf(c)])
  PROVE  b = c
<1> DEFINE e == P[PageOf(b)]
           f == P[PageOf(c)]
<1>1. SlabRight(S[b], b, e, P, B, L) /\ SlabRight(S[c], c, f, P, B, L)
  BY DEF SlabsRight
<1>2. <<PageOf(b), OrderOf(e)>> \in B /\ <<PageOf(c), OrderOf(f)>> \in B
  BY <1>1 DEF SlabRight
<1>3. p \in Pool!Block(PageOf(b), OrderOf(e)) /\ p \in Pool!Block(PageOf(c), OrderOf(f))
  BY <1>1, PagesInBlock
<1>4. <<PageOf(b), OrderOf(e)>> = <<PageOf(c), OrderOf(f)>>
  BY <1>2, <1>3, Zenon DEF BlocksRight
<1>5. b = PageOf(b) * PageSize /\ c = PageOf(c) * PageSize
  BY <1>1, PagesInBlock
<1> QED BY <1>4, <1>5

\* and is linked to the cache of that slab.
LEMMA PageOwner ==
  ASSUME NEW S, NEW P, NEW B, NEW L, SlabsRight(S, P, B, L), NEW b \in DOMAIN S,
         NEW p \in PagesOf(b, P[PageOf(b)])
  PROVE  P[p] = P[PageOf(b)] /\ P[p] \in CacheIds /\ P[p] # None
BY NoneIsNoCache DEF SlabsRight, SlabRight

\* What SlabRight says of the slab at b.
LEMMA SlabIs ==
  ASSUME NEW S, NEW P, NEW B, NEW L, SlabsRight(S, P, B, L), NEW b \in DOMAIN S
  PROVE  /\ b \in Nat /\ b % PageSize = 0 /\ P[PageOf(b)] \in CacheIds
         /\ SlabOf(S[b], b, P[PageOf(b)])
         /\ SlabRight(S[b], b, P[PageOf(b)], P, B, L)
BY DEF SlabsRight, SlabRight

\* An object, the one in reserve included, is one of one slab, by one index,
\* and its page is linked to the slab's cache.
LEMMA OneObject ==
  ASSUME NEW S, NEW P, NEW B, NEW L, SlabsRight(S, P, B, L), BlocksRight(B),
         NEW b \in DOMAIN S, NEW i \in 0 .. S[b].max_num
  PROVE  /\ PageOf(ObjectAt(S[b], i)) \in PagesOf(b, P[PageOf(b)])
         /\ P[PageOf(ObjectAt(S[b], i))] = P[PageOf(b)]
         /\ \A c \in DOMAIN S : \A j \in 0 .. S[c].max_num :
              ObjectAt(S[c], j) = ObjectAt(S[b], i) => c = b /\ j = i
<1>1. ASSUME NEW c \in DOMAIN S, NEW j \in 0 .. S[c].max_num
      PROVE  /\ PageOf(ObjectAt(S[c], j)) \in PagesOf(c, P[PageOf(c)])
             /\ IndexOf(S[c], ObjectAt(S[c], j)) = j
  <2>1. c \in Nat /\ c % PageSize = 0 /\ P[PageOf(c)] \in CacheIds /\ SlabOf(S[c], c, P[PageOf(c)])
    BY SlabIs
  <2>2. /\ ObjectAt(S[c], j) \in Int /\ S[c].mem <= ObjectAt(S[c], j)
        /\ ObjectAt(S[c], j) < S[c].mem + S[c].size * (S[c].max_num + 1)
    <3>1. /\ ObjectAt(S[c], j) \in Nat /\ S[c].mem <= ObjectAt(S[c], j)
          /\ ObjectAt(S[c], j) + S[c].size <= S[c].mem + S[c].size * (S[c].max_num + 1)
      BY <2>1, ObjectPlace
    <3>2. S[c].size \in Nat \ {0} /\ S[c].mem \in Nat /\ S[c].max_num \in Nat
      BY <2>1, SlabFacts
    <3>3. PICK v \in Nat : v = S[c].size * (S[c].max_num + 1)
      BY <3>2
    <3> QED BY <3>1, <3>2, <3>3
  <2> QED BY <2>1, <2>2, ObjectPages, IndexPlace
<1>2. ASSUME NEW c \in DOMAIN S, NEW j \in 0 .. S[c].max_num,
             ObjectAt(S[c], j) = ObjectAt(S[b], i)
      PROVE  c = b /\ j = i
  <2>1. c = b
    BY <1>1, <1>2, OneSlab
  <2> QED BY <1>1, <1>2, <2>1
<1>3. P[PageOf(ObjectAt(S[b], i))] = P[PageOf(b)]
  BY <1>1, PageOwner
<1> QED BY <1>1, <1>2, <1>3

\* Whole pages are none of a slab.
LEMMA PagesAreNoSlab ==
  ASSUME NEW S, NEW P, NEW B, NEW L, SlabsRight(S, P, B, L), NEW b \in DOMAIN S,
         NEW a, NEW n, InPages(a, n, S, P, B)
  PROVE  PageOf(a) \notin PagesOf(b, P[PageOf(b)])
BY PageOwner DEF InPages

---------------------------------------------------------------------------
(* Chains of free indexes. *)

\* A slab that is not full has a free index, which the asserts of
\* kalloc_slab_alloc accept.
LEMMA ChainHead ==
  ASSUME NEW e \in CacheIds, NEW s, NEW b \in Nat, SlabOf(s, b, e), NEW U, NEW ch,
         IsChain(ch, s, U), s.num # s.max_num
  PROVE  s.free_index \in 0 .. s.max_num - 1 /\ s.free_index \notin U /\ MayAlloc(s)
<1>1. /\ s.max_num \in Nat \ {0} /\ s.num \in 0 .. s.max_num
      /\ s.free_indexs \in [0 .. s.max_num - 1 -> 0 .. s.max_num]
  BY SlabFacts
<1>2. 0 \in 0 .. s.max_num - s.num - 1 /\ 0 \in 0 .. s.max_num - s.num
  BY <1>1
<1>3. ch[0] = s.free_index /\ ch[0] \in 0 .. s.max_num - 1
  BY <1>2 DEF IsChain
<1>4. s.free_index \notin U
  BY <1>1, <1>2, <1>3 DEF IsChain
<1>5. s.free_index \in DOMAIN s.free_indexs
  BY <1>1, <1>3
<1> QED BY <1>3, <1>4, <1>5 DEF MayAlloc

\* kalloc_slab_alloc takes the first index off the chain.
LEMMA ChainAlloc ==
  ASSUME NEW e \in CacheIds, NEW s, NEW b \in Nat, SlabOf(s, b, e), NEW U, NEW ch,
         IsChain(ch, s, U), s.num # s.max_num,
         NEW t, t.max_num = s.max_num, t.num = s.num + 1, t.free_indexs = s.free_indexs,
         t.free_index = s.free_indexs[s.free_index]
  PROVE  \E new : IsChain(new, t, U \cup {s.free_index})
<1> DEFINE left == s.max_num - s.num
           new  == [i \in 0 .. left - 1 |-> ch[i + 1]]
<1>1. /\ s.max_num \in Nat \ {0} /\ s.num \in 0 .. s.max_num /\ left \in Nat /\ left > 0
      /\ t.max_num - t.num = left - 1
  BY SlabFacts
<1>2. /\ ch \in [0 .. left -> 0 .. s.max_num]
      /\ ch[0] = s.free_index
      /\ \A i \in 0 .. left - 1 : ch[i] \in 0 .. s.max_num - 1 /\ ch[i + 1] = s.free_indexs[ch[i]]
      /\ ch[left] = s.max_num
      /\ \A i, j \in 0 .. left : ch[i] = ch[j] => i = j
      /\ \A x \in 0 .. s.max_num : (x \in U) <=> ~ \E i \in 0 .. left : ch[i] = x
  BY DEF IsChain
<1> HIDE DEF left
<1>3. \A i \in 0 .. left - 1 : i + 1 \in 0 .. left /\ new[i] = ch[i + 1]
  BY <1>1
<1>4. new \in [0 .. left - 1 -> 0 .. s.max_num]
  BY <1>2, <1>3
<1>5. new[0] = t.free_index
  <2>1. 0 \in 0 .. left - 1
    BY <1>1
  <2>2. new[0] = ch[0 + 1] /\ ch[0 + 1] = s.free_indexs[ch[0]]
    BY <1>2, <1>3, <2>1
  <2> QED BY <1>2, <2>2
<1>6. ASSUME NEW i \in 0 .. left - 1 - 1
      PROVE  new[i] \in 0 .. t.max_num - 1 /\ new[i + 1] = t.free_indexs[new[i]]
  <2>1. i \in 0 .. left - 1 /\ i + 1 \in 0 .. left - 1
    BY <1>1
  <2>2. new[i] = ch[i + 1] /\ new[i + 1] = ch[(i + 1) + 1]
    BY <1>3, <2>1
  <2>3. ch[i + 1] \in 0 .. s.max_num - 1 /\ ch[(i + 1) + 1] = s.free_indexs[ch[i + 1]]
    BY <1>2, <2>1
  <2> QED BY <2>2, <2>3
<1>7. new[left - 1] = t.max_num
  <2>1. left - 1 \in 0 .. left - 1 /\ (left - 1) + 1 = left
    BY <1>1
  <2> QED BY <1>2, <1>3, <2>1
<1>8. ASSUME NEW i \in 0 .. left - 1, NEW j \in 0 .. left - 1, new[i] = new[j]
      PROVE  i = j
  <2>1. i + 1 = j + 1
    BY <1>2, <1>3, <1>8
  <2> QED BY <2>1
<1>9. ASSUME NEW x \in 0 .. s.max_num
      PROVE  (x \in U \cup {s.free_index}) <=> ~ \E i \in 0 .. left - 1 : new[i] = x
  <2>1. ASSUME NEW i \in 0 .. left - 1, new[i] = x PROVE x \notin U \cup {s.free_index}
    <3>1. i + 1 \in 0 .. left /\ ch[i + 1] = x /\ i + 1 # 0 /\ 0 \in 0 .. left
      BY <1>1, <1>3, <2>1
    <3> QED BY <1>2, <3>1
  <2>2. ASSUME x \notin U \cup {s.free_index} PROVE \E i \in 0 .. left - 1 : new[i] = x
    <3>1. PICK k \in 0 .. left : ch[k] = x
      BY <1>2, <2>2
    <3>2. k # 0
      BY <1>2, <2>2, <3>1
    <3>3. k - 1 \in 0 .. left - 1 /\ (k - 1) + 1 = k
      BY <1>1, <3>2
    <3> QED BY <1>3, <3>1, <3>3
  <2> QED BY <2>1, <2>2
<1>10. IsChain(new, t, U \cup {s.free_index})
  BY <1>1, <1>4, <1>5, <1>6, <1>7, <1>8, <1>9 DEF IsChain
<1> QED BY <1>10

\* kalloc_slab_free puts an index in front of it.
LEMMA ChainFree ==
  ASSUME NEW e \in CacheIds, NEW s, NEW b \in Nat, SlabOf(s, b, e), NEW U, NEW ch,
         IsChain(ch, s, U), NEW x \in 0 .. s.max_num - 1, x \in U, s.num # 0,
         NEW t, t.max_num = s.max_num, t.num = s.num - 1, t.free_index = x,
         t.free_indexs = [s.free_indexs EXCEPT ![x] = s.free_index]
  PROVE  \E new : IsChain(new, t, U \ {x})
<1> DEFINE left == s.max_num - s.num
           new  == [i \in 0 .. left + 1 |-> IF i = 0 THEN x ELSE ch[i - 1]]
<1>1. /\ s.max_num \in Nat \ {0} /\ s.num \in 0 .. s.max_num /\ left \in Nat
      /\ t.max_num - t.num = left + 1
      /\ s.free_indexs \in [0 .. s.max_num - 1 -> 0 .. s.max_num]
  BY SlabFacts
<1>2. /\ ch \in [0 .. left -> 0 .. s.max_num]
      /\ ch[0] = s.free_index
      /\ \A i \in 0 .. left - 1 : ch[i] \in 0 .. s.max_num - 1 /\ ch[i + 1] = s.free_indexs[ch[i]]
      /\ ch[left] = s.max_num
      /\ \A i, j \in 0 .. left : ch[i] = ch[j] => i = j
      /\ \A y \in 0 .. s.max_num : (y \in U) <=> ~ \E i \in 0 .. left : ch[i] = y
  BY DEF IsChain
<1> HIDE DEF left
<1>3. new[0] = x /\ \A i \in 0 .. left : i + 1 \in 0 .. left + 1 /\ new[i + 1] = ch[i]
  <2>1. 0 \in 0 .. left + 1
    BY <1>1
  <2>2. \A i \in 0 .. left : i + 1 \in 0 .. left + 1 /\ i + 1 # 0 /\ (i + 1) - 1 = i
    BY <1>1
  <2> QED BY <2>1, <2>2
<1>4. \A k \in 0 .. left + 1 : k = 0 \/ (k - 1 \in 0 .. left /\ new[k] = ch[k - 1])
  BY <1>1
<1>5. \A i \in 0 .. left : ch[i] # x
  BY <1>2
<1>6. new \in [0 .. left + 1 -> 0 .. s.max_num]
  <2>1. \A k \in 0 .. left + 1 : new[k] \in 0 .. s.max_num
    <3> TAKE k \in 0 .. left + 1
    <3>1. x \in 0 .. s.max_num
      BY <1>1
    <3> QED BY <1>2, <1>3, <1>4, <3>1
  <2> QED BY <2>1
<1>7. ASSUME NEW i \in 0 .. left + 1 - 1
      PROVE  new[i] \in 0 .. t.max_num - 1 /\ new[i + 1] = t.free_indexs[new[i]]
  <2>1. CASE i = 0
    <3>1. 0 \in 0 .. left
      BY <1>1
    <3>2. new[0 + 1] = ch[0] /\ t.free_indexs[x] = s.free_index
      BY <1>1, <1>3, <3>1
    <3> QED BY <1>2, <1>3, <2>1, <3>2
  <2>2. CASE i # 0
    <3>1. i - 1 \in 0 .. left - 1 /\ i - 1 \in 0 .. left /\ i \in 0 .. left /\ (i - 1) + 1 = i
      BY <1>1, <2>2
    <3>2. new[i] = ch[i - 1] /\ new[i + 1] = ch[i]
      BY <1>3, <1>4, <2>2, <3>1
    <3>3. ch[i - 1] \in 0 .. s.max_num - 1 /\ ch[i] = s.free_indexs[ch[i - 1]] /\ ch[i - 1] # x
      BY <1>2, <1>5, <3>1
    <3>4. t.free_indexs[ch[i - 1]] = s.free_indexs[ch[i - 1]]
      BY <1>1, <3>3
    <3> QED BY <3>2, <3>3, <3>4
  <2> QED BY <2>1, <2>2
<1>8. new[left + 1] = t.max_num
  BY <1>1, <1>2, <1>3
<1>9. ASSUME NEW i \in 0 .. left + 1, NEW j \in 0 .. left + 1, new[i] = new[j]
      PROVE  i = j
  <2>1. CASE i = 0 \/ j = 0
    BY <1>3, <1>4, <1>5, <1>9, <2>1
  <2>2. CASE i # 0 /\ j # 0
    <3>1. i - 1 = j - 1
      BY <1>2, <1>4, <1>9, <2>2
    <3> QED BY <3>1
  <2> QED BY <2>1, <2>2
<1>10. ASSUME NEW y \in 0 .. s.max_num
       PROVE  (y \in U \ {x}) <=> ~ \E i \in 0 .. left + 1 : new[i] = y
  <2>1. ASSUME NEW i \in 0 .. left + 1, new[i] = y PROVE y \notin U \ {x}
    BY <1>2, <1>3, <1>4, <2>1
  <2>2. ASSUME y \notin U \ {x} PROVE \E i \in 0 .. left + 1 : new[i] = y
    <3>1. CASE y = x
      <4>1. 0 \in 0 .. left + 1
        BY <1>1
      <4> QED BY <1>3, <3>1, <4>1
    <3>2. CASE y # x
      <4>1. PICK k \in 0 .. left : ch[k] = y
        BY <1>2, <2>2, <3>2
      <4> QED BY <1>3, <4>1
    <3> QED BY <3>1, <3>2
  <2> QED BY <2>1, <2>2
<1>11. IsChain(new, t, U \ {x})
  <2> HIDE DEF new
  <2>1. /\ new \in [0 .. t.max_num - t.num -> 0 .. t.max_num] /\ new[0] = t.free_index
        /\ new[t.max_num - t.num] = t.max_num
    BY <1>1, <1>3, <1>6, <1>8
  <2>2. \A i \in 0 .. t.max_num - t.num - 1 : /\ new[i] \in 0 .. t.max_num - 1
                                             /\ new[i + 1] = t.free_indexs[new[i]]
    BY ONLY <1>1, <1>7
  <2>3. \A i, j \in 0 .. t.max_num - t.num : new[i] = new[j] => i = j
    BY ONLY <1>1, <1>9
  <2>4. \A y \in 0 .. t.max_num : (y \in U \ {x}) <=> ~ \E i \in 0 .. t.max_num - t.num : new[i] = y
    BY ONLY <1>1, <1>10, t.max_num = s.max_num
  <2> QED BY <2>1, <2>2, <2>3, <2>4 DEF IsChain
<1> QED BY <1>11

\* kalloc_slab_init links all indexes, in their order.
LEMMA ChainNew ==
  ASSUME NEW t, NEW m \in Nat, t.max_num = m, t.num = 0, t.free_index = 0,
         t.free_indexs = [i \in 0 .. m - 1 |-> i + 1]
  PROVE  \E new : IsChain(new, t, {})
<1> DEFINE new == [i \in 0 .. m |-> i]
<1>1. t.max_num - t.num = m
  OBVIOUS
<1>2. new \in [0 .. m -> 0 .. m] /\ new[0] = 0 /\ new[m] = m /\ \A i \in 0 .. m : new[i] = i
  OBVIOUS
<1>3. \A i \in 0 .. m - 1 : new[i] \in 0 .. m - 1 /\ new[i + 1] = t.free_indexs[new[i]]
  <2> TAKE i \in 0 .. m - 1
  <2>1. i \in 0 .. m /\ i + 1 \in 0 .. m
    OBVIOUS
  <2>2. t.free_indexs[i] = i + 1
    OBVIOUS
  <2> QED BY <1>2, <2>1, <2>2
<1>4. \A i, j \in 0 .. m : new[i] = new[j] => i = j
  BY <1>2
<1>5. \A x \in 0 .. m : (x \in {}) <=> ~ \E i \in 0 .. m : new[i] = x
  BY <1>2
<1>6. IsChain(new, t, {})
  BY <1>1, <1>2, <1>3, <1>4, <1>5 DEF IsChain
<1> QED BY <1>6

---------------------------------------------------------------------------
(* Lists of slabs. *)

\* A list that lists X has the members of X, and its head is one.
LEMMA ListFacts ==
  ASSUME NEW X, NEW q, Lists(q, X)
  PROVE  /\ Range(q) = X /\ IsInjective(q)
         /\ (q = <<>>) <=> (X = {})
         /\ X # {} => Head(q) \in X
<1>1. /\ q \in Seq(X) /\ \A x \in X : \E k \in 1 .. Len(q) : q[k] = x
      /\ \A j, k \in 1 .. Len(q) : q[j] = q[k] => j = k
  BY DEF Lists
<1>2. Len(q) \in Nat /\ DOMAIN q = 1 .. Len(q) /\ \A k \in 1 .. Len(q) : q[k] \in X
  BY <1>1, LenProperties, ElementOfSeq
<1>3. Range(q) = X
  BY <1>1, <1>2 DEF Range
<1>4. IsInjective(q)
  BY <1>1, <1>2 DEF IsInjective
<1>5. (q = <<>>) <=> (X = {})
  <2>1. ASSUME q = <<>> PROVE X = {}
    <3>1. Len(q) = 0
      BY <1>1, <2>1, EmptySeq
    <3> QED BY <1>1, <3>1
  <2>2. ASSUME q # <<>> PROVE X # {}
    <3>1. Len(q) # 0
      BY <1>1, <2>2, EmptySeq
    <3>2. 1 \in 1 .. Len(q)
      BY <1>2, <3>1
    <3> QED BY <1>2, <3>2
  <2> QED BY <2>1, <2>2
<1>6. X # {} => Head(q) \in X
  BY <1>1, <1>5, HeadTailProperties
<1> QED BY <1>3, <1>4, <1>5, <1>6

\* ll_delete_node of a node that is listed leaves the others,
LEMMA WithoutFacts ==
  ASSUME NEW X, NEW q, Lists(q, X), NEW b \in X
  PROVE  Lists(Without(q, b), X \ {b})
<1>1. /\ q \in Seq(X) /\ \A x \in X : \E k \in 1 .. Len(q) : q[k] = x
      /\ \A j, k \in 1 .. Len(q) : q[j] = q[k] => j = k
  BY DEF Lists
<1>2. Len(q) \in Nat /\ DOMAIN q = 1 .. Len(q) /\ Range(q) = X
  BY <1>1, LenProperties, ListFacts
<1> DEFINE k == CHOOSE n \in DOMAIN q : q[n] = b
           r == RemoveAt(q, k)
<1>3. k \in 1 .. Len(q) /\ q[k] = b
  BY <1>1, <1>2
<1>4. Without(q, b) = r
  BY <1>2 DEF Without
<1> HIDE DEF k
<1>5. /\ r \in Seq(X) /\ Len(r) = Len(q) - 1
      /\ \A j \in 1 .. Len(q) - 1 : r[j] = IF j < k THEN q[j] ELSE q[j + 1]
  BY <1>1, <1>3, RemoveAtFacts
<1> HIDE DEF r
<1>6. Len(r) \in Nat /\ DOMAIN r = 1 .. Len(r)
  BY <1>5, LenProperties
<1> DEFINE old(j) == IF j < k THEN j ELSE j + 1
<1>7. ASSUME NEW j \in 1 .. Len(r)
      PROVE  old(j) \in 1 .. Len(q) /\ old(j) # k /\ r[j] = q[old(j)]
  BY <1>2, <1>3, <1>5
<1>8. ASSUME NEW j \in 1 .. Len(r) PROVE r[j] \in X \ {b}
  <2>1. q[old(j)] \in X
    BY <1>1, <1>7, ElementOfSeq
  <2>2. q[old(j)] # b
    BY <1>1, <1>3, <1>7
  <2> QED BY <1>7, <2>1, <2>2
<1>9. r \in Seq(X \ {b})
  <2>1. r \in [1 .. Len(r) -> X \ {b}]
    BY <1>5, <1>6, <1>8
  <2> QED BY <1>6, <2>1
<1>10. ASSUME NEW x \in X \ {b} PROVE \E j \in 1 .. Len(r) : r[j] = x
  <2>1. PICK n \in 1 .. Len(q) : q[n] = x
    BY <1>1
  <2>2. n # k
    BY <1>3, <2>1
  <2>3. CASE n < k
    <3>1. n \in 1 .. Len(r) /\ r[n] = q[n]
      BY <1>2, <1>3, <1>5, <2>3
    <3> QED BY <2>1, <3>1
  <2>4. CASE n > k
    <3>1. n - 1 \in 1 .. Len(q) - 1 /\ ~ (n - 1 < k) /\ (n - 1) + 1 = n
      BY <1>2, <1>3, <2>4
    <3>2. r[n - 1] = q[n]
      BY <1>5, <3>1
    <3> QED BY <1>5, <2>1, <3>1, <3>2
  <2> QED BY <1>2, <1>3, <2>2, <2>3, <2>4
<1>11. ASSUME NEW i \in 1 .. Len(r), NEW j \in 1 .. Len(r), r[i] = r[j] PROVE i = j
  <2>1. PICK m \in 1 .. Len(q) : m = old(i) /\ r[i] = q[m]
    BY <1>7
  <2>2. PICK n \in 1 .. Len(q) : n = old(j) /\ r[j] = q[n]
    BY <1>7
  <2>3. m = n
    BY ONLY <1>1, <1>11, <2>1, <2>2
  <2> QED BY <1>3, <1>6, <2>1, <2>2, <2>3
<1> QED BY <1>4, <1>9, <1>10, <1>11 DEF Lists

\* and of one that is not changes nothing.
LEMMA WithoutNone ==
  ASSUME NEW X, NEW q, Lists(q, X), NEW b, b \notin X
  PROVE  Without(q, b) = q
BY ListFacts DEF Without

\* ll_queue_list of a node that is not listed yet.
LEMMA AppendFacts ==
  ASSUME NEW X, NEW q, Lists(q, X), NEW b, b \notin X
  PROVE  Lists(Append(q, b), X \cup {b})
<1> DEFINE Y == X \cup {b}
           r == Append(q, b)
<1>1. /\ q \in Seq(X) /\ \A x \in X : \E k \in 1 .. Len(q) : q[k] = x
      /\ \A j, k \in 1 .. Len(q) : q[j] = q[k] => j = k
  BY DEF Lists
<1>2. Len(q) \in Nat /\ \A k \in 1 .. Len(q) : q[k] \in X
  BY <1>1, LenProperties, ElementOfSeq
<1>3. q \in Seq(Y) /\ b \in Y
  BY <1>1
<1> HIDE DEF Y
<1>4. /\ r \in Seq(Y) /\ Len(r) = Len(q) + 1
      /\ \A k \in 1 .. Len(q) : r[k] = q[k]
      /\ r[Len(q) + 1] = b
  BY <1>3, AppendProperties
<1> HIDE DEF r
<1>5. ASSUME NEW x \in Y PROVE \E k \in 1 .. Len(r) : r[k] = x
  <2>1. CASE x = b
    <3>1. Len(q) + 1 \in 1 .. Len(r)
      BY <1>2, <1>4
    <3> QED BY <1>4, <2>1, <3>1
  <2>2. CASE x # b
    <3>1. x \in X
      BY <2>2 DEF Y
    <3>2. PICK k \in 1 .. Len(q) : q[k] = x
      BY <1>1, <3>1
    <3>3. k \in 1 .. Len(r) /\ r[k] = x
      BY <1>2, <1>4, <3>2
    <3> QED BY <3>3
  <2> QED BY <2>1, <2>2
<1>6. ASSUME NEW j \in 1 .. Len(r), NEW k \in 1 .. Len(r), r[j] = r[k] PROVE j = k
  <2>1. \A i \in 1 .. Len(r) : i \in 1 .. Len(q) \/ i = Len(q) + 1
    BY <1>2, <1>4
  <2>2. CASE j \in 1 .. Len(q) /\ k \in 1 .. Len(q)
    BY <1>1, <1>4, <1>6, <2>2
  <2>3. CASE j = Len(q) + 1 \/ k = Len(q) + 1
    BY <1>2, <1>4, <1>6, <2>1, <2>3
  <2> QED BY <2>1, <2>2, <2>3
<1> QED BY <1>4, <1>5, <1>6 DEF Lists, Y, r

---------------------------------------------------------------------------
(* Counts. *)

\* n places of one slab are n.
LEMMA PlacesOfOne ==
  ASSUME NEW b, NEW m \in Nat
  PROVE  IsFiniteSet({b} \X (1 .. m)) /\ Cardinality({b} \X (1 .. m)) = m
<1> DEFINE T == {b} \X (1 .. m)
           f == [i \in 1 .. m |-> <<b, i>>]
<1>1. f \in [1 .. m -> T]
  OBVIOUS
<1>2. \A i, j \in 1 .. m : f[i] = f[j] => i = j
  OBVIOUS
<1>3. \A t \in T : \E i \in 1 .. m : f[i] = t
  OBVIOUS
<1>4. f \in Bijection(1 .. m, T)
  BY <1>1, <1>2, <1>3 DEF Bijection, Injection, Surjection, IsInjective
<1>5. ExistsBijection(1 .. m, T)
  BY <1>4 DEF ExistsBijection
<1>6. IsFiniteSet(1 .. m)
  BY FS_Interval
<1> QED BY <1>5, <1>6, FS_CountingElements, FS_Bijection

\* Slab b has one object more in use in T, no other slab has.
OneUp(S, T, b) ==
  /\ b \in DOMAIN S /\ DOMAIN T = DOMAIN S
  /\ \A x \in DOMAIN S : S[x].num \in Nat /\ (x # b => T[x].num = S[x].num)
  /\ T[b].num = S[b].num + 1

\* Place x of entry e is one more.
PlaceUp(S, T, P, e, x) == /\ x \notin NumPlaces(S, P, e)
                          /\ NumPlaces(T, P, e) = NumPlaces(S, P, e) \cup {x}
                          /\ \A f : f # e => NumPlaces(T, P, f) = NumPlaces(S, P, f)

\* The one follows from the other.
LEMMA OneMore ==
  ASSUME NEW S, NEW T, NEW P, NEW b, OneUp(S, T, b)
  PROVE  PlaceUp(S, T, P, P[PageOf(b)], <<b, T[b].num>>)
<1>0. /\ b \in DOMAIN S /\ DOMAIN T = DOMAIN S
      /\ \A x \in DOMAIN S : S[x].num \in Nat /\ (x # b => T[x].num = S[x].num)
      /\ T[b].num = S[b].num + 1
  BY DEF OneUp
<1>1. \A x \in DOMAIN S, n \in Nat :
        n \in 1 .. T[x].num <=> n \in 1 .. S[x].num \/ (x = b /\ n = T[b].num)
  BY <1>0
<1>2. T[b].num \in Nat /\ T[b].num \notin 1 .. S[b].num
  BY <1>0
<1>3. <<b, T[b].num>> \notin NumPlaces(S, P, P[PageOf(b)])
  BY <1>0, <1>2 DEF NumPlaces
<1>4. ASSUME NEW f, NEW x \in (DOMAIN S) \X Nat
      PROVE  x \in NumPlaces(T, P, f) <=>
               x \in NumPlaces(S, P, f) \/ (f = P[PageOf(b)] /\ x = <<b, T[b].num>>)
  <2>1. x = <<x[1], x[2]>> /\ x[1] \in DOMAIN S /\ x[2] \in Nat
    OBVIOUS
  <2>2. x[2] \in 1 .. T[x[1]].num <=> x[2] \in 1 .. S[x[1]].num \/ (x[1] = b /\ x[2] = T[b].num)
    BY <1>1, <2>1
  <2> QED BY <1>0, <2>1, <2>2 DEF NumPlaces
<1>5. \A f : /\ NumPlaces(T, P, f) \subseteq (DOMAIN S) \X Nat
             /\ NumPlaces(S, P, f) \subseteq (DOMAIN S) \X Nat
  BY <1>0 DEF NumPlaces
<1>6. <<b, T[b].num>> \in (DOMAIN S) \X Nat
  BY <1>0, <1>2
<1>7. NumPlaces(T, P, P[PageOf(b)]) = NumPlaces(S, P, P[PageOf(b)]) \cup {<<b, T[b].num>>}
  BY <1>4, <1>5, <1>6
<1>8. ASSUME NEW f, f # P[PageOf(b)] PROVE NumPlaces(T, P, f) = NumPlaces(S, P, f)
  <2>1. \A x \in (DOMAIN S) \X Nat : x \in NumPlaces(T, P, f) <=> x \in NumPlaces(S, P, f)
    BY <1>4, <1>8
  <2> QED BY <1>5, <2>1
<1> QED BY <1>3, <1>7, <1>8 DEF PlaceUp

\* A slab more, with no object in use, brings its places.
LEMMA SlabMore ==
  ASSUME NEW S, NEW T, NEW P, NEW Q, NEW b, b \notin DOMAIN S, DOMAIN T = DOMAIN S \cup {b},
         NEW m \in Nat, T[b].num = 0, T[b].max_num = m,
         \A x \in DOMAIN S : /\ T[x].num = S[x].num /\ T[x].max_num = S[x].max_num
                             /\ Q[PageOf(x)] = P[PageOf(x)]
  PROVE  /\ \A f : NumPlaces(T, Q, f) = NumPlaces(S, P, f)
         /\ MaxPlaces(T, Q, Q[PageOf(b)]) = MaxPlaces(S, P, Q[PageOf(b)]) \cup {b} \X (1 .. m)
         /\ MaxPlaces(S, P, Q[PageOf(b)]) \cap {b} \X (1 .. m) = {}
         /\ \A f : f # Q[PageOf(b)] => MaxPlaces(T, Q, f) = MaxPlaces(S, P, f)
<1>1. \A x \in (DOMAIN T) \X Nat : x = <<x[1], x[2]>> /\ (x[1] \in DOMAIN S \/ x[1] = b)
  OBVIOUS
<1>2. (DOMAIN S) \X Nat \subseteq (DOMAIN T) \X Nat
  OBVIOUS
<1>3. \A f : NumPlaces(T, Q, f) = NumPlaces(S, P, f)
  <2>1. ASSUME NEW f, NEW x \in NumPlaces(T, Q, f) PROVE x \in NumPlaces(S, P, f)
    <3>1. x \in (DOMAIN T) \X Nat /\ Q[PageOf(x[1])] = f /\ x[2] \in 1 .. T[x[1]].num
      BY <2>1 DEF NumPlaces
    <3>2. x[1] # b
      BY <3>1
    <3> QED BY <1>1, <3>1, <3>2 DEF NumPlaces
  <2>2. ASSUME NEW f, NEW x \in NumPlaces(S, P, f) PROVE x \in NumPlaces(T, Q, f)
    <3>1. x \in (DOMAIN S) \X Nat /\ P[PageOf(x[1])] = f /\ x[2] \in 1 .. S[x[1]].num
      BY <2>2 DEF NumPlaces
    <3>2. x[1] \in DOMAIN S
      BY <3>1
    <3>3. Q[PageOf(x[1])] = f /\ x[2] \in 1 .. T[x[1]].num
      BY <3>1, <3>2
    <3>4. x \in (DOMAIN T) \X Nat
      BY <1>2, <3>1
    <3> QED BY <3>3, <3>4 DEF NumPlaces
  <2>3. ASSUME NEW f PROVE NumPlaces(T, Q, f) = NumPlaces(S, P, f)
    <3>1. NumPlaces(T, Q, f) \subseteq NumPlaces(S, P, f)
      BY <2>1
    <3>2. NumPlaces(S, P, f) \subseteq NumPlaces(T, Q, f)
      BY <2>2
    <3> QED BY <3>1, <3>2
  <2> QED BY <2>3
<1>4. ASSUME NEW f, NEW x \in (DOMAIN T) \X Nat
      PROVE  x \in MaxPlaces(T, Q, f) <=>
               x \in MaxPlaces(S, P, f) \/ (f = Q[PageOf(b)] /\ x \in {b} \X (1 .. m))
  <2>1. CASE x[1] = b
    BY <1>1, <2>1 DEF MaxPlaces
  <2>2. CASE x[1] # b
    BY <1>1, <2>2 DEF MaxPlaces
  <2> QED BY <2>1, <2>2
<1>5. \A f : /\ MaxPlaces(T, Q, f) \subseteq (DOMAIN T) \X Nat
             /\ MaxPlaces(S, P, f) \subseteq (DOMAIN T) \X Nat
  BY <1>2 DEF MaxPlaces
<1>6. {b} \X (1 .. m) \subseteq (DOMAIN T) \X Nat
  OBVIOUS
<1>7. MaxPlaces(S, P, Q[PageOf(b)]) \cap {b} \X (1 .. m) = {}
  BY DEF MaxPlaces
<1>8. MaxPlaces(T, Q, Q[PageOf(b)]) = MaxPlaces(S, P, Q[PageOf(b)]) \cup {b} \X (1 .. m)
  BY <1>4, <1>5, <1>6
<1>9. \A f : f # Q[PageOf(b)] => MaxPlaces(T, Q, f) = MaxPlaces(S, P, f)
  BY <1>4, <1>5
<1> QED BY <1>3, <1>7, <1>8, <1>9

---------------------------------------------------------------------------
(* Moving a slab from list to list. *)

\* add_remove_cache_list of slab b: it leaves list from, when it is on one, and
\* is the last of list to.
LEMMA Relist ==
  ASSUME NEW q \in [ListNames -> Seq(Nat)], NEW X, NEW Y, NEW b \in Nat, NEW from,
         NEW to \in ListNames, from # to,
         \A l \in ListNames :
           /\ Lists(q[l], X[l]) /\ X[l] \subseteq Nat
           /\ b \in X[l] <=> l = from
           /\ Y[l] = (X[l] \ {b}) \cup (IF l = to THEN {b} ELSE {})
  PROVE  /\ Relisted(q, b, from, to) \in [ListNames -> Seq(Nat)]
         /\ \A l \in ListNames : Lists(Relisted(q, b, from, to)[l], Y[l])
<1> DEFINE R == Relisted(q, b, from, to)
<1>1. ASSUME NEW l \in ListNames PROVE Lists(R[l], Y[l]) /\ Y[l] \subseteq Nat
  <2>1. CASE l = to
    <3>1. R[l] = Append(Without(q[l], b), b)
      BY <2>1 DEF Relisted
    <3>2. b \notin X[l] /\ Y[l] = X[l] \cup {b}
      BY <2>1
    <3>3. Without(q[l], b) = q[l]
      BY <3>2, WithoutNone
    <3>4. Lists(Append(q[l], b), X[l] \cup {b})
      BY <3>2, AppendFacts
    <3> QED BY <3>1, <3>2, <3>3, <3>4
  <2>2. CASE l # to /\ l = from
    <3>1. R[l] = Without(q[l], b)
      BY <2>2 DEF Relisted
    <3>2. b \in X[l] /\ Y[l] = X[l] \ {b}
      BY <2>2
    <3>3. Lists(Without(q[l], b), X[l] \ {b})
      BY ONLY <3>2, WithoutFacts, Lists(q[l], X[l])
    <3> QED BY <3>1, <3>2, <3>3
  <2>3. CASE l # to /\ l # from
    <3>1. R[l] = q[l]
      BY <2>3 DEF Relisted
    <3>2. Y[l] = X[l]
      BY <2>3
    <3> QED BY <3>1, <3>2
  <2> QED BY <2>1, <2>2, <2>3
<1>2. ASSUME NEW l \in ListNames PROVE R[l] \in Seq(Nat)
  <2>1. R[l] \in Seq(Y[l]) /\ Y[l] \subseteq Nat
    BY <1>1 DEF Lists
  <2> QED BY <2>1
<1>3. R \in [ListNames -> Seq(Nat)]
  <2>1. R = [l \in ListNames |-> R[l]]
    BY DEF Relisted
  <2> HIDE DEF R
  <2> QED BY <1>2, <2>1
<1> QED BY <1>1, <1>3

\* The record that kalloc_cache.c works on.
Hp(S, C, P) == [slabs |-> S, caches |-> C, page_obj |-> P, panic |-> "none"]

\* Its fields, and what becomes of it when one changes.
LEMMA HpFields ==
  ASSUME NEW S, NEW C, NEW P
  PROVE  /\ Hp(S, C, P).slabs = S /\ Hp(S, C, P).caches = C
         /\ Hp(S, C, P).page_obj = P /\ Hp(S, C, P).panic = "none"
         /\ \A X : [Hp(S, C, P) EXCEPT !.slabs = X] = Hp(X, C, P)
         /\ \A X : [Hp(S, C, P) EXCEPT !.caches = X] = Hp(S, X, P)
         /\ \A X : [Hp(S, C, P) EXCEPT !.page_obj = X] = Hp(S, C, X)
<1>1. /\ Hp(S, C, P).slabs = S /\ Hp(S, C, P).caches = C
      /\ Hp(S, C, P).page_obj = P /\ Hp(S, C, P).panic = "none"
  BY DEF Hp
<1>2. ASSUME NEW X PROVE [Hp(S, C, P) EXCEPT !.slabs = X] = Hp(X, C, P)
  <2>1. PICK h, g : h = Hp(S, C, P) /\ g = Hp(X, C, P)
    OBVIOUS
  <2>2. [h EXCEPT !.slabs = X] = g
    BY <2>1 DEF Hp
  <2> QED BY ONLY <2>1, <2>2
<1>3. ASSUME NEW X PROVE [Hp(S, C, P) EXCEPT !.caches = X] = Hp(S, X, P)
  <2>1. PICK h, g : h = Hp(S, C, P) /\ g = Hp(S, X, P)
    OBVIOUS
  <2>2. [h EXCEPT !.caches = X] = g
    BY <2>1 DEF Hp
  <2> QED BY ONLY <2>1, <2>2
<1>4. ASSUME NEW X PROVE [Hp(S, C, P) EXCEPT !.page_obj = X] = Hp(S, C, X)
  <2>1. PICK h, g : h = Hp(S, C, P) /\ g = Hp(S, C, X)
    OBVIOUS
  <2>2. [h EXCEPT !.page_obj = X] = g
    BY <2>1 DEF Hp
  <2> QED BY ONLY <2>1, <2>2
<1> QED BY <1>1, <1>2, <1>3, <1>4

\* t has the field on; what it is on the list it belongs on.
HasOn(t) == t = [t EXCEPT !.on = t.on] /\ "on" \in DOMAIN t
Placed(t) == [t EXCEPT !.on = ListOf(t)]

\* Slab b of S has become t, on the list it belongs on, in V,
Becomes(S, V, b, t) == /\ DOMAIN V = DOMAIN S /\ V[b] = Placed(t)
                       /\ \A x \in DOMAIN S : x # b => V[x] = S[x]

\* and the lists of C have become those of D.
Moves(S, C, P, V, D, b, t) ==
  /\ Becomes(S, V, b, t)
  /\ CachesList(V, D, P)
  /\ \A f \in CacheIds : D[f].num = C[f].num /\ D[f].max_num = C[f].max_num

\* check_slab_and_update_list of a slab that has become t: it gets to the list
\* that it belongs on, every other slab stays where it is.
LEMMA UpdateFacts ==
  ASSUME NEW S, NEW C, NEW P, NEW B, NEW L, SlabsRight(S, P, B, L), CachesList(S, C, P),
         NEW b \in DOMAIN S, NEW t, HasOn(t), t.on = S[b].on,
         ListFor(t) = ListOf(t), NEW T, T = [S EXCEPT ![b] = t],
         NEW h, h = Hp(T, C, P)
  PROVE  \E V, D : Update(h, P[PageOf(b)], b) = Hp(V, D, P) /\ Moves(S, C, P, V, D, b, t)
<1> DEFINE e == P[PageOf(b)]
           to == ListOf(t)
           from == S[b].on
           r == Update(h, e, b)
<1>1. h.slabs[b] = t /\ to \in ListNames
  BY DEF ListOf, ListNames, Hp
<1>2. /\ C \in [CacheIds -> [num : Nat, max_num : Nat, lists : [ListNames -> Seq(Nat)]]]
      /\ \A f \in CacheIds, l \in ListNames : Lists(C[f].lists[l], On(S, P, f, l))
  BY DEF CachesList
<1>3. e \in CacheIds /\ b \in Nat /\ from \in ListNames
  BY SlabIs, SlabFacts
<1>4. DOMAIN S \subseteq Nat
  BY SlabIs
<1>5. PICK V : V = [S EXCEPT ![b] = Placed(t)]
  OBVIOUS
<1>6. /\ DOMAIN V = DOMAIN S /\ V[b] = Placed(t) /\ \A x \in DOMAIN S : x # b => V[x] = S[x]
  BY <1>5
<1>7. Placed(t).on = to
  <2> HIDE DEF to
  <2> QED BY DEF HasOn, Placed, to
<1>8. Becomes(S, V, b, t)
  BY <1>6 DEF Becomes
<1>9. CASE to = from
  <2>1. Placed(t) = t
    <3>1. ListOf(t) = t.on
      BY <1>9
    <3> QED BY <3>1 DEF HasOn, Placed
  <2>2. r = h
    BY <1>1, <1>9 DEF Update, Hp
  <2>3. r = Hp(V, C, P)
    BY <1>5, <2>1, <2>2
  <2>4. \A x \in DOMAIN S : V[x].on = S[x].on
    <3> HIDE DEF to
    <3> QED BY <1>6, <1>7, <1>9
  <2>5. \A f, l : On(V, P, f, l) = On(S, P, f, l)
    BY <1>6, <2>4 DEF On
  <2>6. CachesList(V, C, P)
    BY <1>2, <2>5 DEF CachesList
  <2>7. Moves(S, C, P, V, C, b, t)
    BY <1>8, <2>6 DEF Moves
  <2> HIDE DEF r
  <2>8. \E W, D : r = Hp(W, D, P) /\ Moves(S, C, P, W, D, b, t)
    BY ONLY <2>3, <2>7
  <2> QED BY <2>8 DEF r
<1>10. CASE to # from
  <2> DEFINE q == C[e].lists
             R == Relisted(q, b, from, to)
             X == [l \in ListNames |-> On(S, P, e, l)]
             Y == [l \in ListNames |-> On(V, P, e, l)]
  <2>1. r = MoveSlab(h, e, b, from, to)
    BY <1>1, <1>10 DEF Update, Hp
  <2>2. [T EXCEPT ![b].on = to] = V
    BY <1>5 DEF Placed
  <2>3. PICK D : D = [C EXCEPT ![e].lists = R]
    OBVIOUS
  <2>4. r = Hp(V, D, P)
    <3>1. h.slabs = T /\ h.caches = C
      BY DEF Hp
    <3>2. [[h EXCEPT !.caches = D] EXCEPT !.slabs = V] = Hp(V, D, P)
      <4>0. h = Hp(T, C, P)
        OBVIOUS
      <4>1. PICK g : g = [h EXCEPT !.caches = D]
        OBVIOUS
      <4>2. g = Hp(T, D, P)
        BY ONLY <4>0, <4>1, HpFields
      <4>3. [g EXCEPT !.slabs = V] = Hp(V, D, P)
        BY ONLY <4>2, HpFields
      <4> QED BY ONLY <4>1, <4>3
    <3>3. MoveSlab(h, e, b, from, to) = [[h EXCEPT !.caches = D] EXCEPT !.slabs = V]
      <4> HIDE DEF to, from, e
      <4>1. MoveSlab(h, e, b, from, to) =
              [h EXCEPT !.caches = [h.caches EXCEPT ![e].lists = Relisted(@, b, from, to)],
                        !.slabs = [h.slabs EXCEPT ![b].on = to]]
        BY DEF MoveSlab, Hp
      <4> QED BY <2>2, <2>3, <3>1, <4>1
    <3> QED BY <2>1, <3>2, <3>3
  <2>5. q \in [ListNames -> Seq(Nat)] /\ \A l \in ListNames : Lists(q[l], X[l])
    BY <1>2, <1>3
  <2> HIDE DEF to, q, R
  <2>6. V[b].on = to
    BY <1>6, <1>7
  <2>7. ASSUME NEW l \in ListNames
        PROVE  /\ X[l] \subseteq Nat
               /\ b \in X[l] <=> l = from
               /\ Y[l] = (X[l] \ {b}) \cup (IF l = to THEN {b} ELSE {})
    <3>1. b \in X[l] <=> l = from
      BY DEF On
    <3>2. \A x : x \in Y[l] <=> x \in (X[l] \ {b}) \cup (IF l = to THEN {b} ELSE {})
      BY <1>6, <2>6 DEF On
    <3> QED BY <1>4, <3>1, <3>2 DEF On
  <2> HIDE DEF X, Y, from
  <2>8. R \in [ListNames -> Seq(Nat)] /\ \A l \in ListNames : Lists(R[l], Y[l])
    <3>1. from # to
      BY <1>10
    <3>2. b \in Nat /\ to \in ListNames
      BY <1>1, <1>3
    <3>3. \A l \in ListNames :
            /\ Lists(q[l], X[l]) /\ X[l] \subseteq Nat
            /\ b \in X[l] <=> l = from
            /\ Y[l] = (X[l] \ {b}) \cup (IF l = to THEN {b} ELSE {})
      BY <2>5, <2>7
    <3>4. q \in [ListNames -> Seq(Nat)]
      BY <2>5
    <3> QED BY ONLY <3>1, <3>2, <3>3, <3>4, Relist DEF R
  <2>9. /\ D \in [CacheIds -> [num : Nat, max_num : Nat, lists : [ListNames -> Seq(Nat)]]]
        /\ D[e].lists = R /\ \A f \in CacheIds : f # e => D[f] = C[f]
        /\ \A f \in CacheIds : D[f].num = C[f].num /\ D[f].max_num = C[f].max_num
    <3> HIDE DEF e
    <3> QED BY <1>2, <1>3, <2>3, <2>8
  <2>10. ASSUME NEW f \in CacheIds, NEW l \in ListNames PROVE Lists(D[f].lists[l], On(V, P, f, l))
    <3>1. CASE f = e
      BY <2>8, <2>9, <3>1 DEF Y
    <3>2. CASE f # e
      <4>1. On(V, P, f, l) = On(S, P, f, l)
        BY <1>6, <3>2 DEF On
      <4> QED BY <1>2, <2>9, <3>2, <4>1
    <3> QED BY <3>1, <3>2
  <2>11. CachesList(V, D, P)
    BY <2>9, <2>10 DEF CachesList
  <2>12. Moves(S, C, P, V, D, b, t)
    BY <1>8, <2>9, <2>11 DEF Moves
  <2> HIDE DEF r
  <2>13. \E W, Z : r = Hp(W, Z, P) /\ Moves(S, C, P, W, Z, b, t)
    BY ONLY <2>4, <2>12
  <2> QED BY <2>13 DEF r
<1> QED BY <1>9, <1>10

---------------------------------------------------------------------------
(* kalloc_cache_alloc. *)

\* The slabs of V lie where those of S do.
SameShape(S, V) == /\ DOMAIN V = DOMAIN S
                   /\ \A x \in DOMAIN S : /\ V[x].mem = S[x].mem /\ V[x].size = S[x].size
                                          /\ V[x].max_num = S[x].max_num

\* What depends on nothing else.
LEMMA Reshaped ==
  ASSUME NEW S, NEW V, SameShape(S, V), NEW P, NEW B
  PROVE  /\ LinksRight(S, P) => LinksRight(V, P)
         /\ \A a, n : InObject(a, n, S) => InObject(a, n, V)
         /\ \A a, n : InPages(a, n, S, P, B) => InPages(a, n, V, P, B)
         /\ \A f : MaxPlaces(V, P, f) = MaxPlaces(S, P, f)
<1>1. LinksRight(S, P) => LinksRight(V, P)
  BY DEF SameShape, LinksRight
<1>2. \A a, n : InObject(a, n, S) => InObject(a, n, V)
  BY DEF SameShape, InObject, ObjectAt
<1>3. \A a, n : InPages(a, n, S, P, B) => InPages(a, n, V, P, B)
  BY DEF SameShape, InPages
<1>4. ASSUME NEW f PROVE MaxPlaces(V, P, f) = MaxPlaces(S, P, f)
  <2>1. \A x \in (DOMAIN S) \X Nat : x[1] \in DOMAIN S /\ V[x[1]].max_num = S[x[1]].max_num
    BY DEF SameShape
  <2> QED BY <2>1 DEF SameShape, MaxPlaces
<1> QED BY <1>1, <1>2, <1>3, <1>4

\* get_free_slab gives a slab of the cache that is not full, if there is one.
LEMMA FreeSlabFacts ==
  ASSUME NEW S, NEW C, NEW P, NEW B, NEW L, SlabsRight(S, P, B, L), CachesList(S, C, P),
         NEW e \in CacheIds, NEW c \in DOMAIN S, P[PageOf(c)] = e, S[c].num # S[c].max_num,
         NEW h, h = Hp(S, C, P)
  PROVE  /\ FreeSlab(h, e) \in DOMAIN S /\ FreeSlab(h, e) # None
         /\ P[PageOf(FreeSlab(h, e))] = e
         /\ S[FreeSlab(h, e)].num # S[FreeSlab(h, e)].max_num
<1> DEFINE l == C[e].lists
           b == FreeSlab(h, e)
<1>1. h.caches[e].lists = l
  BY DEF Hp
<1>2. Lists(l["partial"], On(S, P, e, "partial")) /\ Lists(l["free"], On(S, P, e, "free"))
  BY DEF CachesList, ListNames
<1>3. \A x \in DOMAIN S : S[x].on = ListOf(S[x]) /\ x \in Nat
  BY SlabIs, SlabFacts
<1>4. c \in On(S, P, e, "partial") \cup On(S, P, e, "free")
  BY <1>3 DEF On, ListOf
<1>5. b \in On(S, P, e, "partial") \cup On(S, P, e, "free")
  <2>1. CASE l["partial"] # <<>>
    <3>1. b = Head(l["partial"])
      BY <1>1, <2>1 DEF FreeSlab
    <3>2. On(S, P, e, "partial") # {}
      BY <1>2, <2>1, ListFacts
    <3> QED BY <1>2, <3>1, <3>2, ListFacts
  <2>2. CASE l["partial"] = <<>>
    <3>1. On(S, P, e, "partial") = {}
      BY <1>2, <2>2, ListFacts
    <3>2. On(S, P, e, "free") # {}
      BY <1>4, <3>1
    <3>3. l["free"] # <<>> /\ Head(l["free"]) \in On(S, P, e, "free")
      BY <1>2, <3>2, ListFacts
    <3>4. b = Head(l["free"])
      BY <1>1, <2>2, <3>3 DEF FreeSlab
    <3> QED BY <3>3, <3>4
  <2> QED BY <2>1, <2>2
<1>6. b \in DOMAIN S /\ P[PageOf(b)] = e /\ S[b].on \in {"partial", "free"}
  BY <1>5 DEF On
<1>7. b # None
  BY <1>3, <1>6, EntriesAssumption
<1>8. S[b].num # S[b].max_num
  <2> HIDE DEF b
  <2>1. SUFFICES ASSUME S[b].num = S[b].max_num PROVE FALSE
    OBVIOUS
  <2>2. S[b].on = ListOf(S[b])
    BY <1>3, <1>6
  <2>3. ListOf(S[b]) = "full"
    <3>1. S[b].max_num # 0
      BY <1>6, SlabIs, SlabFacts
    <3> QED BY <2>1, <3>1 DEF ListOf
  <2> QED BY <1>6, <2>2, <2>3
<1> QED BY <1>6, <1>7, <1>8

\* Where one slab has changed and in the others the same objects are in use.
LEMMA SlabChanges ==
  ASSUME NEW S, NEW V, NEW P, NEW B, NEW L, NEW M, SlabsRight(S, P, B, L), DOMAIN V = DOMAIN S,
         NEW b \in DOMAIN S, SlabRight(V[b], b, P[PageOf(b)], P, B, M),
         \A x \in DOMAIN S : x # b => V[x] = S[x] /\ UsedOf(S[x], M) = UsedOf(S[x], L)
  PROVE  SlabsRight(V, P, B, M)
<1> SUFFICES ASSUME NEW x \in DOMAIN S PROVE SlabRight(V[x], x, P[PageOf(x)], P, B, M)
  BY DEF SlabsRight
<1>1. SlabRight(S[x], x, P[PageOf(x)], P, B, L)
  BY DEF SlabsRight
<1>2. CASE x # b
  <2>1. V[x] = S[x] /\ UsedOf(S[x], M) = UsedOf(S[x], L)
    BY <1>2
  <2> QED BY <1>1, <2>1 DEF SlabRight
<1> QED BY <1>2

\* With address o, or without it, object i of slab b is in use, or not, and in
\* the other slabs the same objects are.
UsedBy(S, b, i, L, o) ==
  /\ UsedOf(S[b], L \cup {o}) = UsedOf(S[b], L) \cup {i}
  /\ UsedOf(S[b], L \ {o}) = UsedOf(S[b], L) \ {i}
  /\ \A x \in DOMAIN S : x # b => /\ UsedOf(S[x], L \cup {o}) = UsedOf(S[x], L)
                                  /\ UsedOf(S[x], L \ {o}) = UsedOf(S[x], L)

\* It is so when o is where object i is.
LEMMA UsedMore ==
  ASSUME NEW S, NEW P, NEW B, NEW L, SlabsRight(S, P, B, L), BlocksRight(B),
         NEW b \in DOMAIN S, NEW i \in 0 .. S[b].max_num - 1
  PROVE  UsedBy(S, b, i, L, ObjectAt(S[b], i))
<1>1. i \in 0 .. S[b].max_num /\ S[b].max_num \in Nat
  <2>1. S[b].max_num \in Nat
    BY SlabIs, SlabFacts
  <2> QED BY <2>1
<1>2. ASSUME NEW x \in DOMAIN S, NEW j \in 0 .. S[x].max_num - 1,
             ObjectAt(S[x], j) = ObjectAt(S[b], i)
      PROVE  x = b /\ j = i
  <2>1. S[x].max_num \in Nat
    BY SlabIs, SlabFacts
  <2>2. j \in 0 .. S[x].max_num
    BY <2>1
  <2> QED BY <1>1, <1>2, <2>2, OneObject
<1>3. \A x \in DOMAIN S : x # b =>
        \A j \in 0 .. S[x].max_num - 1 : ObjectAt(S[x], j) # ObjectAt(S[b], i)
  BY <1>2
<1>4. \A j \in 0 .. S[b].max_num - 1 : ObjectAt(S[b], j) = ObjectAt(S[b], i) <=> j = i
  BY <1>2
<1> QED BY <1>3, <1>4 DEF UsedOf, UsedBy

\* What AfterAlloc and AfterFree make of a slab, and that the list is the right
\* one then.
LEMMA AfterAllocIs ==
  ASSUME NEW e \in CacheIds, NEW s, NEW b \in Nat, SlabOf(s, b, e), s.num # s.max_num,
         s.free_index \in 0 .. s.max_num - 1, NEW t, t = AfterAlloc(s)
  PROVE  /\ HasOn(t) /\ t.on = s.on
         /\ ListFor(t) = ListOf(t)
         /\ SlabOf(Placed(t), b, e)
         /\ Placed(t).num = s.num + 1 /\ Placed(t).free_indexs = s.free_indexs
         /\ Placed(t).free_index = s.free_indexs[s.free_index]
<1>1. PICK n, i, g, o : n = s.num /\ i = s.free_index /\ g = s.free_indexs /\ o = s.on
  OBVIOUS
<1>2. s = [start |-> b, size |-> Entries[e].size, pages |-> Entries[e].pages,
           mem |-> b + Ahead(e), max_num |-> Num(e) - 1, num |-> n,
           free_index |-> i, free_indexs |-> g, on |-> o]
  BY <1>1 DEF SlabOf
<1>3. t = [start |-> b, size |-> Entries[e].size, pages |-> Entries[e].pages,
           mem |-> b + Ahead(e), max_num |-> Num(e) - 1, num |-> n + 1,
           free_index |-> g[i], free_indexs |-> g, on |-> o]
  BY <1>2 DEF AfterAlloc
<1>4. /\ s.max_num = Num(e) - 1 /\ n \in 0 .. Num(e) - 1 /\ n # Num(e) - 1 /\ o = ListOf(s)
      /\ g \in [0 .. Num(e) - 2 -> 0 .. Num(e) - 1]
      /\ Num(e) \in Nat /\ Num(e) > 1
  BY <1>1, SlabFacts, EntryFacts DEF SlabOf
<1>5. ListFor(t) = ListOf(t)
  <2>1. s.num = n /\ t.num = n + 1 /\ t.max_num = Num(e) - 1 /\ t.on = o
    BY <1>1, <1>3
  <2>2. o # "full" /\ t.num # 0
    BY <1>4, <2>1 DEF ListOf
  <2> QED BY ONLY <2>1, <2>2 DEF ListOf, ListFor
<1>6. PICK u : u = [start |-> b, size |-> Entries[e].size, pages |-> Entries[e].pages,
                    mem |-> b + Ahead(e), max_num |-> Num(e) - 1, num |-> n + 1,
                    free_index |-> g[i], free_indexs |-> g, on |-> ListOf(t)]
  OBVIOUS
<1>7. u = Placed(t)
  BY <1>3, <1>6 DEF Placed
<1>8. HasOn(t) /\ t.on = s.on
  BY <1>1, <1>3 DEF HasOn
<1>9. /\ u.start = b /\ u.size = Entries[e].size /\ u.pages = Entries[e].pages
      /\ u.mem = b + Ahead(e) /\ u.max_num = Num(e) - 1 /\ u.num = n + 1
      /\ u.free_index = g[i] /\ u.free_indexs = g /\ u.on = ListOf(t)
  BY <1>6
<1>10. SlabOf(u, b, e)
  <2>1. u.on = ListOf(u)
    <3>1. t.num = n + 1 /\ t.max_num = Num(e) - 1
      BY <1>3
    <3> QED BY ONLY <1>9, <3>1 DEF ListOf
  <2>2. u.num \in 0 .. Num(e) - 1
    BY <1>4, <1>9
  <2>3. u = [start |-> b, size |-> Entries[e].size, pages |-> Entries[e].pages,
             mem |-> b + Ahead(e), max_num |-> Num(e) - 1, num |-> u.num,
             free_index |-> u.free_index, free_indexs |-> u.free_indexs, on |-> u.on]
    BY <1>6, <1>9
  <2>4. u.free_indexs \in [0 .. Num(e) - 2 -> 0 .. Num(e) - 1]
    BY <1>4, <1>9
  <2> QED BY <2>1, <2>2, <2>3, <2>4 DEF SlabOf
<1> QED BY <1>1, <1>5, <1>7, <1>8, <1>9, <1>10

\* The caches when the num of one has changed, which is on no list.
WithNum(C, e, n) == [C EXCEPT ![e].num = n]

LEMMA NumOnly ==
  ASSUME NEW S, NEW C, NEW P, CachesList(S, C, P), NEW e \in CacheIds, NEW n \in Nat
  PROVE  /\ CachesList(S, WithNum(C, e, n), P)
         /\ WithNum(C, e, n)[e].num = n
         /\ \A f \in CacheIds : f # e => WithNum(C, e, n)[f].num = C[f].num
         /\ \A f \in CacheIds : WithNum(C, e, n)[f].max_num = C[f].max_num
<1>1. /\ C \in [CacheIds -> [num : Nat, max_num : Nat, lists : [ListNames -> Seq(Nat)]]]
      /\ \A f \in CacheIds, l \in ListNames : Lists(C[f].lists[l], On(S, P, f, l))
  BY DEF CachesList
<1>2. PICK D : D = [C EXCEPT ![e].num = n]
  OBVIOUS
<1>3. /\ D \in [CacheIds -> [num : Nat, max_num : Nat, lists : [ListNames -> Seq(Nat)]]]
      /\ \A f \in CacheIds : D[f].lists = C[f].lists /\ D[f].max_num = C[f].max_num
      /\ D[e].num = n /\ \A f \in CacheIds : f # e => D[f].num = C[f].num
  BY <1>1, <1>2
<1>4. CachesList(S, D, P)
  BY ONLY <1>1, <1>3 DEF CachesList
<1>5. D = WithNum(C, e, n)
  BY <1>2 DEF WithNum
<1> QED BY ONLY <1>3, <1>4, <1>5

\* kalloc_cache_alloc of entry e takes an object of slab b, and the slabs and
\* the caches become V and D.
AllocTo(S, C, P, e, b, V, D) ==
  /\ P[PageOf(b)] = e /\ S[b].num # S[b].max_num
  /\ Moves(S, C, P, V, D, b, AfterAlloc(S[b]))
  /\ CacheAlloc(Hp(S, C, P), e) = [h   |-> Hp(V, WithNum(D, e, D[e].num + 1), P),
                                   obj |-> ObjectAt(S[b], S[b].free_index)]

\* kalloc_cache_alloc of a cache that has a slab that is not full.
LEMMA AllocIs ==
  ASSUME NEW S, NEW C, NEW P, NEW B, NEW L, SlabsRight(S, P, B, L), CachesList(S, C, P),
         NEW e \in CacheIds, NEW c \in DOMAIN S, P[PageOf(c)] = e, S[c].num # S[c].max_num
  PROVE  \E b \in DOMAIN S : \E V, D : AllocTo(S, C, P, e, b, V, D)
<1>0. PICK h : h = Hp(S, C, P)
  OBVIOUS
<1>1. PICK b \in DOMAIN S : b = FreeSlab(h, e) /\ b # None /\ P[PageOf(b)] = e /\ S[b].num # S[b].max_num
  BY <1>0, FreeSlabFacts
<1>2. b \in Nat /\ SlabOf(S[b], b, e) /\ SlabRight(S[b], b, e, P, B, L)
  BY <1>1, SlabIs
<1>3. PICK ch : IsChain(ch, S[b], UsedOf(S[b], L))
  BY <1>2 DEF SlabRight
<1>4. S[b].free_index \in 0 .. S[b].max_num - 1 /\ MayAlloc(S[b])
  BY <1>1, <1>2, <1>3, ChainHead
<1>5. PICK t : t = AfterAlloc(S[b])
  OBVIOUS
<1>6. HasOn(t) /\ t.on = S[b].on /\ ListFor(t) = ListOf(t)
  <2>1. S[b].num # S[b].max_num /\ SlabOf(S[b], b, e) /\ b \in Nat
    BY <1>1, <1>2
  <2> QED BY ONLY <1>4, <1>5, <2>1, e \in CacheIds, AfterAllocIs
<1>7. PICK T : T = [S EXCEPT ![b] = t]
  OBVIOUS
<1>8. PICK g : g = Hp(T, C, P)
  OBVIOUS
<1>9. PICK r : r = Update(g, e, b)
  OBVIOUS
<1>10. PICK V, D : r = Hp(V, D, P) /\ Moves(S, C, P, V, D, b, t)
  <2>1. P[PageOf(b)] = e
    BY <1>1
  <2> QED BY ONLY <1>6, <1>7, <1>8, <1>9, <2>1, SlabsRight(S, P, B, L), CachesList(S, C, P),
                  b \in DOMAIN S, UpdateFacts
<1>11. CacheAlloc(h, e) = [h   |-> Hp(V, WithNum(D, e, D[e].num + 1), P),
                           obj |-> ObjectAt(S[b], S[b].free_index)]
  <2>1. h.slabs = S
    BY <1>0 DEF Hp
  <2>2. CacheAlloc(h, e) =
            [h   |-> [Update([h EXCEPT !.slabs[b] = AfterAlloc(@)], e, b) EXCEPT !.caches[e].num = @ + 1],
             obj |-> ObjectAt(h.slabs[b], h.slabs[b].free_index)]
    BY <1>1, <1>4, <2>1 DEF CacheAlloc
  <2>3. [r EXCEPT !.caches[e].num = @ + 1] = Hp(V, WithNum(D, e, D[e].num + 1), P)
    <3>1. r = Hp(V, D, P)
      BY <1>10
    <3> QED BY ONLY <3>1, HpFields DEF WithNum
  <2>4. [h EXCEPT !.slabs[b] = AfterAlloc(@)] = g
    <3>1. [S EXCEPT ![b] = AfterAlloc(@)] = T
      BY <1>5, <1>7
    <3>2. [h EXCEPT !.slabs = T] = g
      BY ONLY <1>0, <1>8, HpFields
    <3> QED BY ONLY <2>1, <3>1, <3>2
  <2> QED BY ONLY <1>9, <2>1, <2>2, <2>3, <2>4
<1>12. Moves(S, C, P, V, D, b, AfterAlloc(S[b])) /\ P[PageOf(b)] = e /\ S[b].num # S[b].max_num
  BY <1>1, <1>5, <1>10
<1>13. AllocTo(S, C, P, e, b, V, D)
  BY ONLY <1>0, <1>11, <1>12 DEF AllocTo
<1> QED BY <1>13

\* What a slab that has become another slab of its entry leaves right.
LEMMA ObjectChange ==
  ASSUME NEW S, NEW C, NEW P, NEW B, NEW R, Good(S, C, P, B, R), NEW b \in DOMAIN S, NEW t,
         NEW V, NEW D, NEW Q,
         Becomes(S, V, b, t), SlabOf(Placed(t), b, P[PageOf(b)]),
         \A x \in DOMAIN S : x # b => UsedOf(S[x], Addresses(Q)) = UsedOf(S[x], Addresses(R)),
         Cardinality(UsedOf(Placed(t), Addresses(Q))) = Placed(t).num,
         \E ch : IsChain(ch, Placed(t), UsedOf(Placed(t), Addresses(Q))),
         CachesList(V, D, P), CachesCount(V, D, P), HeldRight(S, P, B, Q)
  PROVE  Good(V, D, P, B, Q)
<1>1. /\ SlabsRight(S, P, B, Addresses(R)) /\ LinksRight(S, P) /\ BlocksRight(B)
  BY DEF Good
<1>2. /\ DOMAIN V = DOMAIN S /\ V[b] = Placed(t)
      /\ \A x \in DOMAIN S : x # b => V[x] = S[x]
  BY DEF Becomes
<1>3. SlabRight(V[b], b, P[PageOf(b)], P, B, Addresses(Q))
  <2>1. SlabRight(S[b], b, P[PageOf(b)], P, B, Addresses(R))
    BY <1>1 DEF SlabsRight
  <2> QED BY <1>2, <2>1 DEF SlabRight
<1>4. SlabsRight(V, P, B, Addresses(Q))
  BY <1>1, <1>2, <1>3, SlabChanges
<1>5. SameShape(S, V)
  <2>1. SlabOf(S[b], b, P[PageOf(b)]) /\ SlabOf(V[b], b, P[PageOf(b)])
        /\ b \in Nat /\ P[PageOf(b)] \in CacheIds
    BY <1>1, <1>2, SlabIs
  <2>2. V[b].mem = S[b].mem /\ V[b].size = S[b].size /\ V[b].max_num = S[b].max_num
    <3>1. PICK e \in CacheIds : e = P[PageOf(b)]
      BY <2>1
    <3>2. PICK s, v : s = S[b] /\ v = V[b]
      OBVIOUS
    <3>3. s.mem = b + Ahead(e) /\ s.size = Entries[e].size /\ s.max_num = Num(e) - 1
      BY ONLY <2>1, <3>1, <3>2, SlabFacts
    <3>4. v.mem = b + Ahead(e) /\ v.size = Entries[e].size /\ v.max_num = Num(e) - 1
      BY ONLY <2>1, <3>1, <3>2, SlabFacts
    <3> QED BY <3>2, <3>3, <3>4
  <2> QED BY <1>2, <2>2 DEF SameShape
<1>6. LinksRight(V, P)
  BY <1>1, <1>5, Reshaped
<1>7. HeldRight(V, P, B, Q)
  <2>1. /\ \A a, n : InObject(a, n, S) => InObject(a, n, V)
        /\ \A a, n : InPages(a, n, S, P, B) => InPages(a, n, V, P, B)
    BY <1>5, Reshaped
  <2> QED BY <2>1 DEF HeldRight
<1> QED BY <1>1, <1>4, <1>6, <1>7 DEF Good

\* One object of entry e more is in use, in the slab and in the count of its
\* cache,
LEMMA CountMore ==
  ASSUME NEW S, NEW C, NEW P, CachesCount(S, C, P), NEW b \in DOMAIN S, P[PageOf(b)] \in CacheIds,
         NEW V, NEW D, SameShape(S, V),
         \A x \in DOMAIN S : S[x].num \in Nat /\ S[x].max_num \in Nat /\ S[x].num <= S[x].max_num,
         \A x \in DOMAIN S : x # b => V[x].num = S[x].num,
         V[b].num = S[b].num + 1,
         D[P[PageOf(b)]].num = C[P[PageOf(b)]].num + 1,
         \A f \in CacheIds : f # P[PageOf(b)] => D[f].num = C[f].num,
         \A f \in CacheIds : D[f].max_num = C[f].max_num
  PROVE  CachesCount(V, D, P)
<1>1. \A f : MaxPlaces(V, P, f) = MaxPlaces(S, P, f)
  BY Reshaped
<1>2. DOMAIN V = DOMAIN S
  BY DEF SameShape
<1>3. PICK x : x = <<b, V[b].num>>
  OBVIOUS
<1>4. PICK e \in CacheIds : e = P[PageOf(b)]
  OBVIOUS
<1>5. /\ x \notin NumPlaces(S, P, e)
      /\ NumPlaces(V, P, e) = NumPlaces(S, P, e) \cup {x}
      /\ \A f : f # e => NumPlaces(V, P, f) = NumPlaces(S, P, f)
  <2>2. OneUp(S, V, b)
    BY <1>2 DEF OneUp
  <2>3. PlaceUp(S, V, P, e, x)
    BY ONLY <1>3, <1>4, <2>2, OneMore
  <2> QED BY ONLY <2>3 DEF PlaceUp
<1>6. \A f \in CacheIds : /\ IsFiniteSet(MaxPlaces(S, P, f))
                          /\ C[f].num = Cardinality(NumPlaces(S, P, f))
                          /\ C[f].max_num = Cardinality(MaxPlaces(S, P, f))
  BY DEF CachesCount
<1>7. IsFiniteSet(NumPlaces(S, P, e))
  <2>1. NumPlaces(S, P, e) \subseteq MaxPlaces(S, P, e)
    BY DEF NumPlaces, MaxPlaces
  <2> QED BY <1>6, <2>1, FS_Subset
<1>8. Cardinality(NumPlaces(V, P, e)) = Cardinality(NumPlaces(S, P, e)) + 1
  BY ONLY <1>5, <1>7, FS_AddElement
<1>9. D[e].num = Cardinality(NumPlaces(V, P, e))
  BY <1>4, <1>6, <1>8
<1>10. \A f \in CacheIds : f # e => D[f].num = Cardinality(NumPlaces(V, P, f))
  BY <1>4, <1>5, <1>6
<1> QED BY <1>1, <1>4, <1>6, <1>9, <1>10 DEF CachesCount

\* or one less.
LEMMA CountLess ==
  ASSUME NEW S, NEW C, NEW P, CachesCount(S, C, P), NEW b \in DOMAIN S, P[PageOf(b)] \in CacheIds,
         NEW V, NEW D, SameShape(S, V),
         \A x \in DOMAIN S : S[x].num \in Nat /\ S[x].max_num \in Nat /\ S[x].num <= S[x].max_num,
         \A x \in DOMAIN S : x # b => V[x].num = S[x].num,
         S[b].num # 0, V[b].num = S[b].num - 1,
         D[P[PageOf(b)]].num = C[P[PageOf(b)]].num - 1,
         \A f \in CacheIds : f # P[PageOf(b)] => D[f].num = C[f].num,
         \A f \in CacheIds : D[f].max_num = C[f].max_num
  PROVE  CachesCount(V, D, P) /\ C[P[PageOf(b)]].num # 0
<1>1. \A f : MaxPlaces(V, P, f) = MaxPlaces(S, P, f)
  BY Reshaped
<1>2. DOMAIN V = DOMAIN S
  BY DEF SameShape
<1>3. PICK x : x = <<b, S[b].num>>
  OBVIOUS
<1>4. PICK e \in CacheIds : e = P[PageOf(b)]
  OBVIOUS
<1>5. /\ x \notin NumPlaces(V, P, e)
      /\ NumPlaces(S, P, e) = NumPlaces(V, P, e) \cup {x}
      /\ \A f : f # e => NumPlaces(S, P, f) = NumPlaces(V, P, f)
  <2>1. OneUp(V, S, b)
    BY <1>2 DEF OneUp
  <2>2. PlaceUp(V, S, P, e, x)
    BY ONLY <1>3, <1>4, <2>1, OneMore
  <2> QED BY ONLY <2>2 DEF PlaceUp
<1>6. \A f \in CacheIds : /\ IsFiniteSet(MaxPlaces(S, P, f))
                          /\ C[f].num = Cardinality(NumPlaces(S, P, f))
                          /\ C[f].max_num = Cardinality(MaxPlaces(S, P, f))
  BY DEF CachesCount
<1>7. IsFiniteSet(NumPlaces(V, P, e))
  <2>1. NumPlaces(S, P, e) \subseteq MaxPlaces(S, P, e)
    BY DEF NumPlaces, MaxPlaces
  <2>2. NumPlaces(V, P, e) \subseteq MaxPlaces(S, P, e)
    BY <1>5, <2>1
  <2> QED BY <1>6, <2>2, FS_Subset
<1>8. /\ Cardinality(NumPlaces(S, P, e)) = Cardinality(NumPlaces(V, P, e)) + 1
      /\ Cardinality(NumPlaces(V, P, e)) \in Nat
  BY ONLY <1>5, <1>7, FS_AddElement, FS_CardinalityType
<1>9. D[e].num = Cardinality(NumPlaces(V, P, e)) /\ C[e].num # 0
  BY <1>4, <1>6, <1>8
<1>10. \A f \in CacheIds : f # e => D[f].num = Cardinality(NumPlaces(V, P, f))
  BY <1>4, <1>5, <1>6
<1> QED BY <1>1, <1>4, <1>6, <1>9, <1>10 DEF CachesCount

\* What the slabs of a good heap count.
LEMMA SlabNums ==
  ASSUME NEW S, NEW P, NEW B, NEW L, SlabsRight(S, P, B, L)
  PROVE  \A x \in DOMAIN S : S[x].num \in Nat /\ S[x].max_num \in Nat /\ S[x].num <= S[x].max_num
<1> SUFFICES ASSUME NEW x \in DOMAIN S
             PROVE  S[x].num \in Nat /\ S[x].max_num \in Nat /\ S[x].num <= S[x].max_num
  OBVIOUS
<1>1. PICK s : s = S[x]
  OBVIOUS
<1>2. SlabOf(s, x, P[PageOf(x)]) /\ x \in Nat /\ P[PageOf(x)] \in CacheIds
  BY <1>1, SlabIs
<1>3. s.max_num \in Nat \ {0} /\ s.num \in 0 .. s.max_num
  BY ONLY <1>2, SlabFacts
<1> QED BY <1>1, <1>3

\* A slab that has become another slab of its entry has its shape.
LEMMA BecomesShape ==
  ASSUME NEW S, NEW P, NEW B, NEW L, SlabsRight(S, P, B, L), NEW b \in DOMAIN S, NEW t, NEW V,
         Becomes(S, V, b, t), SlabOf(Placed(t), b, P[PageOf(b)])
  PROVE  SameShape(S, V)
<1>1. PICK e, s, v : e = P[PageOf(b)] /\ s = S[b] /\ v = Placed(t)
  OBVIOUS
<1>2. e \in CacheIds /\ b \in Nat /\ SlabOf(s, b, e) /\ SlabOf(v, b, e)
  BY <1>1, SlabIs
<1>3. s.mem = b + Ahead(e) /\ s.size = Entries[e].size /\ s.max_num = Num(e) - 1
  BY ONLY <1>2, SlabFacts
<1>4. v.mem = b + Ahead(e) /\ v.size = Entries[e].size /\ v.max_num = Num(e) - 1
  BY ONLY <1>2, SlabFacts
<1> QED BY <1>1, <1>3, <1>4 DEF Becomes, SameShape

\* An allocation of n bytes by way of entry e gives o, whose address was not
\* held, and leaves the slabs V and the caches D.
Alloced(S, C, P, B, R, e, n, V, D, o) ==
  /\ CacheAlloc(Hp(S, C, P), e) = [h |-> Hp(V, D, P), obj |-> o]
  /\ o \notin Addresses(R)
  /\ Good(V, D, P, B, R \cup {<<o, n>>})

\* So it is when one of the slabs of the entry is not full.
LEMMA AllocGood ==
  ASSUME NEW S, NEW C, NEW P, NEW B, NEW R, Good(S, C, P, B, R),
         NEW e \in CacheIds, NEW c \in DOMAIN S, P[PageOf(c)] = e, S[c].num # S[c].max_num,
         NEW n \in Nat, n <= Entries[e].size
  PROVE  \E V, D, o : Alloced(S, C, P, B, R, e, n, V, D, o)
<1>1. /\ SlabsRight(S, P, B, Addresses(R)) /\ CachesList(S, C, P) /\ CachesCount(S, C, P)
      /\ BlocksRight(B) /\ HeldRight(S, P, B, R)
  BY DEF Good
<1>2. PICK b \in DOMAIN S : \E V, D : AllocTo(S, C, P, e, b, V, D)
  BY <1>1, AllocIs
<1>3. PICK V, D :
        /\ P[PageOf(b)] = e /\ S[b].num # S[b].max_num
        /\ Moves(S, C, P, V, D, b, AfterAlloc(S[b]))
        /\ CacheAlloc(Hp(S, C, P), e) = [h   |-> Hp(V, WithNum(D, e, D[e].num + 1), P),
                                         obj |-> ObjectAt(S[b], S[b].free_index)]
  BY <1>2 DEF AllocTo
<1>4. PICK s, t, i, L : s = S[b] /\ t = AfterAlloc(s) /\ i = s.free_index /\ L = Addresses(R)
  OBVIOUS
<1>5. PICK o : o = ObjectAt(s, i)
  OBVIOUS
<1>6. b \in Nat /\ SlabOf(s, b, e) /\ SlabRight(s, b, e, P, B, L)
  BY <1>1, <1>3, <1>4, SlabIs
<1>7. Cardinality(UsedOf(s, L)) = s.num
  BY <1>6 DEF SlabRight
<1>8. PICK ch : IsChain(ch, s, UsedOf(s, L))
  BY <1>6 DEF SlabRight
<1>9. s.num # s.max_num
  BY <1>3, <1>4
<1>10. i \in 0 .. s.max_num - 1 /\ i \notin UsedOf(s, L)
  BY ONLY <1>4, <1>6, <1>8, <1>9, e \in CacheIds, ChainHead
<1>11. /\ SlabOf(Placed(t), b, e)
       /\ Placed(t).num = s.num + 1 /\ Placed(t).free_indexs = s.free_indexs
       /\ Placed(t).free_index = s.free_indexs[i]
  BY ONLY <1>4, <1>6, <1>9, <1>10, e \in CacheIds, AfterAllocIs
<1>12. /\ s.max_num = Num(e) - 1 /\ s.mem = b + Ahead(e) /\ s.size = Entries[e].size
       /\ s.max_num \in Nat /\ s.num \in 0 .. s.max_num
  BY ONLY <1>6, e \in CacheIds, SlabFacts
<1>13. /\ Placed(t).max_num = Num(e) - 1 /\ Placed(t).mem = b + Ahead(e)
       /\ Placed(t).size = Entries[e].size
  BY ONLY <1>6, <1>11, e \in CacheIds, SlabFacts
<1>14. PICK M : M = L \cup {o}
  OBVIOUS
<1>15. /\ UsedOf(s, M) = UsedOf(s, L) \cup {i}
       /\ \A x \in DOMAIN S : x # b => UsedOf(S[x], M) = UsedOf(S[x], L)
  <2>1. /\ b \in DOMAIN S /\ i \in 0 .. S[b].max_num - 1
        /\ SlabsRight(S, P, B, L) /\ BlocksRight(B)
    BY <1>1, <1>4, <1>10
  <2>2. UsedBy(S, b, i, L, o)
    BY <1>4, <1>5, <2>1, UsedMore
  <2> QED BY <1>4, <1>14, <2>2 DEF UsedBy
<1>16. UsedOf(Placed(t), M) = UsedOf(s, M)
  BY <1>12, <1>13 DEF UsedOf, ObjectAt
<1>17. Cardinality(UsedOf(Placed(t), M)) = Placed(t).num
  <2>1. IsFiniteSet(UsedOf(s, L))
    <3>1. UsedOf(s, L) \subseteq 0 .. s.max_num - 1
      BY DEF UsedOf
    <3>2. 0 \in Int /\ s.max_num - 1 \in Int
      BY <1>12
    <3>3. IsFiniteSet(0 .. s.max_num - 1)
      BY ONLY <3>2, FS_Interval
    <3> QED BY <3>1, <3>3, FS_Subset
  <2>2. Cardinality(UsedOf(s, L) \cup {i}) = Cardinality(UsedOf(s, L)) + 1
    BY ONLY <1>10, <2>1, FS_AddElement
  <2> QED BY <1>7, <1>11, <1>15, <1>16, <2>2
<1>18. \E new : IsChain(new, Placed(t), UsedOf(Placed(t), M))
  <2>1. Placed(t).max_num = s.max_num
    BY <1>12, <1>13
  <2>2. \E new : IsChain(new, Placed(t), UsedOf(s, L) \cup {i})
    BY ONLY <1>4, <1>6, <1>8, <1>9, <1>11, <2>1, e \in CacheIds, ChainAlloc
  <2> QED BY <1>15, <1>16, <2>2
<1>19. o \notin L
  BY <1>5, <1>10 DEF UsedOf
<1>20. PICK Q : Q = R \cup {<<o, n>>}
  OBVIOUS
<1>21. Addresses(Q) = M
  <2>1. <<o, n>>[1] = o
    OBVIOUS
  <2>2. Addresses(Q) \subseteq M
    BY <1>4, <1>14, <1>20, <2>1 DEF Addresses
  <2>3. M \subseteq Addresses(Q)
    BY <1>4, <1>14, <1>20, <2>1 DEF Addresses
  <2> QED BY <2>2, <2>3
<1>22. HeldRight(S, P, B, Q)
  <2>1. InObject(o, n, S)
    BY <1>4, <1>5, <1>10, <1>12 DEF InObject
  <2>2. \A r \in R : r[1] # o
    BY <1>4, <1>19 DEF Addresses
  <2>3. \A q \in Q : q \in R \/ q = <<o, n>>
    BY <1>20
  <2>4. \A r \in Q : /\ r = <<r[1], r[2]>> /\ r[2] \in Nat
                     /\ InObject(r[1], r[2], S) \/ InPages(r[1], r[2], S, P, B)
    BY <1>1, <2>1, <2>3 DEF HeldRight
  <2>5. ASSUME NEW r \in Q, NEW q \in Q, r[1] = q[1] PROVE r = q
    <3>1. CASE r \in R /\ q \in R
      BY <1>1, <2>5, <3>1 DEF HeldRight
    <3>2. CASE r = <<o, n>> \/ q = <<o, n>>
      BY <2>2, <2>3, <2>5, <3>2
    <3> QED BY <2>3, <3>1, <3>2
  <2> QED BY <2>4, <2>5 DEF HeldRight
<1>23. /\ Becomes(S, V, b, t) /\ CachesList(V, D, P)
       /\ \A f \in CacheIds : D[f].num = C[f].num /\ D[f].max_num = C[f].max_num
  BY <1>3, <1>4 DEF Moves
<1>24. PICK E : E = WithNum(D, e, D[e].num + 1)
  OBVIOUS
<1>25. /\ CachesList(V, E, P) /\ E[e].num = D[e].num + 1
       /\ \A f \in CacheIds : f # e => E[f].num = D[f].num
       /\ \A f \in CacheIds : E[f].max_num = D[f].max_num
  <2>1. D[e].num \in Nat
    BY <1>23 DEF CachesList
  <2>2. PICK m \in Nat : m = D[e].num + 1
    BY <2>1
  <2>3. E = WithNum(D, e, m)
    BY <1>24, <2>2
  <2>4. CachesList(V, D, P)
    BY <1>23
  <2> QED BY ONLY <2>2, <2>3, <2>4, e \in CacheIds, NumOnly
<1>26. CachesCount(V, E, P)
  <2>1. SameShape(S, V)
    BY <1>1, <1>3, <1>11, <1>23, BecomesShape
  <2>2. \A x \in DOMAIN S : S[x].num \in Nat /\ S[x].max_num \in Nat /\ S[x].num <= S[x].max_num
    BY <1>1, SlabNums
  <2>3. V[b].num = S[b].num + 1 /\ \A x \in DOMAIN S : x # b => V[x].num = S[x].num
    BY <1>4, <1>11, <1>23 DEF Becomes
  <2>4. /\ E[P[PageOf(b)]].num = C[P[PageOf(b)]].num + 1
        /\ \A f \in CacheIds : f # P[PageOf(b)] => E[f].num = C[f].num
        /\ \A f \in CacheIds : E[f].max_num = C[f].max_num
        /\ P[PageOf(b)] \in CacheIds
    BY <1>3, <1>23, <1>25
  <2>5. CachesCount(S, C, P)
    BY <1>1
  <2> QED BY ONLY <2>1, <2>2, <2>3, <2>4, <2>5, b \in DOMAIN S, CountMore
<1>27. Good(V, E, P, B, Q)
  <2>1. SlabOf(Placed(t), b, P[PageOf(b)])
    BY <1>3, <1>11
  <2>2. /\ \A x \in DOMAIN S : x # b => UsedOf(S[x], Addresses(Q)) = UsedOf(S[x], Addresses(R))
        /\ Cardinality(UsedOf(Placed(t), Addresses(Q))) = Placed(t).num
        /\ \E new : IsChain(new, Placed(t), UsedOf(Placed(t), Addresses(Q)))
    BY <1>4, <1>15, <1>17, <1>18, <1>21
  <2>3. Becomes(S, V, b, t) /\ CachesList(V, E, P)
    BY <1>23, <1>25
  <2>4. Good(S, C, P, B, R)
    OBVIOUS
  <2> QED BY ONLY <1>22, <1>26, <2>1, <2>2, <2>3, <2>4, b \in DOMAIN S, ObjectChange
<1>28. CacheAlloc(Hp(S, C, P), e) = [h |-> Hp(V, E, P), obj |-> o]
  BY <1>3, <1>4, <1>5, <1>24
<1>29. Alloced(S, C, P, B, R, e, n, V, E, o)
  BY ONLY <1>4, <1>19, <1>20, <1>27, <1>28 DEF Alloced
<1> QED BY <1>29

---------------------------------------------------------------------------
(* kalloc_cache_free. *)

\* t is slab s with object i free.
Freed(s, t, i, b, e) ==
  /\ HasOn(t) /\ t.on = s.on
  /\ ListFor(t) = ListOf(t)
  /\ SlabOf(Placed(t), b, e)
  /\ Placed(t).num = s.num - 1 /\ Placed(t).free_index = i
  /\ Placed(t).free_indexs = [s.free_indexs EXCEPT ![i] = s.free_index]

\* AfterFree makes this of a slab.
LEMMA AfterFreeIs ==
  ASSUME NEW e \in CacheIds, NEW s, NEW b \in Nat, SlabOf(s, b, e), s.num # 0,
         s.free_index \in 0 .. s.max_num, NEW i \in 0 .. s.max_num - 1,
         NEW t, t = AfterFree(s, ObjectAt(s, i))
  PROVE  Freed(s, t, i, b, e)
<1>1. PICK n, k, g, o : n = s.num /\ k = s.free_index /\ g = s.free_indexs /\ o = s.on
  OBVIOUS
<1>2. s = [start |-> b, size |-> Entries[e].size, pages |-> Entries[e].pages,
           mem |-> b + Ahead(e), max_num |-> Num(e) - 1, num |-> n,
           free_index |-> k, free_indexs |-> g, on |-> o]
  BY <1>1 DEF SlabOf
<1>3. /\ s.max_num = Num(e) - 1 /\ n \in 0 .. Num(e) - 1 /\ n # 0 /\ o = ListOf(s)
      /\ g \in [0 .. Num(e) - 2 -> 0 .. Num(e) - 1]
      /\ Num(e) \in Nat /\ Num(e) > 1 /\ i \in 0 .. Num(e) - 2 /\ k \in 0 .. Num(e) - 1
  <2>1. s.max_num = Num(e) - 1 /\ Num(e) \in Nat /\ Num(e) > 1
    BY SlabFacts, EntryFacts
  <2>2. i \in 0 .. Num(e) - 2 /\ k \in 0 .. Num(e) - 1
    BY <1>1, <2>1
  <2> QED BY <1>1, <2>1, <2>2 DEF SlabOf
<1>4. IndexOf(s, ObjectAt(s, i)) = i
  <2>1. i \in 0 .. s.max_num
    BY <1>3
  <2> QED BY <2>1, IndexPlace
<1>5. PICK m : m = [g EXCEPT ![i] = k]
  OBVIOUS
<1>6. m \in [0 .. Num(e) - 2 -> 0 .. Num(e) - 1]
  BY <1>3, <1>5
<1>7. t = [start |-> b, size |-> Entries[e].size, pages |-> Entries[e].pages,
           mem |-> b + Ahead(e), max_num |-> Num(e) - 1, num |-> n - 1,
           free_index |-> i, free_indexs |-> m, on |-> o]
  <2>1. t = [s EXCEPT !.free_indexs = m, !.free_index = i, !.num = n - 1]
    BY <1>1, <1>4, <1>5 DEF AfterFree
  <2> QED BY ONLY <1>2, <2>1
<1>8. ListFor(t) = ListOf(t)
  <2>1. s.num = n /\ t.num = n - 1 /\ t.max_num = Num(e) - 1 /\ t.on = o
    BY <1>1, <1>7
  <2>2. o # "free" /\ t.num # t.max_num
    BY <1>3, <2>1 DEF ListOf
  <2> QED BY ONLY <2>1, <2>2 DEF ListOf, ListFor
<1>9. PICK u : u = [start |-> b, size |-> Entries[e].size, pages |-> Entries[e].pages,
                    mem |-> b + Ahead(e), max_num |-> Num(e) - 1, num |-> n - 1,
                    free_index |-> i, free_indexs |-> m, on |-> ListOf(t)]
  OBVIOUS
<1>10. u = Placed(t)
  BY <1>7, <1>9 DEF Placed
<1>11. HasOn(t) /\ t.on = s.on
  BY <1>1, <1>7 DEF HasOn
<1>12. /\ u.start = b /\ u.size = Entries[e].size /\ u.pages = Entries[e].pages
       /\ u.mem = b + Ahead(e) /\ u.max_num = Num(e) - 1 /\ u.num = n - 1
       /\ u.free_index = i /\ u.free_indexs = m /\ u.on = ListOf(t)
  BY <1>9
<1>13. SlabOf(u, b, e)
  <2>1. u.on = ListOf(u)
    <3>1. t.num = n - 1 /\ t.max_num = Num(e) - 1
      BY <1>7
    <3> QED BY ONLY <1>12, <3>1 DEF ListOf
  <2>2. u.num \in 0 .. Num(e) - 1
    BY <1>3, <1>12
  <2>3. u = [start |-> b, size |-> Entries[e].size, pages |-> Entries[e].pages,
             mem |-> b + Ahead(e), max_num |-> Num(e) - 1, num |-> u.num,
             free_index |-> u.free_index, free_indexs |-> u.free_indexs, on |-> u.on]
    BY <1>9, <1>12
  <2>4. u.free_indexs \in [0 .. Num(e) - 2 -> 0 .. Num(e) - 1]
    BY <1>6, <1>12
  <2> QED BY <2>1, <2>2, <2>3, <2>4 DEF SlabOf
<1> QED BY <1>1, <1>5, <1>8, <1>10, <1>11, <1>12, <1>13 DEF Freed

\* get_slab_from_addr finds the one slab that object i of slab c is in.
LEMMA SlabFound ==
  ASSUME NEW S, NEW C, NEW P, NEW B, NEW L, SlabsRight(S, P, B, L), BlocksRight(B),
         CachesList(S, C, P), NEW c \in DOMAIN S, NEW i \in 0 .. S[c].max_num - 1,
         NEW a, a = ObjectAt(S[c], i), NEW e, e = P[PageOf(c)], S[c].num # 0
  PROVE  SlabsWith(Hp(S, C, P), e, a) = {c}
<1>1. PICK h : h = Hp(S, C, P) /\ h.slabs = S /\ h.caches = C
  BY HpFields
<1>2. e \in CacheIds
  BY SlabIs
<1>3. ASSUME NEW x \in DOMAIN S
      PROVE  /\ x \in Nat /\ x % PageSize = 0
             /\ SlabOf(S[x], x, P[PageOf(x)]) /\ P[PageOf(x)] \in CacheIds
             /\ S[x].max_num \in Nat \ {0} /\ S[x].mem \in Nat /\ S[x].size \in Nat \ {0}
             /\ S[x].on = ListOf(S[x])
  <2>1. x \in Nat /\ x % PageSize = 0 /\ SlabOf(S[x], x, P[PageOf(x)]) /\ P[PageOf(x)] \in CacheIds
    BY SlabIs
  <2>2. PICK s, f : s = S[x] /\ f = P[PageOf(x)]
    OBVIOUS
  <2>3. /\ s.max_num \in Nat \ {0} /\ s.mem \in Nat /\ s.size \in Nat \ {0}
        /\ s.on = ListOf(s)
    BY ONLY <2>1, <2>2, SlabFacts
  <2> QED BY <2>1, <2>2, <2>3
<1>4. \A l \in ListNames : Range(C[e].lists[l]) = On(S, P, e, l)
  BY <1>2, ListFacts DEF CachesList
<1>5. c \in On(S, P, e, "full") \cup On(S, P, e, "partial")
  <2>1. S[c].on \in {"full", "partial"}
    BY <1>3 DEF ListOf
  <2> QED BY <2>1 DEF On
<1>6. Covers(S[c], a)
  <2>1. PICK s \in {S[c]} : TRUE
    OBVIOUS
  <2>2. /\ s = S[c] /\ s.max_num \in Nat /\ s.mem \in Nat /\ s.size \in Nat \ {0}
        /\ i \in 0 .. s.max_num - 1
    BY <1>3, <2>1
  <2>3. PICK m \in Nat, z \in Nat, d \in Nat : m = s.max_num /\ z = s.size /\ d = m - i /\ d > 0
    BY <2>2
  <2>4. z * m = z * i + z * d /\ z * i \in Nat /\ z * d > 0
    <3>1. m = i + d /\ z > 0
      BY <2>2, <2>3
    <3>2. z * m = z * i + z * d
      BY ONLY <2>2, <2>3, <3>1
    <3>3. z * d > 0 /\ z * i \in Nat
      BY ONLY <2>2, <2>3, <3>1
    <3> QED BY <3>2, <3>3
  <2>5. a = s.mem + z * i
    BY <2>2, <2>3 DEF ObjectAt
  <2>6. PICK u, v, w \in Nat : u = z * i /\ v = z * d /\ w = z * m
    BY <2>2, <2>3
  <2>7. a >= s.mem /\ a < s.mem + s.size * s.max_num
    BY ONLY <2>2, <2>3, <2>4, <2>5, <2>6
  <2> QED BY <2>2, <2>7 DEF Covers
<1>7. a \in Nat /\ PageOf(a) \in PagesOf(c, e)
  <2>1. i \in 0 .. S[c].max_num
    BY <1>3
  <2>2. ObjectAt(S[c], i) \in Nat
    BY <1>3, <2>1, ObjectPlace
  <2>3. PageOf(ObjectAt(S[c], i)) \in PagesOf(c, P[PageOf(c)])
    BY <2>1, OneObject
  <2> QED BY <2>2, <2>3
<1>8. ASSUME NEW x \in DOMAIN S, P[PageOf(x)] = e, Covers(S[x], a) PROVE x = c
  <2>1. PICK s : s = S[x]
    OBVIOUS
  <2>2. /\ x \in Nat /\ x % PageSize = 0 /\ SlabOf(s, x, e)
        /\ s.max_num \in Nat /\ s.mem \in Nat /\ s.size \in Nat
    BY <1>3, <1>8, <2>1
  <2>3. s.mem <= a /\ a < s.mem + s.size * (s.max_num + 1)
    <3>1. s.size * (s.max_num + 1) = s.size * s.max_num + s.size
      BY <2>2
    <3>2. s.mem <= a /\ a < s.mem + s.size * s.max_num
      BY <1>8, <2>1 DEF Covers
    <3>3. PICK w \in Nat : w = s.size * s.max_num
      BY <2>2
    <3> QED BY ONLY <1>7, <2>2, <3>1, <3>2, <3>3
  <2>4. PageOf(a) \in PagesOf(x, e)
    BY ONLY <1>2, <1>7, <2>2, <2>3, ObjectPages
  <2> QED BY <1>7, <1>8, <2>4, OneSlab
<1>9. SlabsWith(h, e, a) = {x \in On(S, P, e, "full") \cup On(S, P, e, "partial") : Covers(S[x], a)}
  BY <1>1, <1>4 DEF SlabsWith, ListNames
<1>10. \A x \in On(S, P, e, "full") \cup On(S, P, e, "partial") : x \in DOMAIN S /\ P[PageOf(x)] = e
  BY DEF On
<1>11. SlabsWith(h, e, a) \subseteq {c}
  BY <1>8, <1>9, <1>10
<1>12. {c} \subseteq SlabsWith(h, e, a)
  BY <1>5, <1>6, <1>9
<1> QED BY <1>1, <1>11, <1>12

\* kalloc_cache_free of entry e gives address a back to slab b.
FreeFrom(S, C, P, e, a, b, V, D) ==
  /\ Moves(S, C, P, V, D, b, AfterFree(S[b], a))
  /\ CacheFree(Hp(S, C, P), e, a) = Hp(V, WithNum(D, e, D[e].num - 1), P)

\* It does so with the object of a slab that has one in use.
LEMMA FreeIs ==
  ASSUME NEW S, NEW C, NEW P, NEW B, NEW L, SlabsRight(S, P, B, L), BlocksRight(B),
         CachesList(S, C, P), NEW c \in DOMAIN S, NEW i \in 0 .. S[c].max_num - 1,
         NEW a, a = ObjectAt(S[c], i), NEW e, e = P[PageOf(c)], S[c].num # 0, C[e].num # 0
  PROVE  \E V, D : FreeFrom(S, C, P, e, a, c, V, D)
<1>0. PICK h : h = Hp(S, C, P) /\ h.slabs = S /\ h.caches = C
  BY HpFields
<1>1. SlabsWith(h, e, a) = {c}
  BY <1>0, SlabFound
<1>2. c \in Nat /\ e \in CacheIds /\ SlabOf(S[c], c, e) /\ SlabRight(S[c], c, e, P, B, L)
  BY SlabIs
<1>3. PICK ch : IsChain(ch, S[c], UsedOf(S[c], L))
  BY <1>2 DEF SlabRight
<1>4. PICK s, t : s = S[c] /\ t = AfterFree(s, a)
  OBVIOUS
<1>5. s.free_index \in 0 .. s.max_num
  <2>1. s.max_num \in Nat /\ s.num \in 0 .. s.max_num
    BY ONLY <1>2, <1>4, SlabFacts
  <2>2. 0 \in 0 .. s.max_num - s.num
    BY <2>1
  <2> QED BY <1>3, <1>4, <2>2 DEF IsChain
<1>6. HasOn(t) /\ t.on = S[c].on /\ ListFor(t) = ListOf(t)
  <2>1. /\ e \in CacheIds /\ c \in Nat /\ SlabOf(s, c, e) /\ s.num # 0
        /\ i \in 0 .. s.max_num - 1 /\ t = AfterFree(s, ObjectAt(s, i))
    BY <1>2, <1>4
  <2>2. Freed(s, t, i, c, e)
    BY ONLY <1>5, <2>1, AfterFreeIs
  <2> QED BY <1>4, <2>2 DEF Freed
<1>7. PICK T : T = [S EXCEPT ![c] = t]
  OBVIOUS
<1>8. PICK g : g = Hp(T, C, P)
  OBVIOUS
<1>9. PICK r : r = Update(g, e, c)
  OBVIOUS
<1>10. PICK V, D : r = Hp(V, D, P) /\ Moves(S, C, P, V, D, c, t)
  <2>1. e = P[PageOf(c)] /\ SlabsRight(S, P, B, L) /\ CachesList(S, C, P) /\ c \in DOMAIN S
    OBVIOUS
  <2> QED BY ONLY <1>6, <1>7, <1>8, <1>9, <2>1, UpdateFacts
<1>11. CacheFree(h, e, a) = Hp(V, WithNum(D, e, D[e].num - 1), P)
  <2>1. (CHOOSE x \in SlabsWith(h, e, a) : TRUE) = c
    BY <1>1
  <2>2. CacheFree(h, e, a) =
          [Update([h EXCEPT !.slabs[c] = AfterFree(@, a)], e, c) EXCEPT !.caches[e].num = @ - 1]
    BY <1>0, <1>1, <2>1 DEF CacheFree
  <2>3. [r EXCEPT !.caches[e].num = @ - 1] = Hp(V, WithNum(D, e, D[e].num - 1), P)
    <3>1. r = Hp(V, D, P)
      BY <1>10
    <3> QED BY ONLY <3>1, HpFields DEF WithNum
  <2>4. [h EXCEPT !.slabs[c] = AfterFree(@, a)] = g
    <3>1. [S EXCEPT ![c] = AfterFree(@, a)] = T
      BY <1>4, <1>7
    <3>2. [h EXCEPT !.slabs = T] = g
      BY ONLY <1>0, <1>8, HpFields
    <3> QED BY ONLY <1>0, <3>1, <3>2
  <2> QED BY ONLY <1>9, <2>2, <2>3, <2>4
<1>12. FreeFrom(S, C, P, e, a, c, V, D)
  BY ONLY <1>0, <1>4, <1>10, <1>11 DEF FreeFrom
<1> QED BY <1>12

\* The address of a held object is one of a slab of the cache that its page is
\* linked to.
LEMMA HeldObject ==
  ASSUME NEW S, NEW C, NEW P, NEW B, NEW R, Good(S, C, P, B, R), NEW r \in R,
         P[PageOf(r[1])] # None
  PROVE  \E c \in DOMAIN S : \E i \in 0 .. S[c].max_num - 1 :
           r[1] = ObjectAt(S[c], i) /\ P[PageOf(r[1])] = P[PageOf(c)]
<1>1. SlabsRight(S, P, B, Addresses(R)) /\ BlocksRight(B) /\ HeldRight(S, P, B, R)
  BY DEF Good
<1>2. InObject(r[1], r[2], S)
  BY <1>1 DEF HeldRight, InPages
<1>3. PICK c \in DOMAIN S : \E i \in 0 .. S[c].max_num - 1 : r[1] = ObjectAt(S[c], i)
  BY <1>2 DEF InObject
<1>7. PICK i \in 0 .. S[c].max_num - 1 : r[1] = ObjectAt(S[c], i)
  BY <1>3
<1>4. S[c].max_num \in Nat
  BY <1>1, SlabNums
<1>5. i \in 0 .. S[c].max_num
  BY <1>4
<1>6. P[PageOf(ObjectAt(S[c], i))] = P[PageOf(c)]
  BY <1>1, <1>5, OneObject
<1> QED BY <1>6, <1>7

\* A free of an object that is held.
LEMMA FreeGood ==
  ASSUME NEW S, NEW C, NEW P, NEW B, NEW R, Good(S, C, P, B, R), NEW r \in R,
         P[PageOf(r[1])] # None
  PROVE  \E V, D : /\ CacheFree(Hp(S, C, P), P[PageOf(r[1])], r[1]) = Hp(V, D, P)
                   /\ Good(V, D, P, B, R \ {r})
<1>1. /\ SlabsRight(S, P, B, Addresses(R)) /\ CachesList(S, C, P) /\ CachesCount(S, C, P)
      /\ BlocksRight(B) /\ HeldRight(S, P, B, R)
  BY DEF Good
<1>0. PICK b \in DOMAIN S : \E i \in 0 .. S[b].max_num - 1 :
        r[1] = ObjectAt(S[b], i) /\ P[PageOf(r[1])] = P[PageOf(b)]
  BY HeldObject
<1>2. PICK i \in 0 .. S[b].max_num - 1 : r[1] = ObjectAt(S[b], i) /\ P[PageOf(r[1])] = P[PageOf(b)]
  BY <1>0
<1>3. PICK s, e, L, o : s = S[b] /\ e = P[PageOf(b)] /\ L = Addresses(R) /\ o = r[1]
  OBVIOUS
<1>4. b \in Nat /\ e \in CacheIds /\ SlabOf(s, b, e) /\ SlabRight(s, b, e, P, B, L)
  BY <1>1, <1>3, SlabIs
<1>5. PICK t : t = AfterFree(s, o)
  OBVIOUS
<1>6. Cardinality(UsedOf(s, L)) = s.num
  BY <1>4 DEF SlabRight
<1>7. PICK ch : IsChain(ch, s, UsedOf(s, L))
  BY <1>4 DEF SlabRight
<1>8. /\ s.max_num = Num(e) - 1 /\ s.mem = b + Ahead(e) /\ s.size = Entries[e].size
      /\ s.max_num \in Nat /\ s.num \in 0 .. s.max_num
  BY ONLY <1>4, SlabFacts
<1>9. i \in 0 .. s.max_num - 1 /\ o = ObjectAt(s, i)
  BY <1>2, <1>3
<1>10. i \in UsedOf(s, L)
  <2>1. o \in L
    BY <1>3 DEF Addresses
  <2> QED BY <1>9, <2>1 DEF UsedOf
<1>11. IsFiniteSet(UsedOf(s, L))
  <2>1. UsedOf(s, L) \subseteq 0 .. s.max_num - 1
    BY DEF UsedOf
  <2>2. 0 \in Int /\ s.max_num - 1 \in Int
    BY <1>8
  <2>3. IsFiniteSet(0 .. s.max_num - 1)
    BY ONLY <2>2, FS_Interval
  <2> QED BY <2>1, <2>3, FS_Subset
<1>12. /\ Cardinality(UsedOf(s, L) \ {i}) = Cardinality(UsedOf(s, L)) - 1
       /\ Cardinality(UsedOf(s, L) \ {i}) \in Nat
  <2>1. IsFiniteSet(UsedOf(s, L) \ {i})
    BY ONLY <1>10, <1>11, FS_RemoveElement
  <2> QED BY ONLY <1>10, <1>11, <2>1, FS_RemoveElement, FS_CardinalityType
<1>13. s.num # 0
  BY <1>6, <1>8, <1>12
<1>14. s.free_index \in 0 .. s.max_num
  <2>1. 0 \in 0 .. s.max_num - s.num
    BY <1>8
  <2> QED BY <1>7, <2>1 DEF IsChain
<1>15. /\ SlabOf(Placed(t), b, e)
       /\ Placed(t).num = s.num - 1 /\ Placed(t).free_index = i
       /\ Placed(t).free_indexs = [s.free_indexs EXCEPT ![i] = s.free_index]
  <2>1. t = AfterFree(s, ObjectAt(s, i))
    BY <1>5, <1>9
  <2>2. Freed(s, t, i, b, e)
    BY ONLY <1>4, <1>9, <1>13, <1>14, <2>1, AfterFreeIs
  <2> QED BY ONLY <2>2 DEF Freed
<1>16. /\ Placed(t).max_num = Num(e) - 1 /\ Placed(t).mem = b + Ahead(e)
       /\ Placed(t).size = Entries[e].size
  BY ONLY <1>4, <1>15, SlabFacts
<1>17. PICK M : M = L \ {o}
  OBVIOUS
<1>18. /\ UsedOf(s, M) = UsedOf(s, L) \ {i}
       /\ \A x \in DOMAIN S : x # b => UsedOf(S[x], M) = UsedOf(S[x], L)
  <2>1. UsedBy(S, b, i, L, o)
    BY <1>1, <1>3, <1>9, UsedMore
  <2> QED BY <1>3, <1>17, <2>1 DEF UsedBy
<1>19. UsedOf(Placed(t), M) = UsedOf(s, M)
  BY <1>8, <1>16 DEF UsedOf, ObjectAt
<1>20. Cardinality(UsedOf(Placed(t), M)) = Placed(t).num
  BY <1>6, <1>12, <1>15, <1>18, <1>19
<1>21. \E new : IsChain(new, Placed(t), UsedOf(Placed(t), M))
  <2>1. Placed(t).max_num = s.max_num
    BY <1>8, <1>16
  <2>2. \E new : IsChain(new, Placed(t), UsedOf(s, L) \ {i})
    BY ONLY <1>4, <1>7, <1>9, <1>10, <1>13, <1>15, <2>1, ChainFree
  <2> QED BY <1>18, <1>19, <2>2
<1>22. PICK Q : Q = R \ {r}
  OBVIOUS
<1>23. Addresses(Q) = M
  <2>1. \A q \in R : q[1] = o => q = r
    BY <1>1, <1>3 DEF HeldRight
  <2>2. Addresses(Q) \subseteq M
    BY <1>3, <1>17, <1>22, <2>1 DEF Addresses
  <2>3. M \subseteq Addresses(Q)
    BY <1>3, <1>17, <1>22 DEF Addresses
  <2> QED BY <2>2, <2>3
<1>24. HeldRight(S, P, B, Q)
  BY <1>1, <1>22 DEF HeldRight
<1>25. C[e].num # 0
  <2>1. /\ <<b, 1>> \in NumPlaces(S, P, e) /\ NumPlaces(S, P, e) \subseteq MaxPlaces(S, P, e)
        /\ IsFiniteSet(MaxPlaces(S, P, e)) /\ C[e].num = Cardinality(NumPlaces(S, P, e))
    <3>1. <<b, 1>> \in NumPlaces(S, P, e)
      BY <1>3, <1>8, <1>13 DEF NumPlaces
    <3>2. NumPlaces(S, P, e) \subseteq MaxPlaces(S, P, e)
      <4>1. \A x \in DOMAIN S : S[x].num \in Nat /\ S[x].max_num \in Nat /\ S[x].num <= S[x].max_num
        BY <1>1, SlabNums
      <4> QED BY <4>1 DEF NumPlaces, MaxPlaces
    <3> QED BY <1>1, <1>4, <3>1, <3>2 DEF CachesCount
  <2>2. IsFiniteSet(NumPlaces(S, P, e))
    BY <2>1, FS_Subset
  <2> QED BY ONLY <2>1, <2>2, FS_EmptySet
<1>26. PICK V, D : FreeFrom(S, C, P, e, o, b, V, D)
  <2>1. /\ SlabsRight(S, P, B, L) /\ BlocksRight(B) /\ CachesList(S, C, P) /\ b \in DOMAIN S
        /\ i \in 0 .. S[b].max_num - 1 /\ o = ObjectAt(S[b], i) /\ e = P[PageOf(b)]
        /\ S[b].num # 0
    BY <1>1, <1>3, <1>9, <1>13
  <2> QED BY ONLY <1>25, <2>1, FreeIs
<1>27. /\ CacheFree(Hp(S, C, P), e, o) = Hp(V, WithNum(D, e, D[e].num - 1), P)
       /\ Becomes(S, V, b, t) /\ CachesList(V, D, P)
       /\ \A f \in CacheIds : D[f].num = C[f].num /\ D[f].max_num = C[f].max_num
  BY <1>3, <1>5, <1>26 DEF FreeFrom, Moves
<1>28. PICK E : E = WithNum(D, e, D[e].num - 1)
  OBVIOUS
<1>29. /\ CachesList(V, E, P) /\ E[e].num = D[e].num - 1
       /\ \A f \in CacheIds : f # e => E[f].num = D[f].num
       /\ \A f \in CacheIds : E[f].max_num = D[f].max_num
  <2>1. D[e].num \in Nat /\ D[e].num # 0
    BY <1>4, <1>25, <1>27 DEF CachesList
  <2>2. PICK m \in Nat : m = D[e].num - 1
    BY <2>1
  <2>3. E = WithNum(D, e, m)
    BY <1>28, <2>2
  <2>4. CachesList(V, D, P)
    BY <1>27
  <2> QED BY ONLY <1>4, <2>2, <2>3, <2>4, NumOnly
<1>30. CachesCount(V, E, P)
  <2>1. SameShape(S, V)
    BY <1>1, <1>3, <1>15, <1>27, BecomesShape
  <2>2. \A x \in DOMAIN S : S[x].num \in Nat /\ S[x].max_num \in Nat /\ S[x].num <= S[x].max_num
    BY <1>1, SlabNums
  <2>3. S[b].num # 0 /\ V[b].num = S[b].num - 1 /\ \A x \in DOMAIN S : x # b => V[x].num = S[x].num
    BY <1>3, <1>13, <1>15, <1>27 DEF Becomes
  <2>4. /\ E[P[PageOf(b)]].num = C[P[PageOf(b)]].num - 1
        /\ \A f \in CacheIds : f # P[PageOf(b)] => E[f].num = C[f].num
        /\ \A f \in CacheIds : E[f].max_num = C[f].max_num
        /\ P[PageOf(b)] \in CacheIds
    BY <1>3, <1>4, <1>27, <1>29
  <2>5. CachesCount(S, C, P) /\ b \in DOMAIN S
    BY <1>1
  <2> QED BY ONLY <2>1, <2>2, <2>3, <2>4, <2>5, CountLess
<1>31. Good(V, E, P, B, Q)
  <2>1. SlabOf(Placed(t), b, P[PageOf(b)])
    BY <1>3, <1>15
  <2>2. /\ \A x \in DOMAIN S : x # b => UsedOf(S[x], Addresses(Q)) = UsedOf(S[x], Addresses(R))
        /\ Cardinality(UsedOf(Placed(t), Addresses(Q))) = Placed(t).num
        /\ \E new : IsChain(new, Placed(t), UsedOf(Placed(t), Addresses(Q)))
    BY <1>3, <1>18, <1>20, <1>21, <1>23
  <2>3. Becomes(S, V, b, t) /\ CachesList(V, E, P)
    BY <1>27, <1>29
  <2>4. Good(S, C, P, B, R) /\ b \in DOMAIN S
    OBVIOUS
  <2> QED BY ONLY <1>24, <1>30, <2>1, <2>2, <2>3, <2>4, ObjectChange
<1>32. CacheFree(Hp(S, C, P), P[PageOf(r[1])], r[1]) = Hp(V, E, P)
  BY <1>2, <1>3, <1>27, <1>28
<1> WITNESS V, E
<1> QED BY <1>22, <1>31, <1>32

---------------------------------------------------------------------------
(* Blocks that are taken and given. *)

\* The block of order k at page p is none of B.
FreeBlock(p, k, B) == /\ p \in Pages /\ k \in Orders /\ Pool!Block(p, k) \subseteq Pages
                      /\ \A x \in B : Pool!Block(p, k) \cap Pool!Block(x[1], x[2]) = {}

\* The blocks stay apart with it, and it is at least its first page.
LEMMA BlockAdded ==
  ASSUME NEW B, BlocksRight(B), NEW p, NEW k, FreeBlock(p, k, B)
  PROVE  /\ BlocksRight(B \cup {<<p, k>>})
         /\ p \in Pool!Block(p, k) /\ p \in Nat /\ Size[k] \in Nat \ {0}
<1>1. p \in Nat /\ k \in Orders /\ Size[k] \in Nat \ {0}
  BY FitAssumption DEF FreeBlock
<1>2. p \in Pool!Block(p, k)
  BY <1>1 DEF Pool!Block
<1>3. ASSUME NEW x \in B \cup {<<p, k>>}, NEW y \in B \cup {<<p, k>>}, x # y
      PROVE  Pool!Block(x[1], x[2]) \cap Pool!Block(y[1], y[2]) = {}
  <2>1. CASE x \in B /\ y \in B
    BY <1>3, <2>1 DEF BlocksRight
  <2>2. CASE x = <<p, k>> /\ y \in B
    BY <2>2 DEF FreeBlock
  <2>3. CASE x \in B /\ y = <<p, k>>
    BY <2>3 DEF FreeBlock
  <2> QED BY <1>3, <2>1, <2>2, <2>3
<1>4. B \cup {<<p, k>>} \subseteq Pages \X Orders
  BY DEF FreeBlock, BlocksRight
<1>5. \A x \in B \cup {<<p, k>>} : Pool!Block(x[1], x[2]) \subseteq Pages
  BY DEF FreeBlock, BlocksRight
<1> QED BY ONLY <1>1, <1>2, <1>3, <1>4, <1>5 DEF BlocksRight

\* A page of a free block is in no slab, is linked to no cache and has no
\* address that is held.
LEMMA FreePage ==
  ASSUME NEW S, NEW C, NEW P, NEW B, NEW R, Good(S, C, P, B, R), NEW p, NEW k, FreeBlock(p, k, B),
         NEW q \in Pool!Block(p, k)
  PROVE  /\ \A x \in DOMAIN S : q \notin PagesOf(x, P[PageOf(x)])
         /\ P[q] = None
         /\ \A r \in R : q # PageOf(r[1])
<1>1. SlabsRight(S, P, B, Addresses(R)) /\ LinksRight(S, P) /\ BlocksRight(B) /\ HeldRight(S, P, B, R)
  BY DEF Good
<1>2. ASSUME NEW x \in DOMAIN S PROVE q \notin PagesOf(x, P[PageOf(x)])
  <2>1. SlabRight(S[x], x, P[PageOf(x)], P, B, Addresses(R))
    BY <1>1, SlabIs
  <2>2. PICK y : y = <<PageOf(x), OrderOf(P[PageOf(x)])>> /\ y \in B
    BY <2>1 DEF SlabRight
  <2>3. PagesOf(x, P[PageOf(x)]) \subseteq Pool!Block(PageOf(x), OrderOf(P[PageOf(x)]))
    BY <1>1, <2>1, PagesInBlock
  <2>4. y[1] = PageOf(x) /\ y[2] = OrderOf(P[PageOf(x)])
    BY <2>2
  <2>5. q \notin Pool!Block(y[1], y[2])
    BY <2>2 DEF FreeBlock
  <2> QED BY <2>3, <2>4, <2>5
<1>3. P[q] = None
  <2>1. q \in Pages
    BY DEF FreeBlock
  <2> QED BY <1>1, <1>2, <2>1 DEF LinksRight
<1>4. ASSUME NEW r \in R PROVE q # PageOf(r[1])
  <2>1. CASE InObject(r[1], r[2], S)
    <3>1. PICK x \in DOMAIN S : \E i \in 0 .. S[x].max_num - 1 : r[1] = ObjectAt(S[x], i)
      BY <2>1 DEF InObject
    <3>2. PICK i \in 0 .. S[x].max_num - 1 : r[1] = ObjectAt(S[x], i)
      BY <3>1
    <3>3. S[x].max_num \in Nat
      BY <1>1, SlabNums
    <3>4. i \in 0 .. S[x].max_num
      BY <3>3
    <3>5. PageOf(ObjectAt(S[x], i)) \in PagesOf(x, P[PageOf(x)])
      BY <1>1, <3>4, OneObject
    <3> QED BY <1>2, <3>2, <3>5
  <2>2. CASE InPages(r[1], r[2], S, P, B)
    <3>1. PICK j \in Orders : <<PageOf(r[1]), j>> \in B
      BY <2>2 DEF InPages
    <3>2. PICK y : y = <<PageOf(r[1]), j>> /\ y \in B /\ y[1] = PageOf(r[1]) /\ y[2] = j
      BY <3>1
    <3>3. PageOf(r[1]) \in Nat
      BY <2>2, PageStart DEF InPages
    <3>4. Size[j] \in Nat \ {0}
      BY FitAssumption
    <3>5. PageOf(r[1]) \in Pool!Block(y[1], y[2])
      BY <3>2, <3>3, <3>4 DEF Pool!Block
    <3>6. q \notin Pool!Block(y[1], y[2])
      BY <3>2 DEF FreeBlock
    <3> QED BY <3>5, <3>6
  <2> QED BY <1>1, <2>1, <2>2 DEF HeldRight
<1> QED BY <1>2, <1>3, <1>4

\* More blocks leave right what was.
LEMMA MoreBlocks ==
  ASSUME NEW S, NEW P, NEW B, NEW L, SlabsRight(S, P, B, L), NEW E, B \subseteq E
  PROVE  /\ SlabsRight(S, P, E, L)
         /\ \A a, n : InPages(a, n, S, P, B) => InPages(a, n, S, P, E)
<1>1. ASSUME NEW x \in DOMAIN S PROVE SlabRight(S[x], x, P[PageOf(x)], P, E, L)
  BY DEF SlabsRight, SlabRight
<1>2. \A a, n : InPages(a, n, S, P, B) => InPages(a, n, S, P, E)
  BY DEF InPages
<1> QED BY <1>1, <1>2 DEF SlabsRight

\* An address whose page is in no slab is that of no object.
LEMMA NoObject ==
  ASSUME NEW S, NEW P, NEW B, NEW L, SlabsRight(S, P, B, L), BlocksRight(B), NEW a,
         \A x \in DOMAIN S : PageOf(a) \notin PagesOf(x, P[PageOf(x)])
  PROVE  \A x \in DOMAIN S : UsedOf(S[x], L \cup {a}) = UsedOf(S[x], L)
<1> TAKE x \in DOMAIN S
<1>1. S[x].max_num \in Nat
  BY SlabNums
<1>2. ASSUME NEW i \in 0 .. S[x].max_num - 1 PROVE ObjectAt(S[x], i) # a
  <2>1. i \in 0 .. S[x].max_num
    BY <1>1
  <2>2. PageOf(ObjectAt(S[x], i)) \in PagesOf(x, P[PageOf(x)])
    BY <2>1, OneObject
  <2> QED BY <2>2
<1> QED BY <1>2 DEF UsedOf

\* Where the same objects are in use the slabs stay right.
LEMMA SameUsed ==
  ASSUME NEW S, NEW P, NEW B, NEW L, NEW M, SlabsRight(S, P, B, L),
         \A x \in DOMAIN S : UsedOf(S[x], M) = UsedOf(S[x], L)
  PROVE  SlabsRight(S, P, B, M)
<1> SUFFICES ASSUME NEW x \in DOMAIN S PROVE SlabRight(S[x], x, P[PageOf(x)], P, B, M)
  BY DEF SlabsRight
<1>1. SlabRight(S[x], x, P[PageOf(x)], P, B, L)
  BY DEF SlabsRight
<1> QED BY <1>1 DEF SlabRight

\* The addresses when one more is held.
LEMMA OneAddress ==
  ASSUME NEW R, NEW a, NEW n
  PROVE  Addresses(R \cup {<<a, n>>}) = Addresses(R) \cup {a}
<1>1. <<a, n>>[1] = a
  OBVIOUS
<1>2. Addresses(R \cup {<<a, n>>}) \subseteq Addresses(R) \cup {a}
  BY <1>1 DEF Addresses
<1>3. Addresses(R) \cup {a} \subseteq Addresses(R \cup {<<a, n>>})
  BY <1>1 DEF Addresses
<1> QED BY <1>2, <1>3

\* One more that is held is right when nothing with its address is.
LEMMA OneHeld ==
  ASSUME NEW S, NEW P, NEW B, NEW R, HeldRight(S, P, B, R), NEW a, NEW n \in Nat,
         a \notin Addresses(R), InObject(a, n, S) \/ InPages(a, n, S, P, B)
  PROVE  HeldRight(S, P, B, R \cup {<<a, n>>})
<1>1. PICK Q : Q = R \cup {<<a, n>>}
  OBVIOUS
<1>2. \A r \in R : r[1] # a
  BY DEF Addresses
<1>3. \A q \in Q : q \in R \/ q = <<a, n>>
  BY <1>1
<1>4. \A r \in Q : /\ r = <<r[1], r[2]>> /\ r[2] \in Nat
                   /\ InObject(r[1], r[2], S) \/ InPages(r[1], r[2], S, P, B)
  BY <1>3 DEF HeldRight
<1>5. ASSUME NEW r \in Q, NEW q \in Q, r[1] = q[1] PROVE r = q
  <2>1. CASE r \in R /\ q \in R
    BY <1>5, <2>1 DEF HeldRight
  <2>2. CASE r = <<a, n>> \/ q = <<a, n>>
    BY <1>2, <1>3, <1>5, <2>2
  <2> QED BY <1>3, <2>1, <2>2
<1> QED BY <1>1, <1>4, <1>5 DEF HeldRight

\* kalloc_pages: a block that is taken whole.
LEMMA TakeGood ==
  ASSUME NEW S, NEW C, NEW P, NEW B, NEW R, Good(S, C, P, B, R), NEW p, NEW k, FreeBlock(p, k, B),
         NEW n \in Nat, n <= Size[k] * PageSize
  PROVE  /\ Good(S, C, P, B \cup {<<p, k>>}, R \cup {<<p * PageSize, n>>})
         /\ p * PageSize \notin Addresses(R)
<1>1. /\ SlabsRight(S, P, B, Addresses(R)) /\ CachesList(S, C, P) /\ CachesCount(S, C, P)
      /\ LinksRight(S, P) /\ BlocksRight(B) /\ HeldRight(S, P, B, R)
  BY DEF Good
<1>2. PICK a, E : a = p * PageSize /\ E = B \cup {<<p, k>>}
  OBVIOUS
<1>3. /\ BlocksRight(E) /\ p \in Pool!Block(p, k) /\ p \in Nat
  BY <1>1, <1>2, BlockAdded
<1>4. a \in Nat /\ a % PageSize = 0 /\ PageOf(a) = p
  BY <1>2, <1>3, SlabAssumption, Multiple DEF PageOf
<1>5. /\ \A x \in DOMAIN S : PageOf(a) \notin PagesOf(x, P[PageOf(x)])
      /\ P[PageOf(a)] = None
      /\ \A r \in R : PageOf(a) # PageOf(r[1])
  BY <1>3, <1>4, FreePage
<1>6. a \notin Addresses(R)
  BY <1>5 DEF Addresses
<1>7. SlabsRight(S, P, E, Addresses(R)) /\ \A r \in R : InPages(r[1], r[2], S, P, B) => InPages(r[1], r[2], S, P, E)
  BY <1>1, <1>2, MoreBlocks
<1>8. SlabsRight(S, P, E, Addresses(R) \cup {a})
  BY <1>3, <1>5, <1>7, NoObject, SameUsed
<1>9. HeldRight(S, P, E, R)
  BY <1>1, <1>7 DEF HeldRight
<1>10. InPages(a, n, S, P, E)
  <2>1. a \notin DOMAIN S
    <3>1. SUFFICES ASSUME a \in DOMAIN S PROVE FALSE
      OBVIOUS
    <3>2. PageOf(a) \in PagesOf(a, P[PageOf(a)])
      BY <1>1, <3>1, SlabIs, PagesInBlock
    <3> QED BY <1>5, <3>1, <3>2
  <2>2. k \in Orders /\ <<PageOf(a), k>> \in E
    BY <1>2, <1>4 DEF FreeBlock
  <2> QED BY <1>4, <1>5, <2>1, <2>2 DEF InPages
<1>11. HeldRight(S, P, E, R \cup {<<a, n>>})
  BY <1>6, <1>9, <1>10, OneHeld
<1>12. Addresses(R \cup {<<a, n>>}) = Addresses(R) \cup {a}
  BY OneAddress
<1>13. Good(S, C, P, E, R \cup {<<a, n>>})
  BY ONLY <1>1, <1>3, <1>8, <1>11, <1>12 DEF Good
<1> QED BY <1>2, <1>6, <1>13

---------------------------------------------------------------------------
(* cache_expand. *)

\* s is an empty slab of entry e, on no list yet, that the asserts accept.
Fresh(s, b, e) ==
  /\ SlabOf(Placed(s), b, e)
  /\ Placed(s).num = 0 /\ Placed(s).free_index = 0 /\ Placed(s).on = "free"
  /\ Placed(s).free_indexs = [i \in 0 .. Num(e) - 2 |-> i + 1]
  /\ Placed(s) = [s EXCEPT !.on = "free"]
  /\ Verified(s) /\ s.max_num > 0 /\ s.max_num = Num(e) - 1
  /\ PageOf(s.mem) = PageOf(b) /\ s.pages = Entries[e].pages

\* kalloc_slab_init makes such a slab.
LEMMA NewSlabIs ==
  ASSUME NEW e \in CacheIds, NEW b \in Nat, b % PageSize = 0,
         NEW s, s = NewSlab(b, Entries[e].size, Entries[e].pages)
  PROVE  Fresh(s, b, e)
<1>1. /\ Entries[e].size \in Nat \ {0} /\ Entries[e].pages \in Nat \ {0}
      /\ Num(e) \in Nat /\ Num(e) > 1 /\ Ahead(e) \in Nat /\ Ahead(e) < PageSize
      /\ PageSize \in Nat \ {0}
  BY EntryFacts
<1>2. s = [start |-> b, size |-> Entries[e].size, pages |-> Entries[e].pages,
           mem |-> b + Ahead(e), max_num |-> Num(e) - 1, num |-> 0, free_index |-> 0,
           free_indexs |-> [i \in 0 .. Num(e) - 2 |-> i + 1], on |-> "none"]
  BY DEF NewSlab, Num, Ahead
<1>3. ListOf(s) = "free"
  BY <1>1, <1>2 DEF ListOf
<1>4. Placed(s) = [s EXCEPT !.on = "free"]
  BY <1>3 DEF Placed
<1>5. PICK t : t = Placed(s)
  OBVIOUS
<1>6. t = [start |-> b, size |-> Entries[e].size, pages |-> Entries[e].pages,
           mem |-> b + Ahead(e), max_num |-> Num(e) - 1, num |-> 0, free_index |-> 0,
           free_indexs |-> [i \in 0 .. Num(e) - 2 |-> i + 1], on |-> "free"]
  <2>1. PICK fi : fi = [i \in 0 .. Num(e) - 2 |-> i + 1]
    OBVIOUS
  <2>2. PICK z, g, m, k : /\ z = Entries[e].size /\ g = Entries[e].pages /\ m = b + Ahead(e)
                          /\ k = Num(e) - 1
    OBVIOUS
  <2>3. s = [start |-> b, size |-> z, pages |-> g, mem |-> m, max_num |-> k, num |-> 0,
             free_index |-> 0, free_indexs |-> fi, on |-> "none"]
    BY ONLY <1>2, <2>1, <2>2
  <2>4. t = [s EXCEPT !.on = "free"]
    BY ONLY <1>4, <1>5
  <2>5. t = [start |-> b, size |-> z, pages |-> g, mem |-> m, max_num |-> k, num |-> 0,
             free_index |-> 0, free_indexs |-> fi, on |-> "free"]
    BY ONLY <2>3, <2>4
  <2> QED BY ONLY <2>1, <2>2, <2>5
<1>7. /\ t.num = 0 /\ t.free_index = 0 /\ t.on = "free" /\ t.max_num = Num(e) - 1
      /\ t.free_indexs = [i \in 0 .. Num(e) - 2 |-> i + 1]
  BY <1>6
<1>8. t.free_indexs \in [0 .. Num(e) - 2 -> 0 .. Num(e) - 1]
  BY <1>1, <1>7
<1>9. t = [start |-> b, size |-> Entries[e].size, pages |-> Entries[e].pages,
           mem |-> b + Ahead(e), max_num |-> Num(e) - 1, num |-> t.num,
           free_index |-> t.free_index, free_indexs |-> t.free_indexs, on |-> t.on]
  BY <1>6, <1>7
<1>10. ListOf(t) = "free"
  BY <1>1, <1>7 DEF ListOf
<1>11. SlabOf(t, b, e)
  BY ONLY <1>1, <1>7, <1>8, <1>9, <1>10 DEF SlabOf
<1>12. s.size = Entries[e].size /\ s.mem = b + Ahead(e) /\ s.start = b /\ s.max_num = Num(e) - 1
       /\ s.pages = Entries[e].pages
  BY <1>2
<1>13. PageOf(s.mem) = PageOf(b)
  <2>1. PICK q \in Nat : b = q * PageSize /\ PageOf(b) = q
    BY <1>1, Divided DEF PageOf
  <2>2. PICK a \in Nat : a = s.mem
    BY <1>1, <1>12
  <2>3. q * PageSize <= a /\ a < q * PageSize + PageSize
    BY <1>1, <1>12, <2>1, <2>2
  <2>4. a \div PageSize = q
    BY <1>1, <2>3, Within
  <2> QED BY <2>1, <2>2, <2>4 DEF PageOf
<1>14. Verified(s)
  BY <1>1, <1>12, <1>13 DEF Verified, PageOf
<1> QED BY <1>1, <1>4, <1>5, <1>7, <1>11, <1>12, <1>13, <1>14 DEF Fresh

\* The heap with the new slab of entry e at b.
AddedTo(S, C, P, e, b, V, D, Q) ==
  /\ DOMAIN V = DOMAIN S \cup {b}
  /\ V[b] = Placed(NewSlab(b, Entries[e].size, Entries[e].pages))
  /\ \A x \in DOMAIN S : x # b => V[x] = S[x]
  /\ D = [C EXCEPT ![e] = [num |-> C[e].num, max_num |-> C[e].max_num + (Num(e) - 1),
                           lists |-> Relisted(C[e].lists, b, "none", "free")]]
  /\ Q = [p \in Pages |-> IF p \in PagesOf(b, e) THEN e ELSE P[p]]

\* kalloc_cache_add_slab_pages makes it.
LEMMA AddIs ==
  ASSUME NEW S, NEW C, NEW P, NEW e \in CacheIds, NEW b \in Nat, b % PageSize = 0,
         CachesList(S, C, P)
  PROVE  \E V, D, Q : AddSlab(Hp(S, C, P), e, b) = Hp(V, D, Q) /\ AddedTo(S, C, P, e, b, V, D, Q)
<1>1. PICK s, h : s = NewSlab(b, Entries[e].size, Entries[e].pages) /\ h = Hp(S, C, P)
  OBVIOUS
<1>2. /\ Placed(s) = [s EXCEPT !.on = "free"] /\ Verified(s) /\ s.max_num > 0
      /\ s.max_num = Num(e) - 1 /\ PageOf(s.mem) = PageOf(b) /\ s.pages = Entries[e].pages
  <2>1. e \in CacheIds /\ b \in Nat /\ b % PageSize = 0
    OBVIOUS
  <2>2. s = NewSlab(b, Entries[e].size, Entries[e].pages)
    BY <1>1
  <2>3. Fresh(s, b, e)
    BY ONLY <2>1, <2>2, NewSlabIs
  <2> QED BY ONLY <2>3 DEF Fresh
<1>3. C \in [CacheIds -> [num : Nat, max_num : Nat, lists : [ListNames -> Seq(Nat)]]]
  BY DEF CachesList
<1>4. PICK T, E : /\ T = [x \in DOMAIN S \cup {b} |-> IF x = b THEN s ELSE S[x]]
                  /\ E = [C EXCEPT ![e].max_num = @ + s.max_num]
  OBVIOUS
<1>5. PICK in : in = [h EXCEPT !.slabs = [x \in DOMAIN @ \cup {b} |-> IF x = b THEN s ELSE @[x]],
                               !.caches[e].max_num = @ + s.max_num,
                               !.panic = IF Verified(s) /\ s.max_num > 0 THEN @ ELSE "heap"]
  OBVIOUS
<1>6. in = Hp(T, E, P)
  <2>1. PICK g : g = Hp(T, E, P)
    OBVIOUS
  <2>2. in = [h EXCEPT !.slabs = T, !.caches = E, !.panic = h.panic]
    BY <1>1, <1>2, <1>4, <1>5 DEF Hp
  <2>3. in = g
    <3>1. PICK n : n = "none"
      OBVIOUS
    <3>2. h = [slabs |-> S, caches |-> C, page_obj |-> P, panic |-> n]
      BY ONLY <1>1, <3>1 DEF Hp
    <3>3. g = [slabs |-> T, caches |-> E, page_obj |-> P, panic |-> n]
      BY ONLY <2>1, <3>1 DEF Hp
    <3>4. PICK f : f = [h EXCEPT !.slabs = T, !.caches = E]
      OBVIOUS
    <3>5. f = [slabs |-> T, caches |-> E, page_obj |-> P, panic |-> n]
      BY ONLY <3>2, <3>4
    <3>6. in = [f EXCEPT !.panic = n]
      BY ONLY <2>2, <3>2, <3>4
    <3>7. [f EXCEPT !.panic = n] = f
      BY ONLY <3>5
    <3> QED BY ONLY <3>3, <3>5, <3>6, <3>7
  <2> QED BY ONLY <2>1, <2>3
<1>7. PICK V, D : /\ V = [T EXCEPT ![b].on = "free"]
                  /\ D = [E EXCEPT ![e].lists = Relisted(@, b, "none", "free")]
  OBVIOUS
<1>8. MoveSlab(in, e, b, "none", "free") = Hp(V, D, P)
  <2>1. in.slabs = T /\ in.caches = E
    BY <1>6, HpFields
  <2>2. MoveSlab(in, e, b, "none", "free") = [[in EXCEPT !.caches = D] EXCEPT !.slabs = V]
    <3>1. MoveSlab(in, e, b, "none", "free") =
            [in EXCEPT !.caches = [in.caches EXCEPT ![e].lists = Relisted(@, b, "none", "free")],
                       !.slabs = [in.slabs EXCEPT ![b].on = "free"]]
      BY <1>6 DEF MoveSlab, Hp
    <3> QED BY <1>7, <2>1, <3>1
  <2>3. PICK g : g = [in EXCEPT !.caches = D]
    OBVIOUS
  <2>4. g = Hp(T, D, P)
    BY ONLY <1>6, <2>3, HpFields
  <2>5. [g EXCEPT !.slabs = V] = Hp(V, D, P)
    BY ONLY <2>4, HpFields
  <2> QED BY ONLY <2>2, <2>3, <2>5
<1>9. PICK Q : Q = [p \in Pages |-> IF p \in PagesOf(b, e) THEN e ELSE P[p]]
  OBVIOUS
<1>10. LinkPages(Hp(V, D, P), s, e) = Hp(V, D, Q)
  <2>1. PICK g : g = Hp(V, D, P)
    OBVIOUS
  <2>2. LinkPages(g, s, e) = [g EXCEPT !.page_obj = Q]
    BY <1>2, <1>9, <2>1 DEF LinkPages, PagesOf, Hp
  <2>3. [g EXCEPT !.page_obj = Q] = Hp(V, D, Q)
    BY ONLY <2>1, HpFields
  <2> QED BY ONLY <2>1, <2>2, <2>3
<1>11. AddSlab(Hp(S, C, P), e, b) = Hp(V, D, Q)
  <2>1. AddSlab(h, e, b) = LinkPages(MoveSlab(in, e, b, "none", "free"), s, e)
    BY <1>1, <1>5 DEF AddSlab
  <2> QED BY ONLY <1>1, <1>8, <1>10, <2>1
<1>12. AddedTo(S, C, P, e, b, V, D, Q)
  <2>1. /\ DOMAIN V = DOMAIN S \cup {b} /\ V[b] = Placed(s)
        /\ \A x \in DOMAIN S : x # b => V[x] = S[x]
    BY <1>2, <1>4, <1>7
  <2>2. D = [C EXCEPT ![e] = [num |-> C[e].num, max_num |-> C[e].max_num + (Num(e) - 1),
                              lists |-> Relisted(C[e].lists, b, "none", "free")]]
    <3>1. PICK c, d : c = C[e] /\ d = D[e]
      OBVIOUS
    <3>2. c \in [num : Nat, max_num : Nat, lists : [ListNames -> Seq(Nat)]]
      BY <1>3, <3>1
    <3>3. E = [C EXCEPT ![e] = [c EXCEPT !.max_num = @ + s.max_num]]
      BY <1>3, <1>4, <3>1
    <3>4. D = [C EXCEPT ![e] = [[c EXCEPT !.max_num = @ + s.max_num]
                                  EXCEPT !.lists = Relisted(@, b, "none", "free")]]
      BY <1>3, <1>7, <3>3
    <3>5. [[c EXCEPT !.max_num = @ + s.max_num] EXCEPT !.lists = Relisted(@, b, "none", "free")]
            = [num |-> c.num, max_num |-> c.max_num + (Num(e) - 1),
               lists |-> Relisted(c.lists, b, "none", "free")]
      <4>1. PICK n, m, q, k : n = c.num /\ m = c.max_num /\ q = c.lists /\ k = Num(e) - 1
        OBVIOUS
      <4>2. c = [num |-> n, max_num |-> m, lists |-> q]
        BY ONLY <3>2, <4>1
      <4>3. PICK y : y = [c EXCEPT !.max_num = @ + s.max_num]
        OBVIOUS
      <4>4. y = [num |-> n, max_num |-> m + k, lists |-> q]
        BY ONLY <1>2, <4>1, <4>2, <4>3
      <4>5. [y EXCEPT !.lists = Relisted(@, b, "none", "free")] =
              [num |-> n, max_num |-> m + k, lists |-> Relisted(q, b, "none", "free")]
        BY ONLY <4>4
      <4> QED BY ONLY <4>1, <4>3, <4>5
    <3> QED BY <3>1, <3>4, <3>5
  <2> QED BY ONLY <1>1, <1>9, <2>1, <2>2 DEF AddedTo
<1> QED BY <1>11, <1>12

\* The pages of a slab of entry e at b are in no slab and linked to no cache,
\* and no address that is held is on them.
Apart(S, P, R, b, e) ==
  /\ b \in Nat /\ b % PageSize = 0 /\ b \notin DOMAIN S
  /\ PageOf(b) \in PagesOf(b, e) /\ PagesOf(b, e) \subseteq Pages
  /\ \A q \in PagesOf(b, e) : /\ \A x \in DOMAIN S : q \notin PagesOf(x, P[PageOf(x)])
                              /\ P[q] = None
                              /\ \A r \in R : q # PageOf(r[1])

\* So it is where a free block begins.
LEMMA FreeIsApart ==
  ASSUME NEW S, NEW C, NEW P, NEW B, NEW R, Good(S, C, P, B, R), NEW e \in CacheIds, NEW p,
         FreeBlock(p, OrderOf(e), B), NEW b, b = p * PageSize
  PROVE  Apart(S, P, R, b, e) /\ PageOf(b) = p
<1>1. SlabsRight(S, P, B, Addresses(R)) /\ BlocksRight(B)
  BY DEF Good
<1>2. p \in Nat /\ Pool!Block(p, OrderOf(e)) \subseteq Pages
  BY <1>1, BlockAdded DEF FreeBlock
<1>3. /\ Entries[e].pages \in Nat \ {0} /\ Entries[e].pages <= Size[OrderOf(e)]
      /\ Size[OrderOf(e)] \in Nat \ {0} /\ PageSize \in Nat \ {0}
  BY EntryFacts
<1>4. b \in Nat /\ b % PageSize = 0 /\ PageOf(b) = p
  BY <1>2, <1>3, Multiple DEF PageOf
<1>5. PageOf(b) \in PagesOf(b, e) /\ PagesOf(b, e) \subseteq Pool!Block(p, OrderOf(e))
  BY <1>2, <1>3, <1>4 DEF PagesOf, Pool!Block
<1>6. \A q \in Pool!Block(p, OrderOf(e)) :
        /\ \A x \in DOMAIN S : q \notin PagesOf(x, P[PageOf(x)])
        /\ P[q] = None
        /\ \A r \in R : q # PageOf(r[1])
  BY FreePage
<1>7. b \notin DOMAIN S
  <2>1. SUFFICES ASSUME b \in DOMAIN S PROVE FALSE
    OBVIOUS
  <2>2. PageOf(b) \in PagesOf(b, P[PageOf(b)])
    BY <1>1, <2>1, SlabIs, PagesInBlock
  <2> QED BY <1>5, <1>6, <2>1, <2>2
<1> QED BY <1>2, <1>4, <1>5, <1>6, <1>7 DEF Apart

\* The pages of the slab at b are linked to e, the others are to what they were.
Relinked(S, V, P, Q, b, e) ==
  /\ \A q \in PagesOf(b, e) : Q[q] = e
  /\ Q[PageOf(b)] = e
  /\ \A q \in Pages : q \notin PagesOf(b, e) => Q[q] = P[q]
  /\ \A x \in DOMAIN S : /\ V[x] = S[x] /\ Q[PageOf(x)] = P[PageOf(x)]
                         /\ \A q \in PagesOf(x, P[PageOf(x)]) : Q[q] = P[q]

\* So it is when a slab has been added.
LEMMA AddedLinks ==
  ASSUME NEW S, NEW C, NEW P, NEW B, NEW L, NEW R, NEW e \in CacheIds, NEW b, NEW V, NEW D, NEW Q,
         Apart(S, P, R, b, e), AddedTo(S, C, P, e, b, V, D, Q),
         SlabsRight(S, P, B, L), BlocksRight(B)
  PROVE  Relinked(S, V, P, Q, b, e)
<1>1. /\ \A q \in PagesOf(b, e) : Q[q] = e
      /\ \A q \in Pages : q \notin PagesOf(b, e) => Q[q] = P[q]
  BY DEF AddedTo, Apart
<1>2. ASSUME NEW x \in DOMAIN S
      PROVE  /\ V[x] = S[x] /\ Q[PageOf(x)] = P[PageOf(x)]
             /\ \A q \in PagesOf(x, P[PageOf(x)]) : Q[q] = P[q]
  <2>1. V[x] = S[x]
    BY DEF AddedTo, Apart
  <2>2. SlabRight(S[x], x, P[PageOf(x)], P, B, L)
    BY SlabIs
  <2>3. PagesOf(x, P[PageOf(x)]) \subseteq Pages /\ PageOf(x) \in PagesOf(x, P[PageOf(x)])
    BY <2>2, PagesInBlock
  <2>4. \A q \in PagesOf(x, P[PageOf(x)]) : q \notin PagesOf(b, e)
    BY DEF Apart
  <2>5. \A q \in PagesOf(x, P[PageOf(x)]) : Q[q] = P[q]
    BY <1>1, <2>3, <2>4
  <2> QED BY <2>1, <2>3, <2>5
<1>3. Q[PageOf(b)] = e
  BY <1>1 DEF Apart
<1> QED BY <1>1, <1>2, <1>3 DEF Relinked

\* The slab that is added is right, and those that were stay so.
LEMMA AddedSlabs ==
  ASSUME NEW S, NEW C, NEW P, NEW B, NEW E, NEW R, NEW e \in CacheIds, NEW b, NEW V, NEW D, NEW Q,
         Apart(S, P, R, b, e), AddedTo(S, C, P, e, b, V, D, Q),
         SlabsRight(S, P, B, Addresses(R)), BlocksRight(B),
         E = B \cup {<<PageOf(b), OrderOf(e)>>}
  PROVE  SlabsRight(V, Q, E, Addresses(R))
<1> DEFINE L == Addresses(R)
<1>0. /\ \A q \in PagesOf(b, e) : Q[q] = e
      /\ Q[PageOf(b)] = e
      /\ \A x \in DOMAIN S : /\ V[x] = S[x] /\ Q[PageOf(x)] = P[PageOf(x)]
                             /\ \A q \in PagesOf(x, P[PageOf(x)]) : Q[q] = P[q]
  <2>1. /\ Apart(S, P, R, b, e) /\ AddedTo(S, C, P, e, b, V, D, Q)
        /\ SlabsRight(S, P, B, Addresses(R)) /\ BlocksRight(B) /\ e \in CacheIds
    OBVIOUS
  <2>2. Relinked(S, V, P, Q, b, e)
    BY ONLY <2>1, AddedLinks
  <2> QED BY ONLY <2>2 DEF Relinked
<1>1. b \in Nat /\ b % PageSize = 0
  BY DEF Apart
<1>2. ASSUME NEW x \in DOMAIN S PROVE SlabRight(V[x], x, Q[PageOf(x)], Q, E, L)
  <2>1. SlabRight(S[x], x, P[PageOf(x)], P, B, L)
    BY SlabIs
  <2>2. \A q \in PagesOf(x, P[PageOf(x)]) : Q[q] = P[q]
    BY <1>0
  <2>3. SlabRight(S[x], x, P[PageOf(x)], Q, E, L)
    BY <2>1, <2>2 DEF SlabRight
  <2> QED BY <1>0, <2>3
<1>3. PICK t : t = V[b]
  OBVIOUS
<1>4. /\ SlabOf(t, b, e) /\ t.num = 0 /\ t.free_index = 0
      /\ t.free_indexs = [i \in 0 .. Num(e) - 2 |-> i + 1]
  <2>1. PICK s : s = NewSlab(b, Entries[e].size, Entries[e].pages)
    OBVIOUS
  <2>2. Fresh(s, b, e)
    BY <1>1, <2>1, NewSlabIs
  <2>3. t = Placed(s)
    BY <1>3, <2>1 DEF AddedTo
  <2> QED BY ONLY <2>2, <2>3 DEF Fresh
<1>5. t.max_num = Num(e) - 1 /\ t.max_num \in Nat \ {0} /\ Num(e) \in Nat
  BY <1>1, <1>4, SlabFacts, EntryFacts
<1>6. UsedOf(t, L) = {}
  <2>1. ASSUME NEW i \in 0 .. t.max_num - 1 PROVE ObjectAt(t, i) \notin L
    <3>1. PICK a : a = ObjectAt(t, i)
      OBVIOUS
    <3>2. i \in 0 .. t.max_num
      BY <1>5
    <3>3. /\ a \in Nat /\ t.mem <= a /\ a + t.size <= t.mem + t.size * (t.max_num + 1)
      BY <1>1, <1>4, <3>1, <3>2, ObjectPlace
    <3>4. PICK w \in Nat : w = t.size * (t.max_num + 1)
      BY <1>1, <1>4, SlabFacts
    <3>5. t.size \in Nat \ {0} /\ t.mem \in Nat
      BY <1>1, <1>4, SlabFacts
    <3>6. a < t.mem + t.size * (t.max_num + 1)
      BY <3>3, <3>4, <3>5
    <3>7. PageOf(a) \in PagesOf(b, e)
      BY <1>1, <1>4, <3>3, <3>6, ObjectPages
    <3> QED BY <3>1, <3>7 DEF Apart, Addresses
  <2> QED BY <2>1 DEF UsedOf
<1>7. Cardinality(UsedOf(t, L)) = t.num
  BY <1>4, <1>6, FS_EmptySet
<1>8. \E ch : IsChain(ch, t, UsedOf(t, L))
  <2>1. PICK m \in Nat : m = t.max_num
    BY <1>5
  <2>2. t.free_indexs = [i \in 0 .. m - 1 |-> i + 1]
    <3>1. m - 1 = Num(e) - 2
      BY <1>5, <2>1
    <3> QED BY <1>4, <3>1
  <2>3. \E ch : IsChain(ch, t, {})
    BY <1>4, <2>1, <2>2, ChainNew
  <2> QED BY <1>6, <2>3
<1>9. <<PageOf(b), OrderOf(e)>> \in E
  OBVIOUS
<1>10. SlabRight(t, b, e, Q, E, L)
  BY <1>0, <1>1, <1>4, <1>7, <1>8, <1>9 DEF SlabRight
<1>11. DOMAIN V = DOMAIN S \cup {b}
  BY DEF AddedTo
<1> QED BY <1>0, <1>2, <1>3, <1>10, <1>11 DEF SlabsRight

\* It is on the free list of its cache.
LEMMA AddedLists ==
  ASSUME NEW S, NEW C, NEW P, NEW B, NEW L, NEW R, NEW e \in CacheIds, NEW b, NEW V, NEW D, NEW Q,
         Apart(S, P, R, b, e), AddedTo(S, C, P, e, b, V, D, Q),
         SlabsRight(S, P, B, L), BlocksRight(B), CachesList(S, C, P)
  PROVE  CachesList(V, D, Q)
<1>0. /\ Q[PageOf(b)] = e
      /\ \A x \in DOMAIN S : V[x] = S[x] /\ Q[PageOf(x)] = P[PageOf(x)]
  <2>1. /\ Apart(S, P, R, b, e) /\ AddedTo(S, C, P, e, b, V, D, Q)
        /\ SlabsRight(S, P, B, L) /\ BlocksRight(B) /\ e \in CacheIds
    OBVIOUS
  <2>2. Relinked(S, V, P, Q, b, e)
    BY ONLY <2>1, AddedLinks
  <2> QED BY ONLY <2>2 DEF Relinked
<1>1. /\ C \in [CacheIds -> [num : Nat, max_num : Nat, lists : [ListNames -> Seq(Nat)]]]
      /\ \A f \in CacheIds, l \in ListNames : Lists(C[f].lists[l], On(S, P, f, l))
  BY DEF CachesList
<1>2. /\ DOMAIN V = DOMAIN S \cup {b} /\ b \in Nat /\ b \notin DOMAIN S
      /\ D = [C EXCEPT ![e] = [num |-> C[e].num, max_num |-> C[e].max_num + (Num(e) - 1),
                               lists |-> Relisted(C[e].lists, b, "none", "free")]]
  BY DEF AddedTo, Apart
<1>3. V[b].on = "free"
  <2>1. PICK s : s = NewSlab(b, Entries[e].size, Entries[e].pages)
    OBVIOUS
  <2>2. Fresh(s, b, e)
    BY <2>1, NewSlabIs DEF Apart
  <2>3. V[b] = Placed(s)
    BY <2>1 DEF AddedTo
  <2> QED BY ONLY <2>2, <2>3 DEF Fresh
<1>4. DOMAIN S \subseteq Nat
  BY SlabIs
<1>5. PICK c : c = C[e] /\ c \in [num : Nat, max_num : Nat, lists : [ListNames -> Seq(Nat)]]
  BY <1>1
<1>6. PICK q : q = c.lists /\ q \in [ListNames -> Seq(Nat)]
  BY <1>5
<1>7. Num(e) \in Nat /\ Num(e) > 1
  BY EntryFacts
<1> DEFINE X == [l \in ListNames |-> On(S, P, e, l)]
           Y == [l \in ListNames |-> On(V, Q, e, l)]
           M == Relisted(q, b, "none", "free")
<1>8. ASSUME NEW l \in ListNames
      PROVE  /\ X[l] \subseteq Nat
             /\ b \in X[l] <=> l = "none"
             /\ Y[l] = (X[l] \ {b}) \cup (IF l = "free" THEN {b} ELSE {})
             /\ Lists(q[l], X[l])
  <2>1. b \notin X[l] /\ l # "none" /\ X[l] \subseteq Nat
    BY <1>2, <1>4 DEF On, ListNames
  <2>2. \A x : x \in Y[l] <=> x \in (X[l] \ {b}) \cup (IF l = "free" THEN {b} ELSE {})
    BY <1>0, <1>2, <1>3 DEF On
  <2>3. Lists(q[l], X[l])
    BY <1>1, <1>5, <1>6
  <2> HIDE DEF X, Y
  <2> QED BY <2>1, <2>2, <2>3
<1>9. M \in [ListNames -> Seq(Nat)] /\ \A l \in ListNames : Lists(M[l], Y[l])
  <2> HIDE DEF X, Y
  <2>1. \A l \in ListNames :
          /\ Lists(q[l], X[l]) /\ X[l] \subseteq Nat
          /\ b \in X[l] <=> l = "none"
          /\ Y[l] = (X[l] \ {b}) \cup (IF l = "free" THEN {b} ELSE {})
    BY <1>8
  <2>2. q \in [ListNames -> Seq(Nat)] /\ b \in Nat /\ "none" # "free" /\ "free" \in ListNames
    BY <1>2, <1>6 DEF ListNames
  <2> QED BY ONLY <2>1, <2>2, Relist
<1> HIDE DEF M
<1>10. /\ D \in [CacheIds -> [num : Nat, max_num : Nat, lists : [ListNames -> Seq(Nat)]]]
       /\ D[e].lists = M /\ \A f \in CacheIds : f # e => D[f] = C[f]
  <2>1. PICK n : n = c.max_num + (Num(e) - 1) /\ n \in Nat
    BY <1>5, <1>7
  <2>2. PICK d : d = [num |-> c.num, max_num |-> n, lists |-> M]
    OBVIOUS
  <2>3. d \in [num : Nat, max_num : Nat, lists : [ListNames -> Seq(Nat)]] /\ d.lists = M
    BY <1>5, <1>9, <2>1, <2>2
  <2>4. D = [C EXCEPT ![e] = d]
    BY <1>2, <1>5, <1>6, <2>1, <2>2 DEF M
  <2> QED BY <1>1, <2>3, <2>4
<1>11. ASSUME NEW f \in CacheIds, NEW l \in ListNames PROVE Lists(D[f].lists[l], On(V, Q, f, l))
  <2>1. CASE f = e
    BY <1>9, <1>10, <2>1
  <2>2. CASE f # e
    <3>1. On(V, Q, f, l) = On(S, P, f, l)
      BY <1>0, <1>2, <2>2 DEF On
    <3> QED BY <1>1, <1>10, <2>2, <3>1
  <2> QED BY <2>1, <2>2
<1> QED BY <1>10, <1>11 DEF CachesList

\* Its objects are counted.
LEMMA AddedCounts ==
  ASSUME NEW S, NEW C, NEW P, NEW B, NEW L, NEW R, NEW e \in CacheIds, NEW b, NEW V, NEW D, NEW Q,
         Apart(S, P, R, b, e), AddedTo(S, C, P, e, b, V, D, Q),
         SlabsRight(S, P, B, L), BlocksRight(B), CachesList(S, C, P), CachesCount(S, C, P)
  PROVE  CachesCount(V, D, Q)
<1>0. /\ Q[PageOf(b)] = e
      /\ \A x \in DOMAIN S : V[x] = S[x] /\ Q[PageOf(x)] = P[PageOf(x)]
  <2>1. /\ Apart(S, P, R, b, e) /\ AddedTo(S, C, P, e, b, V, D, Q)
        /\ SlabsRight(S, P, B, L) /\ BlocksRight(B) /\ e \in CacheIds
    OBVIOUS
  <2>2. Relinked(S, V, P, Q, b, e)
    BY ONLY <2>1, AddedLinks
  <2> QED BY ONLY <2>2 DEF Relinked
<1>1. /\ C \in [CacheIds -> [num : Nat, max_num : Nat, lists : [ListNames -> Seq(Nat)]]]
  BY DEF CachesList
<1>2. /\ DOMAIN V = DOMAIN S \cup {b} /\ b \notin DOMAIN S
      /\ D = [C EXCEPT ![e] = [num |-> C[e].num, max_num |-> C[e].max_num + (Num(e) - 1),
                               lists |-> Relisted(C[e].lists, b, "none", "free")]]
  BY DEF AddedTo, Apart
<1>3. V[b].num = 0 /\ V[b].max_num = Num(e) - 1
  <2>1. PICK s : s = NewSlab(b, Entries[e].size, Entries[e].pages)
    OBVIOUS
  <2>2. Fresh(s, b, e) /\ b \in Nat
    BY <2>1, NewSlabIs DEF Apart
  <2>3. V[b] = Placed(s)
    BY <2>1 DEF AddedTo
  <2>4. SlabOf(V[b], b, e) /\ V[b].num = 0
    BY ONLY <2>2, <2>3 DEF Fresh
  <2> QED BY <2>2, <2>4, SlabFacts
<1>4. PICK m \in Nat : m = Num(e) - 1
  BY EntryFacts
<1>5. /\ \A f : NumPlaces(V, Q, f) = NumPlaces(S, P, f)
      /\ MaxPlaces(V, Q, e) = MaxPlaces(S, P, e) \cup {b} \X (1 .. m)
      /\ MaxPlaces(S, P, e) \cap {b} \X (1 .. m) = {}
      /\ \A f : f # e => MaxPlaces(V, Q, f) = MaxPlaces(S, P, f)
  <2>1. /\ b \notin DOMAIN S /\ DOMAIN V = DOMAIN S \cup {b}
        /\ m \in Nat /\ V[b].num = 0 /\ V[b].max_num = m
        /\ \A x \in DOMAIN S : /\ V[x].num = S[x].num /\ V[x].max_num = S[x].max_num
                               /\ Q[PageOf(x)] = P[PageOf(x)]
    BY <1>0, <1>2, <1>3, <1>4
  <2>2. /\ \A f : NumPlaces(V, Q, f) = NumPlaces(S, P, f)
        /\ MaxPlaces(V, Q, Q[PageOf(b)]) = MaxPlaces(S, P, Q[PageOf(b)]) \cup {b} \X (1 .. m)
        /\ MaxPlaces(S, P, Q[PageOf(b)]) \cap {b} \X (1 .. m) = {}
        /\ \A f : f # Q[PageOf(b)] => MaxPlaces(V, Q, f) = MaxPlaces(S, P, f)
    BY ONLY <2>1, SlabMore
  <2> QED BY <1>0, <2>2
<1>6. \A f \in CacheIds : /\ D[f].num = C[f].num
                          /\ D[f].max_num = C[f].max_num + (IF f = e THEN m ELSE 0)
  BY <1>1, <1>2, <1>4
<1>7. ASSUME NEW f \in CacheIds
      PROVE  /\ IsFiniteSet(MaxPlaces(V, Q, f))
             /\ D[f].num = Cardinality(NumPlaces(V, Q, f))
             /\ D[f].max_num = Cardinality(MaxPlaces(V, Q, f))
  <2>1. /\ IsFiniteSet(MaxPlaces(S, P, f))
        /\ C[f].num = Cardinality(NumPlaces(S, P, f))
        /\ C[f].max_num = Cardinality(MaxPlaces(S, P, f))
    BY DEF CachesCount
  <2>2. C[f].num \in Nat /\ C[f].max_num \in Nat
    BY <1>1
  <2>3. CASE f # e
    BY <1>5, <1>6, <2>1, <2>2, <2>3
  <2>4. CASE f = e
    <3>1. IsFiniteSet({b} \X (1 .. m)) /\ Cardinality({b} \X (1 .. m)) = m
      BY PlacesOfOne
    <3>2. PICK X, Y : X = MaxPlaces(S, P, e) /\ Y = {b} \X (1 .. m)
      OBVIOUS
    <3>3. /\ IsFiniteSet(X) /\ IsFiniteSet(Y) /\ X \cap Y = {}
          /\ Cardinality(X) = C[e].max_num /\ Cardinality(Y) = m
      BY <1>5, <2>1, <2>4, <3>1, <3>2
    <3>4. /\ IsFiniteSet(X \cup Y)
          /\ Cardinality(X \cup Y) = Cardinality(X) + Cardinality(Y) - Cardinality(X \cap Y)
      BY <3>3, FS_Union
    <3>5. Cardinality(X \cap Y) = 0
      BY <3>3, FS_EmptySet
    <3>6. Cardinality(X \cup Y) = C[e].max_num + m
      BY <2>2, <2>4, <3>3, <3>4, <3>5
    <3>7. MaxPlaces(V, Q, e) = X \cup Y
      BY <1>5, <3>2
    <3> QED BY <1>5, <1>6, <2>1, <2>4, <3>4, <3>6, <3>7
  <2> QED BY <2>3, <2>4
<1> QED BY <1>7 DEF CachesCount

\* Its pages are linked to the cache, and what is held stays right.
LEMMA AddedHeld ==
  ASSUME NEW S, NEW C, NEW P, NEW B, NEW E, NEW R, NEW e \in CacheIds, NEW b, NEW V, NEW D, NEW Q,
         Apart(S, P, R, b, e), AddedTo(S, C, P, e, b, V, D, Q), B \subseteq E,
         SlabsRight(S, P, B, Addresses(R)), BlocksRight(B), LinksRight(S, P), HeldRight(S, P, B, R)
  PROVE  LinksRight(V, Q) /\ HeldRight(V, Q, E, R)
<1>0. /\ \A q \in PagesOf(b, e) : Q[q] = e
      /\ Q[PageOf(b)] = e
      /\ \A q \in Pages : q \notin PagesOf(b, e) => Q[q] = P[q]
      /\ \A x \in DOMAIN S : V[x] = S[x] /\ Q[PageOf(x)] = P[PageOf(x)]
  <2>1. /\ Apart(S, P, R, b, e) /\ AddedTo(S, C, P, e, b, V, D, Q)
        /\ SlabsRight(S, P, B, Addresses(R)) /\ BlocksRight(B) /\ e \in CacheIds
    OBVIOUS
  <2>2. Relinked(S, V, P, Q, b, e)
    BY ONLY <2>1, AddedLinks
  <2> QED BY ONLY <2>2 DEF Relinked
<1>1. DOMAIN V = DOMAIN S \cup {b}
  BY DEF AddedTo
<1>2. Q \in [Pages -> CacheIds \cup {None}]
  BY DEF AddedTo, LinksRight
<1>3. ASSUME NEW q \in Pages, Q[q] # None
      PROVE  \E x \in DOMAIN V : Q[PageOf(x)] \in CacheIds /\ q \in PagesOf(x, Q[PageOf(x)])
  <2>1. CASE q \in PagesOf(b, e)
    BY <1>0, <1>1, <2>1
  <2>2. CASE q \notin PagesOf(b, e)
    <3>1. P[q] # None
      BY <1>0, <1>3, <2>2
    <3>2. PICK x \in DOMAIN S : P[PageOf(x)] \in CacheIds /\ q \in PagesOf(x, P[PageOf(x)])
      BY <3>1 DEF LinksRight
    <3> QED BY <1>0, <1>1, <3>2
  <2> QED BY <2>1, <2>2
<1>4. LinksRight(V, Q)
  BY <1>2, <1>3 DEF LinksRight
<1>5. ASSUME NEW r \in R, InObject(r[1], r[2], S) PROVE InObject(r[1], r[2], V)
  BY <1>0, <1>1, <1>5 DEF InObject
<1>6. ASSUME NEW r \in R, InPages(r[1], r[2], S, P, B) PROVE InPages(r[1], r[2], V, Q, E)
  <2>1. PICK k \in Orders : <<PageOf(r[1]), k>> \in B /\ r[2] <= Size[k] * PageSize
    BY <1>6 DEF InPages
  <2>2. PageOf(r[1]) \in Pages
    BY <2>1 DEF BlocksRight
  <2>3. PageOf(r[1]) \notin PagesOf(b, e)
    BY DEF Apart
  <2>4. Q[PageOf(r[1])] = None
    BY <1>0, <1>6, <2>2, <2>3 DEF InPages
  <2>5. r[1] # b
    BY <2>3 DEF Apart
  <2>6. r[1] \notin DOMAIN V
    BY <1>1, <1>6, <2>5 DEF InPages
  <2>7. <<PageOf(r[1]), k>> \in E
    BY <2>1
  <2> QED BY <1>6, <2>1, <2>4, <2>6, <2>7 DEF InPages
<1>7. HeldRight(V, Q, E, R)
  BY <1>5, <1>6 DEF HeldRight
<1> QED BY <1>4, <1>7

\* cache_expand: what begins at b becomes a slab of entry e, all of whose objects
\* are free.
Expanded(S, C, P, E, R, e, b, V, D, Q) ==
  /\ AddSlab(Hp(S, C, P), e, b) = Hp(V, D, Q)
  /\ Good(V, D, Q, E, R)
  /\ b \in DOMAIN V /\ Q[PageOf(b)] = e /\ V[b].num # V[b].max_num
  /\ \A r \in R : Q[PageOf(r[1])] = P[PageOf(r[1])]

\* It does so with a free block.
LEMMA ExpandGood ==
  ASSUME NEW S, NEW C, NEW P, NEW B, NEW R, Good(S, C, P, B, R), NEW e \in CacheIds, NEW p,
         FreeBlock(p, OrderOf(e), B)
  PROVE  \E V, D, Q : Expanded(S, C, P, B \cup {<<p, OrderOf(e)>>}, R, e, p * PageSize, V, D, Q)
<1>1. /\ SlabsRight(S, P, B, Addresses(R)) /\ CachesList(S, C, P) /\ CachesCount(S, C, P)
      /\ LinksRight(S, P) /\ BlocksRight(B) /\ HeldRight(S, P, B, R)
  BY DEF Good
<1>2. PICK b, E : b = p * PageSize /\ E = B \cup {<<p, OrderOf(e)>>}
  OBVIOUS
<1>3. Apart(S, P, R, b, e) /\ PageOf(b) = p
  BY <1>2, FreeIsApart
<1>4. b \in Nat /\ b % PageSize = 0
  BY <1>3 DEF Apart
<1>5. PICK V, D, Q : AddSlab(Hp(S, C, P), e, b) = Hp(V, D, Q) /\ AddedTo(S, C, P, e, b, V, D, Q)
  BY <1>1, <1>4, AddIs
<1>6. E = B \cup {<<PageOf(b), OrderOf(e)>>}
  BY <1>2, <1>3
<1>7. SlabsRight(V, Q, E, Addresses(R))
  BY <1>1, <1>3, <1>5, <1>6, AddedSlabs
<1>8. CachesList(V, D, Q)
  BY <1>1, <1>3, <1>5, AddedLists
<1>9. CachesCount(V, D, Q)
  BY <1>1, <1>3, <1>5, AddedCounts
<1>10. B \subseteq E
  BY <1>2
<1>11. LinksRight(V, Q) /\ HeldRight(V, Q, E, R)
  BY <1>1, <1>3, <1>5, <1>10, AddedHeld
<1>12. BlocksRight(E)
  BY <1>1, <1>2, BlockAdded
<1>13. Good(V, D, Q, E, R)
  BY ONLY <1>7, <1>8, <1>9, <1>11, <1>12 DEF Good
<1>14. Relinked(S, V, P, Q, b, e)
  BY <1>1, <1>3, <1>5, AddedLinks
<1>15. Q[PageOf(b)] = e
  BY <1>14 DEF Relinked
<1>16. b \in DOMAIN V /\ V[b].num = 0
  <2>1. PICK s : s = NewSlab(b, Entries[e].size, Entries[e].pages)
    OBVIOUS
  <2>2. Fresh(s, b, e)
    BY <1>4, <2>1, NewSlabIs
  <2>3. V[b] = Placed(s) /\ b \in DOMAIN V
    BY <1>5, <2>1 DEF AddedTo
  <2> QED BY ONLY <2>2, <2>3 DEF Fresh
<1>17. V[b].num # V[b].max_num
  <2>1. SlabOf(V[b], b, Q[PageOf(b)]) /\ Q[PageOf(b)] \in CacheIds
    BY <1>7, <1>16, SlabIs
  <2>2. V[b].max_num \in Nat \ {0}
    BY <1>4, <2>1, SlabFacts
  <2> QED BY <1>16, <2>2
<1>18. ASSUME NEW r \in R PROVE Q[PageOf(r[1])] = P[PageOf(r[1])]
  <2>1. CASE InPages(r[1], r[2], S, P, B)
    <3>1. PageOf(r[1]) \in Pages
      BY <1>1, <2>1 DEF InPages, BlocksRight
    <3>2. PageOf(r[1]) \notin PagesOf(b, e)
      BY <1>3 DEF Apart
    <3> QED BY <1>14, <3>1, <3>2 DEF Relinked
  <2>2. CASE InObject(r[1], r[2], S)
    <3>1. PICK x \in DOMAIN S : \E i \in 0 .. S[x].max_num - 1 : r[1] = ObjectAt(S[x], i)
      BY <2>2 DEF InObject
    <3>2. PICK i \in 0 .. S[x].max_num - 1 : r[1] = ObjectAt(S[x], i)
      BY <3>1
    <3>3. S[x].max_num \in Nat
      BY <1>1, SlabNums
    <3>4. i \in 0 .. S[x].max_num
      BY <3>3
    <3>5. PageOf(ObjectAt(S[x], i)) \in PagesOf(x, P[PageOf(x)])
      BY <1>1, <3>4, OneObject
    <3> QED BY <1>14, <3>2, <3>5 DEF Relinked
  <2> QED BY <1>1, <2>1, <2>2 DEF HeldRight
<1>19. Expanded(S, C, P, E, R, e, b, V, D, Q)
  BY ONLY <1>5, <1>13, <1>15, <1>16, <1>17, <1>18 DEF Expanded
<1> QED BY ONLY <1>2, <1>19

---------------------------------------------------------------------------
(* Pages that are given back. *)

\* Of all that is held at pages no two addresses are the same: without r its
\* address is not held.
LEMMA OneLess ==
  ASSUME NEW S, NEW P, NEW B, NEW R, HeldRight(S, P, B, R), NEW r \in R
  PROVE  /\ Addresses(R \ {r}) = Addresses(R) \ {r[1]}
         /\ r[1] \in Addresses(R)
<1>1. \A q \in R : q[1] = r[1] => q = r
  BY DEF HeldRight
<1>2. Addresses(R \ {r}) \subseteq Addresses(R) \ {r[1]}
  BY <1>1 DEF Addresses
<1>3. Addresses(R) \ {r[1]} \subseteq Addresses(R \ {r})
  BY DEF Addresses
<1> QED BY <1>2, <1>3 DEF Addresses

\* A block that is in use begins with no other page than another block.
LEMMA OneBlock ==
  ASSUME NEW B, BlocksRight(B), NEW p, NEW j, NEW k, <<p, j>> \in B, <<p, k>> \in B
  PROVE  j = k
<1>1. p \in Nat /\ Size[j] \in Nat \ {0} /\ Size[k] \in Nat \ {0}
  BY FitAssumption DEF BlocksRight
<1>2. p \in Pool!Block(p, j) /\ p \in Pool!Block(p, k)
  BY <1>1 DEF Pool!Block
<1>3. PICK x, y : x = <<p, j>> /\ y = <<p, k>> /\ x[1] = p /\ x[2] = j /\ y[1] = p /\ y[2] = k
  OBVIOUS
<1>4. x # y => Pool!Block(p, j) \cap Pool!Block(p, k) = {}
  BY <1>3 DEF BlocksRight
<1> QED BY <1>2, <1>3, <1>4

\* The address of r begins a block, without which and r the heap is good.
Givable(S, C, P, B, R, r) ==
  /\ r[1] % PageSize = 0
  /\ \E k \in Orders : <<PageOf(r[1]), k>> \in B
  /\ \A k \in Orders : <<PageOf(r[1]), k>> \in B =>
       Good(S, C, P, B \ {<<PageOf(r[1]), k>>}, R \ {r})

\* mm_free_pages of whole pages that are held.
LEMMA GiveGood ==
  ASSUME NEW S, NEW C, NEW P, NEW B, NEW R, Good(S, C, P, B, R), NEW r \in R,
         P[PageOf(r[1])] = None
  PROVE  Givable(S, C, P, B, R, r)
<1>1. /\ SlabsRight(S, P, B, Addresses(R)) /\ CachesList(S, C, P) /\ CachesCount(S, C, P)
      /\ LinksRight(S, P) /\ BlocksRight(B) /\ HeldRight(S, P, B, R)
  BY DEF Good
<1>2. ~ InObject(r[1], r[2], S)
  <2>1. SUFFICES ASSUME InObject(r[1], r[2], S) PROVE FALSE
    OBVIOUS
  <2>2. PICK x \in DOMAIN S : \E i \in 0 .. S[x].max_num - 1 : r[1] = ObjectAt(S[x], i)
    BY <2>1 DEF InObject
  <2>3. PICK i \in 0 .. S[x].max_num - 1 : r[1] = ObjectAt(S[x], i)
    BY <2>2
  <2>4. S[x].max_num \in Nat
    BY <1>1, SlabNums
  <2>5. i \in 0 .. S[x].max_num
    BY <2>4
  <2>6. P[PageOf(ObjectAt(S[x], i))] = P[PageOf(x)] /\ P[PageOf(x)] \in CacheIds
    BY <1>1, <2>5, OneObject, SlabIs
  <2> QED BY <2>3, <2>6, NoneIsNoCache
<1>3. InPages(r[1], r[2], S, P, B)
  BY <1>1, <1>2 DEF HeldRight
<1>4. ASSUME NEW k \in Orders, <<PageOf(r[1]), k>> \in B
      PROVE  Good(S, C, P, B \ {<<PageOf(r[1]), k>>}, R \ {r})
  <2>1. PICK E, Q : E = B \ {<<PageOf(r[1]), k>>} /\ Q = R \ {r}
    OBVIOUS
  <2>2. BlocksRight(E)
    BY <1>1, <2>1 DEF BlocksRight
  <2>3. Addresses(Q) = Addresses(R) \ {r[1]}
    BY <1>1, <2>1, OneLess
  <2>4. PageOf(r[1]) \in Nat /\ r[1] = PageOf(r[1]) * PageSize
    BY <1>3, PageStart DEF InPages
  <2>5. PageOf(r[1]) \in Pool!Block(PageOf(r[1]), k)
    <3>1. Size[k] \in Nat \ {0}
      BY FitAssumption
    <3> QED BY <2>4, <3>1 DEF Pool!Block
  <2>6. ASSUME NEW x \in DOMAIN S PROVE SlabRight(S[x], x, P[PageOf(x)], P, E, Addresses(Q))
    <3>1. SlabRight(S[x], x, P[PageOf(x)], P, B, Addresses(R))
      BY <1>1, SlabIs
    <3>2. PageOf(r[1]) \notin PagesOf(x, P[PageOf(x)])
      BY <1>1, <1>3, PagesAreNoSlab
    <3>3. UsedOf(S[x], Addresses(Q)) = UsedOf(S[x], Addresses(R))
      <4>1. S[x].max_num \in Nat
        BY <1>1, SlabNums
      <4>2. ASSUME NEW i \in 0 .. S[x].max_num - 1 PROVE ObjectAt(S[x], i) # r[1]
        <5>1. i \in 0 .. S[x].max_num
          BY <4>1
        <5>2. PageOf(ObjectAt(S[x], i)) \in PagesOf(x, P[PageOf(x)])
          BY <1>1, <5>1, OneObject
        <5> QED BY <3>2, <5>2
      <4> QED BY <2>3, <4>2 DEF UsedOf
    <3>4. <<PageOf(x), OrderOf(P[PageOf(x)])>> \in E
      <4>1. PageOf(x) \in PagesOf(x, P[PageOf(x)])
        BY <1>1, <3>1, PagesInBlock
      <4>2. PageOf(x) # PageOf(r[1])
        BY <3>2, <4>1
      <4> QED BY <2>1, <3>1, <4>2 DEF SlabRight
    <3> QED BY <3>1, <3>3, <3>4 DEF SlabRight
  <2>7. HeldRight(S, P, E, Q)
    <3>1. ASSUME NEW q \in Q
          PROVE  InObject(q[1], q[2], S) \/ InPages(q[1], q[2], S, P, E)
      <4>1. q \in R /\ q # r
        BY <2>1
      <4>2. CASE InObject(q[1], q[2], S)
        BY <4>2
      <4>3. CASE InPages(q[1], q[2], S, P, B)
        <5>1. PICK j \in Orders : <<PageOf(q[1]), j>> \in B /\ q[2] <= Size[j] * PageSize
          BY <4>3 DEF InPages
        <5>2. PageOf(q[1]) # PageOf(r[1])
          <6>1. q[1] = PageOf(q[1]) * PageSize
            BY <4>3, PageStart DEF InPages
          <6>2. q[1] # r[1]
            BY <1>1, <4>1 DEF HeldRight
          <6> QED BY <2>4, <6>1, <6>2
        <5>3. <<PageOf(q[1]), j>> \in E
          BY <2>1, <5>1, <5>2
        <5> QED BY <4>3, <5>1, <5>3 DEF InPages
      <4> QED BY <1>1, <4>1, <4>2, <4>3 DEF HeldRight
    <3> QED BY <1>1, <2>1, <3>1 DEF HeldRight
  <2>8. SlabsRight(S, P, E, Addresses(Q))
    BY <2>6 DEF SlabsRight
  <2>9. Good(S, C, P, E, Q)
    BY ONLY <1>1, <2>2, <2>7, <2>8 DEF Good
  <2> QED BY ONLY <2>1, <2>9
<1> QED BY <1>3, <1>4 DEF InPages, Givable

---------------------------------------------------------------------------
(* kalloc_cache_remove_slab. *)

\* The heap without slab b of entry e.
RemovedFrom(S, C, P, e, b, V, D, Q) ==
  /\ DOMAIN V = DOMAIN S \ {b}
  /\ \A x \in DOMAIN V : V[x] = S[x]
  /\ D = [C EXCEPT ![e] = [num |-> C[e].num, max_num |-> C[e].max_num - S[b].max_num,
                           lists |-> [C[e].lists EXCEPT !["free"] = Without(@, b)]]]
  /\ Q = [p \in Pages |-> IF p \in PagesOf(b, e) THEN None ELSE P[p]]

\* Slab b of entry e is on its free list.
Removable(S, P, e, b) == b \in DOMAIN S /\ P[PageOf(b)] = e /\ S[b].on = "free" /\ S[b].num = 0

\* The pages of the other slabs are linked to what they were.
Unlinked(S, V, P, Q, b, e) ==
  \A x \in DOMAIN V : /\ x \in DOMAIN S /\ x # b /\ V[x] = S[x]
                      /\ PagesOf(x, P[PageOf(x)]) \cap PagesOf(b, e) = {}
                      /\ Q[PageOf(x)] = P[PageOf(x)]
                      /\ \A q \in PagesOf(x, P[PageOf(x)]) : Q[q] = P[q]

\* So it is when slab b has been removed.
LEMMA RemovedLinks ==
  ASSUME NEW S, NEW C, NEW P, NEW B, NEW L, SlabsRight(S, P, B, L), BlocksRight(B),
         NEW e, NEW b, Removable(S, P, e, b), NEW V, NEW D, NEW Q,
         RemovedFrom(S, C, P, e, b, V, D, Q)
  PROVE  Unlinked(S, V, P, Q, b, e)
<1> SUFFICES ASSUME NEW x \in DOMAIN V
             PROVE  /\ x \in DOMAIN S /\ x # b /\ V[x] = S[x]
                    /\ PagesOf(x, P[PageOf(x)]) \cap PagesOf(b, e) = {}
                    /\ Q[PageOf(x)] = P[PageOf(x)]
                    /\ \A q \in PagesOf(x, P[PageOf(x)]) : Q[q] = P[q]
  BY DEF Unlinked
<1>1. x \in DOMAIN S /\ x # b /\ V[x] = S[x]
  BY DEF RemovedFrom
<1>2. b \in DOMAIN S /\ P[PageOf(b)] = e
  BY DEF Removable
<1>3. ASSUME NEW q \in PagesOf(x, P[PageOf(x)]) PROVE q \notin PagesOf(b, e)
  <2>1. SUFFICES ASSUME q \in PagesOf(b, e) PROVE FALSE
    OBVIOUS
  <2>2. q \in PagesOf(b, P[PageOf(b)])
    BY <1>2, <2>1
  <2> QED BY <1>1, <1>2, <1>3, <2>2, OneSlab
<1>4. SlabRight(S[x], x, P[PageOf(x)], P, B, L)
  BY <1>1, SlabIs
<1>5. PagesOf(x, P[PageOf(x)]) \subseteq Pages /\ PageOf(x) \in PagesOf(x, P[PageOf(x)])
  BY <1>4, PagesInBlock
<1>6. \A q \in PagesOf(x, P[PageOf(x)]) : Q[q] = P[q]
  BY <1>3, <1>5 DEF RemovedFrom
<1> QED BY <1>1, <1>3, <1>5, <1>6

\* A slab that counts no object has none in use.
LEMMA NoneUsed ==
  ASSUME NEW S, NEW P, NEW B, NEW L, SlabsRight(S, P, B, L), NEW b \in DOMAIN S, S[b].num = 0
  PROVE  \A i \in 0 .. S[b].max_num - 1 : ObjectAt(S[b], i) \notin L
<1>1. Cardinality(UsedOf(S[b], L)) = 0
  <2>1. SlabRight(S[b], b, P[PageOf(b)], P, B, L)
    BY SlabIs
  <2> QED BY <2>1 DEF SlabRight
<1>2. PICK m \in Nat : m = S[b].max_num
  BY SlabNums
<1>3. 0 \in Int /\ m - 1 \in Int
  BY <1>2
<1>4. IsFiniteSet(0 .. m - 1)
  BY ONLY <1>3, FS_Interval
<1>5. UsedOf(S[b], L) \subseteq 0 .. m - 1
  BY <1>2 DEF UsedOf
<1>6. IsFiniteSet(UsedOf(S[b], L))
  BY <1>4, <1>5, FS_Subset
<1>7. UsedOf(S[b], L) = {}
  BY <1>1, <1>6, FS_EmptySet
<1> QED BY <1>7 DEF UsedOf

\* The address of a slab that is removed is not held, and what is held is of
\* no object of it.
LEMMA RemovedApart ==
  ASSUME NEW S, NEW C, NEW P, NEW B, NEW R, Good(S, C, P, B, R),
         NEW e, NEW b, Removable(S, P, e, b)
  PROVE  /\ b \notin Addresses(R)
         /\ \A r \in R, i \in 0 .. S[b].max_num - 1 : r[1] # ObjectAt(S[b], i)
<1>1. SlabsRight(S, P, B, Addresses(R)) /\ BlocksRight(B) /\ HeldRight(S, P, B, R)
  BY DEF Good
<1>2. b \in DOMAIN S /\ P[PageOf(b)] = e /\ S[b].num = 0
  BY DEF Removable
<1>3. \A i \in 0 .. S[b].max_num - 1 : ObjectAt(S[b], i) \notin Addresses(R)
  BY <1>1, <1>2, NoneUsed
<1>4. \A r \in R, i \in 0 .. S[b].max_num - 1 : r[1] # ObjectAt(S[b], i)
  BY <1>3 DEF Addresses
<1>5. ASSUME NEW r \in R PROVE r[1] # b
  <2>1. CASE InPages(r[1], r[2], S, P, B)
    BY <1>2, <2>1 DEF InPages
  <2>2. CASE InObject(r[1], r[2], S)
    <3>1. PICK x \in DOMAIN S : \E i \in 0 .. S[x].max_num - 1 : r[1] = ObjectAt(S[x], i)
      BY <2>2 DEF InObject
    <3>2. PICK i \in 0 .. S[x].max_num - 1 : r[1] = ObjectAt(S[x], i)
      BY <3>1
    <3>3. x # b
      BY <1>4, <3>2
    <3>4. S[x].max_num \in Nat
      BY <1>1, SlabNums
    <3>5. i \in 0 .. S[x].max_num
      BY <3>4
    <3>6. PageOf(ObjectAt(S[x], i)) \in PagesOf(x, P[PageOf(x)])
      BY <1>1, <3>5, OneObject
    <3>7. PageOf(b) \in PagesOf(b, P[PageOf(b)])
      BY <1>1, <1>2, SlabIs, PagesInBlock
    <3> QED BY <1>1, <1>2, <3>2, <3>3, <3>6, <3>7, OneSlab
  <2> QED BY <1>1, <2>1, <2>2 DEF HeldRight
<1> QED BY <1>4, <1>5 DEF Addresses

\* The other slabs stay right when the address of b is held.
LEMMA RemovedSlabs ==
  ASSUME NEW S, NEW C, NEW P, NEW B, NEW L, SlabsRight(S, P, B, L), BlocksRight(B),
         NEW e, NEW b, Removable(S, P, e, b), NEW V, NEW D, NEW Q,
         RemovedFrom(S, C, P, e, b, V, D, Q)
  PROVE  SlabsRight(V, Q, B, L \cup {b})
<1> SUFFICES ASSUME NEW x \in DOMAIN V PROVE SlabRight(V[x], x, Q[PageOf(x)], Q, B, L \cup {b})
  BY DEF SlabsRight
<1>1. /\ x \in DOMAIN S /\ x # b /\ V[x] = S[x]
      /\ PagesOf(x, P[PageOf(x)]) \cap PagesOf(b, e) = {}
      /\ Q[PageOf(x)] = P[PageOf(x)]
      /\ \A q \in PagesOf(x, P[PageOf(x)]) : Q[q] = P[q]
  BY RemovedLinks DEF Unlinked
<1>2. SlabRight(S[x], x, P[PageOf(x)], P, B, L)
  BY <1>1, SlabIs
<1>3. b \in DOMAIN S /\ P[PageOf(b)] = e
  BY DEF Removable
<1>4. PageOf(b) \in PagesOf(b, e)
  BY <1>3, SlabIs, PagesInBlock
<1>5. S[x].max_num \in Nat
  BY <1>1, SlabNums
<1>6. ASSUME NEW i \in 0 .. S[x].max_num - 1 PROVE ObjectAt(S[x], i) # b
  <2>1. i \in 0 .. S[x].max_num
    BY <1>5
  <2>2. PageOf(ObjectAt(S[x], i)) \in PagesOf(x, P[PageOf(x)])
    BY <1>1, <2>1, OneObject
  <2> QED BY <1>1, <1>4, <2>2
<1>7. UsedOf(S[x], L \cup {b}) = UsedOf(S[x], L)
  BY <1>6 DEF UsedOf
<1>8. SlabRight(S[x], x, P[PageOf(x)], Q, B, L \cup {b})
  <2>1. \A q \in PagesOf(x, P[PageOf(x)]) : Q[q] = P[PageOf(x)]
    BY <1>1, <1>2 DEF SlabRight
  <2> QED BY <1>2, <1>7, <2>1 DEF SlabRight
<1> QED BY <1>1, <1>8

\* The counts without its objects.
LEMMA RemovedCounts ==
  ASSUME NEW S, NEW C, NEW P, NEW B, NEW L, SlabsRight(S, P, B, L), BlocksRight(B),
         CachesList(S, C, P), CachesCount(S, C, P),
         NEW e \in CacheIds, NEW b, Removable(S, P, e, b), NEW V, NEW D, NEW Q,
         RemovedFrom(S, C, P, e, b, V, D, Q)
  PROVE  CachesCount(V, D, Q) /\ D[e].max_num \in Nat
<1>1. C \in [CacheIds -> [num : Nat, max_num : Nat, lists : [ListNames -> Seq(Nat)]]]
  BY DEF CachesList
<1>2. b \in DOMAIN S /\ P[PageOf(b)] = e /\ S[b].num = 0
  BY DEF Removable
<1>3. PICK m \in Nat : m = S[b].max_num
  BY <1>2, SlabNums
<1>4. DOMAIN V = DOMAIN S \ {b}
  BY DEF RemovedFrom
<1>5. /\ \A f : NumPlaces(S, P, f) = NumPlaces(V, Q, f)
      /\ MaxPlaces(S, P, e) = MaxPlaces(V, Q, e) \cup {b} \X (1 .. m)
      /\ MaxPlaces(V, Q, e) \cap {b} \X (1 .. m) = {}
      /\ \A f : f # e => MaxPlaces(S, P, f) = MaxPlaces(V, Q, f)
  <2>1. /\ b \notin DOMAIN V /\ DOMAIN S = DOMAIN V \cup {b}
        /\ m \in Nat /\ S[b].num = 0 /\ S[b].max_num = m
    BY <1>2, <1>3, <1>4
  <2>2. \A x \in DOMAIN V : /\ S[x].num = V[x].num /\ S[x].max_num = V[x].max_num
                            /\ P[PageOf(x)] = Q[PageOf(x)]
    <3>1. Unlinked(S, V, P, Q, b, e)
      BY RemovedLinks
    <3> QED BY ONLY <3>1 DEF Unlinked
  <2>3. /\ \A f : NumPlaces(S, P, f) = NumPlaces(V, Q, f)
        /\ MaxPlaces(S, P, P[PageOf(b)]) = MaxPlaces(V, Q, P[PageOf(b)]) \cup {b} \X (1 .. m)
        /\ MaxPlaces(V, Q, P[PageOf(b)]) \cap {b} \X (1 .. m) = {}
        /\ \A f : f # P[PageOf(b)] => MaxPlaces(S, P, f) = MaxPlaces(V, Q, f)
    BY ONLY <2>1, <2>2, SlabMore
  <2> QED BY <1>2, <2>3
<1>6. \A f \in CacheIds : /\ D[f].num = C[f].num
                          /\ D[f].max_num = C[f].max_num - (IF f = e THEN m ELSE 0)
  BY <1>1, <1>3 DEF RemovedFrom
<1>7. ASSUME NEW f \in CacheIds
      PROVE  /\ IsFiniteSet(MaxPlaces(V, Q, f))
             /\ D[f].num = Cardinality(NumPlaces(V, Q, f))
             /\ D[f].max_num = Cardinality(MaxPlaces(V, Q, f))
  <2>1. /\ IsFiniteSet(MaxPlaces(S, P, f))
        /\ C[f].num = Cardinality(NumPlaces(S, P, f))
        /\ C[f].max_num = Cardinality(MaxPlaces(S, P, f))
    BY DEF CachesCount
  <2>2. C[f].num \in Nat /\ C[f].max_num \in Nat
    BY <1>1
  <2>3. CASE f # e
    BY <1>5, <1>6, <2>1, <2>2, <2>3
  <2>4. CASE f = e
    <3>1. IsFiniteSet({b} \X (1 .. m)) /\ Cardinality({b} \X (1 .. m)) = m
      BY PlacesOfOne
    <3>2. PICK X, Y : X = MaxPlaces(V, Q, e) /\ Y = {b} \X (1 .. m)
      OBVIOUS
    <3>3. IsFiniteSet(X)
      <4>1. X \subseteq MaxPlaces(S, P, e)
        BY <1>5, <3>2
      <4> QED BY <2>1, <2>4, <4>1, FS_Subset
    <3>4. /\ IsFiniteSet(Y) /\ X \cap Y = {} /\ Cardinality(Y) = m
          /\ Cardinality(X \cup Y) = C[e].max_num
      BY <1>5, <2>1, <2>4, <3>1, <3>2
    <3>5. Cardinality(X \cup Y) = Cardinality(X) + Cardinality(Y) - Cardinality(X \cap Y)
      BY <3>3, <3>4, FS_Union
    <3>6. Cardinality(X \cap Y) = 0 /\ Cardinality(X) \in Nat
      BY <3>3, <3>4, FS_EmptySet, FS_CardinalityType
    <3>7. Cardinality(X) = C[e].max_num - m
      BY <2>2, <2>4, <3>4, <3>5, <3>6
    <3> QED BY <1>5, <1>6, <2>1, <2>4, <3>2, <3>3, <3>7
  <2> QED BY <2>3, <2>4
<1>8. D[e].max_num \in Nat
  BY <1>7, FS_CardinalityType
<1> QED BY <1>7, <1>8 DEF CachesCount

\* The lists without it.
LEMMA RemovedLists ==
  ASSUME NEW S, NEW C, NEW P, NEW B, NEW L, SlabsRight(S, P, B, L), BlocksRight(B),
         CachesList(S, C, P), CachesCount(S, C, P),
         NEW e \in CacheIds, NEW b, Removable(S, P, e, b), NEW V, NEW D, NEW Q,
         RemovedFrom(S, C, P, e, b, V, D, Q)
  PROVE  CachesList(V, D, Q)
<1>1. /\ C \in [CacheIds -> [num : Nat, max_num : Nat, lists : [ListNames -> Seq(Nat)]]]
      /\ \A f \in CacheIds, l \in ListNames : Lists(C[f].lists[l], On(S, P, f, l))
  BY DEF CachesList
<1>2. /\ b \in DOMAIN S /\ P[PageOf(b)] = e /\ S[b].on = "free"
      /\ DOMAIN V = DOMAIN S \ {b}
  BY DEF Removable, RemovedFrom
<1>3. \A x \in DOMAIN V : V[x] = S[x] /\ Q[PageOf(x)] = P[PageOf(x)]
  <2>1. Unlinked(S, V, P, Q, b, e)
    BY RemovedLinks
  <2> QED BY ONLY <2>1 DEF Unlinked
<1>4. PICK c : c = C[e] /\ c \in [num : Nat, max_num : Nat, lists : [ListNames -> Seq(Nat)]]
  BY <1>1
<1>5. PICK q : q = c.lists /\ q \in [ListNames -> Seq(Nat)]
  BY <1>4
<1>6. PICK w : w = Without(q["free"], b)
  OBVIOUS
<1>7. PICK M : M = [q EXCEPT !["free"] = w]
  OBVIOUS
<1>8. \A f, l : On(V, Q, f, l) = On(S, P, f, l) \ {b}
  BY <1>2, <1>3 DEF On
<1>9. Lists(w, On(V, Q, e, "free"))
  <2>1. Lists(q["free"], On(S, P, e, "free"))
    BY <1>1, <1>4, <1>5 DEF ListNames
  <2>2. b \in On(S, P, e, "free")
    BY <1>2 DEF On
  <2>3. Lists(w, On(S, P, e, "free") \ {b})
    BY <1>6, <2>1, <2>2, WithoutFacts
  <2> QED BY <1>8, <2>3
<1>10. w \in Seq(Nat)
  <2>1. w \in Seq(On(V, Q, e, "free"))
    BY <1>9 DEF Lists
  <2>2. On(V, Q, e, "free") \subseteq Nat
    <3>1. \A x \in DOMAIN S : x \in Nat
      BY SlabIs
    <3> QED BY <1>2, <3>1 DEF On
  <2> QED BY <2>1, <2>2
<1>11. M \in [ListNames -> Seq(Nat)]
  BY <1>5, <1>7, <1>10
<1>12. /\ D \in [CacheIds -> [num : Nat, max_num : Nat, lists : [ListNames -> Seq(Nat)]]]
       /\ D[e].lists = M /\ \A f \in CacheIds : f # e => D[f] = C[f]
  <2>1. D[e].max_num \in Nat
    BY RemovedCounts
  <2>2. PICK n, d : n = c.max_num - S[b].max_num /\ d = [num |-> c.num, max_num |-> n, lists |-> M]
    OBVIOUS
  <2>3. D = [C EXCEPT ![e] = d]
    BY <1>4, <1>5, <1>6, <1>7, <2>2 DEF RemovedFrom
  <2>4. D[e] = d /\ d.max_num = n
    BY <1>1, <2>2, <2>3
  <2>5. d \in [num : Nat, max_num : Nat, lists : [ListNames -> Seq(Nat)]] /\ d.lists = M
    BY <1>4, <1>11, <2>1, <2>2, <2>4
  <2> QED BY <1>1, <2>3, <2>5
<1>13. ASSUME NEW f \in CacheIds, NEW l \in ListNames PROVE Lists(D[f].lists[l], On(V, Q, f, l))
  <2>1. CASE f = e /\ l = "free"
    <3>1. D[f].lists[l] = w
      BY <1>5, <1>7, <1>12, <2>1
    <3> QED BY <1>9, <2>1, <3>1
  <2>2. CASE ~ (f = e /\ l = "free")
    <3>1. D[f].lists[l] = C[f].lists[l]
      <4>1. CASE f = e
        BY <1>4, <1>5, <1>7, <1>12, <2>2, <4>1
      <4>2. CASE f # e
        BY <1>12, <4>2
      <4> QED BY <4>1, <4>2
    <3>2. b \notin On(S, P, f, l)
      BY <1>2, <2>2 DEF On
    <3>3. On(V, Q, f, l) = On(S, P, f, l)
      BY <1>8, <3>2
    <3> QED BY <1>1, <3>1, <3>3
  <2> QED BY <2>1, <2>2
<1> QED BY <1>12, <1>13 DEF CachesList

\* The pages of what is held are linked to what they were.
SameLinks(P, Q, R) == \A r \in R : Q[PageOf(r[1])] = P[PageOf(r[1])]

\* Links and what is held, with the pages of b.
LEMMA RemovedHeld ==
  ASSUME NEW S, NEW C, NEW P, NEW B, NEW R, Good(S, C, P, B, R),
         NEW e \in CacheIds, NEW b, Removable(S, P, e, b), NEW V, NEW D, NEW Q,
         RemovedFrom(S, C, P, e, b, V, D, Q)
  PROVE  /\ LinksRight(V, Q)
         /\ HeldRight(V, Q, B, R \cup {<<b, Entries[e].pages * PageSize>>})
         /\ SameLinks(P, Q, R)
<1>1. /\ SlabsRight(S, P, B, Addresses(R)) /\ LinksRight(S, P) /\ BlocksRight(B)
      /\ HeldRight(S, P, B, R)
  BY DEF Good
<1>2. b \in DOMAIN S /\ P[PageOf(b)] = e
  BY DEF Removable
<1>3. DOMAIN V = DOMAIN S \ {b}
  BY DEF RemovedFrom
<1>4. Unlinked(S, V, P, Q, b, e)
  BY <1>1, RemovedLinks
<1>5. /\ Q \in [Pages -> CacheIds \cup {None}]
      /\ \A q \in Pages : Q[q] = IF q \in PagesOf(b, e) THEN None ELSE P[q]
  BY <1>1 DEF LinksRight, RemovedFrom
<1>6. ASSUME NEW q \in Pages, Q[q] # None
      PROVE  \E x \in DOMAIN V : Q[PageOf(x)] \in CacheIds /\ q \in PagesOf(x, Q[PageOf(x)])
  <2>1. q \notin PagesOf(b, e) /\ P[q] # None
    BY <1>5, <1>6
  <2>2. PICK x \in DOMAIN S : P[PageOf(x)] \in CacheIds /\ q \in PagesOf(x, P[PageOf(x)])
    BY <1>1, <2>1 DEF LinksRight
  <2>3. x \in DOMAIN V
    BY <1>2, <1>3, <2>1, <2>2
  <2>4. Q[PageOf(x)] = P[PageOf(x)]
    BY <1>4, <2>3 DEF Unlinked
  <2> QED BY <2>2, <2>3, <2>4
<1>7. LinksRight(V, Q)
  BY <1>5, <1>6 DEF LinksRight
<1>8. /\ b \notin Addresses(R)
      /\ \A r \in R, i \in 0 .. S[b].max_num - 1 : r[1] # ObjectAt(S[b], i)
  BY RemovedApart
<1>9. ASSUME NEW r \in R, InObject(r[1], r[2], S)
      PROVE  InObject(r[1], r[2], V) /\ Q[PageOf(r[1])] = P[PageOf(r[1])]
  <2>1. PICK x \in DOMAIN S : \E i \in 0 .. S[x].max_num - 1 :
          r[1] = ObjectAt(S[x], i) /\ r[2] <= S[x].size
    BY <1>9 DEF InObject
  <2>2. PICK i \in 0 .. S[x].max_num - 1 : r[1] = ObjectAt(S[x], i) /\ r[2] <= S[x].size
    BY <2>1
  <2>3. x # b
    BY <1>8, <2>2
  <2>4. x \in DOMAIN V
    BY <1>3, <2>3
  <2>5. V[x] = S[x] /\ \A q \in PagesOf(x, P[PageOf(x)]) : Q[q] = P[q]
    BY <1>4, <2>4 DEF Unlinked
  <2>6. InObject(r[1], r[2], V)
    BY <2>2, <2>4, <2>5 DEF InObject
  <2>7. S[x].max_num \in Nat
    BY <1>1, SlabNums
  <2>8. i \in 0 .. S[x].max_num
    BY <2>7
  <2>9. PageOf(ObjectAt(S[x], i)) \in PagesOf(x, P[PageOf(x)])
    BY <1>1, <2>8, OneObject
  <2> QED BY <2>2, <2>5, <2>6, <2>9
<1>10. ASSUME NEW r \in R, InPages(r[1], r[2], S, P, B)
       PROVE  InPages(r[1], r[2], V, Q, B) /\ Q[PageOf(r[1])] = P[PageOf(r[1])]
  <2>1. PageOf(r[1]) \in Pages /\ P[PageOf(r[1])] = None
    BY <1>1, <1>10 DEF InPages, BlocksRight
  <2>2. Q[PageOf(r[1])] = None
    BY <1>5, <2>1
  <2>3. r[1] \notin DOMAIN V
    BY <1>3, <1>10 DEF InPages
  <2> QED BY <1>10, <2>1, <2>2, <2>3 DEF InPages
<1>11. HeldRight(V, Q, B, R)
  BY <1>1, <1>9, <1>10 DEF HeldRight
<1>12. PICK n : n = Entries[e].pages * PageSize
  OBVIOUS
<1>13. InPages(b, n, V, Q, B) /\ n \in Nat
  <2>1. SlabRight(S[b], b, e, P, B, Addresses(R))
    BY <1>1, <1>2, SlabIs
  <2>2. /\ PagesOf(b, e) \subseteq Pages /\ PageOf(b) \in PagesOf(b, e)
    BY <1>1, <2>1, PagesInBlock
  <2>3. Q[PageOf(b)] = None
    BY <1>5, <2>2
  <2>4. /\ OrderOf(e) \in Orders /\ Entries[e].pages <= Size[OrderOf(e)]
        /\ Entries[e].pages \in Nat /\ Size[OrderOf(e)] \in Nat /\ PageSize \in Nat \ {0}
    BY EntryFacts
  <2>5. PICK d \in Nat : Size[OrderOf(e)] = Entries[e].pages + d
    <3>1. Size[OrderOf(e)] - Entries[e].pages \in Nat
      BY <2>4
    <3> QED BY <2>4, <3>1
  <2>6. n <= Size[OrderOf(e)] * PageSize /\ n \in Nat
    <3>1. d * PageSize \in Nat /\ n \in Nat
      BY <1>12, <2>4
    <3>2. Size[OrderOf(e)] * PageSize = n + d * PageSize
      BY <1>12, <2>4, <2>5
    <3> QED BY <3>1, <3>2
  <2>7. b \in Nat /\ b % PageSize = 0 /\ b \notin DOMAIN V
        /\ <<PageOf(b), OrderOf(e)>> \in B
    BY <1>3, <2>1 DEF SlabRight
  <2> QED BY <2>3, <2>4, <2>6, <2>7 DEF InPages
<1>14. HeldRight(V, Q, B, R \cup {<<b, n>>})
  BY <1>8, <1>11, <1>13, OneHeld
<1>15. \A r \in R : Q[PageOf(r[1])] = P[PageOf(r[1])]
  BY <1>1, <1>9, <1>10 DEF HeldRight
<1> QED BY <1>7, <1>12, <1>14, <1>15 DEF SameLinks

\* The heap without slab b, whose pages the caller has.
LEMMA RemoveGood ==
  ASSUME NEW S, NEW C, NEW P, NEW B, NEW R, Good(S, C, P, B, R),
         NEW e \in CacheIds, NEW b, Removable(S, P, e, b), NEW V, NEW D, NEW Q,
         RemovedFrom(S, C, P, e, b, V, D, Q)
  PROVE  Good(V, D, Q, B, R \cup {<<b, Entries[e].pages * PageSize>>})
<1>1. /\ SlabsRight(S, P, B, Addresses(R)) /\ CachesList(S, C, P) /\ CachesCount(S, C, P)
      /\ BlocksRight(B)
  BY DEF Good
<1>2. PICK n : n = Entries[e].pages * PageSize
  OBVIOUS
<1>3. SlabsRight(V, Q, B, Addresses(R) \cup {b})
  BY <1>1, RemovedSlabs
<1>4. Addresses(R \cup {<<b, n>>}) = Addresses(R) \cup {b}
  BY OneAddress
<1>5. CachesList(V, D, Q) /\ CachesCount(V, D, Q)
  BY <1>1, RemovedLists, RemovedCounts
<1>6. LinksRight(V, Q) /\ HeldRight(V, Q, B, R \cup {<<b, n>>})
  BY <1>2, RemovedHeld
<1>7. Good(V, D, Q, B, R \cup {<<b, n>>})
  BY ONLY <1>1, <1>3, <1>4, <1>5, <1>6 DEF Good
<1> QED BY ONLY <1>2, <1>7

\* The objects begin on the page of the struct.
LEMMA MemPage ==
  ASSUME NEW e \in CacheIds, NEW s, NEW b \in Nat, b % PageSize = 0, SlabOf(s, b, e)
  PROVE  PageOf(s.mem) = PageOf(b)
<1>1. s.mem = b + Ahead(e)
  BY SlabFacts
<1>2. Ahead(e) \in Nat /\ Ahead(e) < PageSize /\ PageSize \in Nat \ {0}
  BY EntryFacts
<1>3. PICK q \in Nat : b = q * PageSize /\ PageOf(b) = q
  BY <1>2, Divided DEF PageOf
<1>4. PICK a \in Nat : a = s.mem
  BY <1>1, <1>2
<1>5. q * PageSize <= a /\ a < q * PageSize + PageSize
  BY <1>1, <1>2, <1>3, <1>4
<1>6. a \div PageSize = q
  BY <1>2, <1>5, Within
<1> QED BY <1>3, <1>4, <1>6 DEF PageOf

\* What kalloc_cache_remove_slab makes of the heap, by way of h.
Removing(S, C, P, e, b, h, g) ==
  /\ h = LinkPages([Unlisted(Hp(S, C, P), e, b) EXCEPT !.caches[e].max_num = @ - S[b].max_num],
                   S[b], None)
  /\ g = [h EXCEPT !.slabs = IF b \in Range(h.caches[e].lists["free"]) THEN @
                              ELSE Restrict(@, DOMAIN @ \ {b})]

\* When it takes the slab off the list it does this.
LEMMA RemoveIs ==
  ASSUME NEW S, NEW C, NEW P, NEW B, NEW R, Good(S, C, P, B, R), RemoveUnlinks,
         NEW e \in CacheIds, NEW b, Removable(S, P, e, b), NEW h, NEW g,
         Removing(S, C, P, e, b, h, g)
  PROVE  \E V, D, Q : g = Hp(V, D, Q) /\ RemovedFrom(S, C, P, e, b, V, D, Q)
<1>0. /\ h = LinkPages([Unlisted(Hp(S, C, P), e, b) EXCEPT !.caches[e].max_num = @ - S[b].max_num],
                       S[b], None)
      /\ g = [h EXCEPT !.slabs = IF b \in Range(h.caches[e].lists["free"]) THEN @
                                  ELSE Restrict(@, DOMAIN @ \ {b})]
  BY DEF Removing
<1>1. SlabsRight(S, P, B, Addresses(R)) /\ CachesList(S, C, P)
  BY DEF Good
<1>2. b \in DOMAIN S /\ P[PageOf(b)] = e /\ S[b].on = "free"
  BY DEF Removable
<1>3. /\ C \in [CacheIds -> [num : Nat, max_num : Nat, lists : [ListNames -> Seq(Nat)]]]
      /\ Lists(C[e].lists["free"], On(S, P, e, "free"))
  BY <1>1 DEF CachesList, ListNames
<1>4. PICK c : c = C[e] /\ c \in [num : Nat, max_num : Nat, lists : [ListNames -> Seq(Nat)]]
  BY <1>3
<1>5. PICK q, m : q = c.lists /\ m = S[b].max_num
  OBVIOUS
<1>6. PICK w : w = Without(q["free"], b)
  OBVIOUS
<1>7. b \notin Range(w)
  <2>1. b \in On(S, P, e, "free")
    BY <1>2 DEF On
  <2>2. Lists(w, On(S, P, e, "free") \ {b})
    BY <1>3, <1>4, <1>5, <1>6, <2>1, WithoutFacts
  <2> QED BY <2>2, ListFacts
<1>8. PICK k, d : k = [q EXCEPT !["free"] = w] /\ d = [num |-> c.num, max_num |-> c.max_num - m, lists |-> k]
  OBVIOUS
<1>9. PICK E, D : E = [C EXCEPT ![e].lists["free"] = w] /\ D = [C EXCEPT ![e] = d]
  OBVIOUS
<1>10. PICK u : u = Unlisted(Hp(S, C, P), e, b)
  OBVIOUS
<1>11. u = Hp(S, E, P)
  <2>1. PICK o : o = Hp(S, C, P)
    OBVIOUS
  <2>2. u = [o EXCEPT !.caches = [o.caches EXCEPT ![e].lists["free"] = Without(@, b)]]
    BY <1>10, <2>1 DEF Unlisted, Hp
  <2>3. o.caches = C
    BY <2>1, HpFields
  <2>4. [C EXCEPT ![e].lists["free"] = Without(@, b)] = E
    BY <1>4, <1>5, <1>6, <1>9
  <2>5. u = [o EXCEPT !.caches = E]
    BY ONLY <2>2, <2>3, <2>4
  <2> QED BY ONLY <2>1, <2>5, HpFields
<1>12. [E EXCEPT ![e].max_num = @ - m] = D
  <2>1. PICK y : y = [c EXCEPT !.lists["free"] = w]
    OBVIOUS
  <2>2. c = [num |-> c.num, max_num |-> c.max_num, lists |-> q]
    BY <1>4, <1>5
  <2>3. y = [num |-> c.num, max_num |-> c.max_num, lists |-> k]
    <3>1. PICK i, j : i = c.num /\ j = c.max_num
      OBVIOUS
    <3>2. c = [num |-> i, max_num |-> j, lists |-> q]
      BY ONLY <2>2, <3>1
    <3>3. y = [num |-> i, max_num |-> j, lists |-> k]
      BY ONLY <1>8, <2>1, <3>2
    <3> QED BY ONLY <3>1, <3>3
  <2>4. [y EXCEPT !.max_num = @ - m] = d
    <3>1. PICK i, j : i = c.num /\ j = c.max_num
      OBVIOUS
    <3>2. y = [num |-> i, max_num |-> j, lists |-> k]
      BY ONLY <2>3, <3>1
    <3>3. [y EXCEPT !.max_num = @ - m] = [num |-> i, max_num |-> j - m, lists |-> k]
      BY ONLY <3>2
    <3> QED BY ONLY <1>8, <3>1, <3>3
  <2>5. E = [C EXCEPT ![e] = y]
    BY <1>3, <1>4, <1>9, <2>1
  <2> QED BY <1>3, <1>9, <2>4, <2>5
<1>13. PICK v : v = [u EXCEPT !.caches[e].max_num = @ - m]
  OBVIOUS
<1>14. v = Hp(S, D, P)
  <2>1. v = [u EXCEPT !.caches = [u.caches EXCEPT ![e].max_num = @ - m]]
    BY <1>11, <1>13 DEF Hp
  <2>2. u.caches = E
    BY <1>11, HpFields
  <2>3. v = [u EXCEPT !.caches = D]
    BY ONLY <1>12, <2>1, <2>2
  <2> QED BY ONLY <1>11, <2>3, HpFields
<1>15. PICK Q : Q = [p \in Pages |-> IF p \in PagesOf(b, e) THEN None ELSE P[p]]
  OBVIOUS
<1>16. h = Hp(S, D, Q)
  <2>1. SlabOf(S[b], b, e) /\ b \in Nat /\ b % PageSize = 0
    BY <1>1, <1>2, SlabIs
  <2>2. S[b].pages = Entries[e].pages /\ PageOf(S[b].mem) = PageOf(b)
    BY <2>1, SlabFacts, MemPage
  <2>3. LinkPages(v, S[b], None) = [v EXCEPT !.page_obj = Q]
    BY <1>14, <1>15, <2>2 DEF LinkPages, PagesOf, Hp
  <2>4. [v EXCEPT !.page_obj = Q] = Hp(S, D, Q)
    BY ONLY <1>14, HpFields
  <2>5. h = LinkPages(v, S[b], None)
    BY <1>0, <1>5, <1>10, <1>13
  <2> QED BY ONLY <2>3, <2>4, <2>5
<1>17. PICK V : V = Restrict(S, DOMAIN S \ {b})
  OBVIOUS
<1>18. g = Hp(V, D, Q)
  <2>1. h.slabs = S /\ h.caches = D
    BY <1>16, HpFields
  <2>2. D[e].lists["free"] = w
    <3>1. D[e] = d
      BY <1>3, <1>9
    <3>2. d.lists = k
      BY <1>8
    <3>3. q \in [ListNames -> Seq(Nat)]
      BY <1>4, <1>5
    <3>4. k["free"] = w
      BY <1>8, <3>3 DEF ListNames
    <3> QED BY <3>1, <3>2, <3>4
  <2>3. b \notin Range(h.caches[e].lists["free"])
    BY ONLY <1>7, <2>1, <2>2
  <2>4. g = [h EXCEPT !.slabs = V]
    BY <1>0, <1>17, <2>1, <2>3
  <2> QED BY ONLY <1>16, <2>4, HpFields
<1>19. RemovedFrom(S, C, P, e, b, V, D, Q)
  <2>1. DOMAIN V = DOMAIN S \ {b} /\ \A x \in DOMAIN V : V[x] = S[x]
    BY <1>17 DEF Restrict
  <2>2. D = [C EXCEPT ![e] = [num |-> C[e].num, max_num |-> C[e].max_num - S[b].max_num,
                              lists |-> [C[e].lists EXCEPT !["free"] = Without(@, b)]]]
    <3>1. [q EXCEPT !["free"] = Without(@, b)] = k
      BY <1>4, <1>5, <1>6, <1>8
    <3>2. d = [num |-> C[e].num, max_num |-> C[e].max_num - S[b].max_num,
               lists |-> [C[e].lists EXCEPT !["free"] = Without(@, b)]]
      BY ONLY <1>4, <1>5, <1>8, <3>1
    <3> QED BY ONLY <1>9, <3>2
  <2> QED BY ONLY <1>15, <2>1, <2>2 DEF RemovedFrom
<1> QED BY <1>18, <1>19

---------------------------------------------------------------------------
(* What the steps rest on. *)

\* What is being freed has its address still, but no bytes.
LEMMA LooksGood ==
  ASSUME NEW S, NEW C, NEW P, NEW B, NEW R, Good(S, C, P, B, R), NEW r \in R
  PROVE  Good(S, C, P, B, (R \ {r}) \cup {<<r[1], 0>>})
<1>1. /\ SlabsRight(S, P, B, Addresses(R)) /\ CachesList(S, C, P) /\ CachesCount(S, C, P)
      /\ LinksRight(S, P) /\ BlocksRight(B) /\ HeldRight(S, P, B, R)
  BY DEF Good
<1>2. PICK Q, a : Q = R \ {r} /\ a = r[1]
  OBVIOUS
<1>3. Addresses(Q) = Addresses(R) \ {a} /\ a \in Addresses(R)
  BY <1>1, <1>2, OneLess
<1>4. Addresses(Q \cup {<<a, 0>>}) = Addresses(R)
  <2>1. Addresses(Q \cup {<<a, 0>>}) = Addresses(Q) \cup {a}
    BY OneAddress
  <2> QED BY ONLY <1>3, <2>1
<1>5. HeldRight(S, P, B, Q)
  BY <1>1, <1>2 DEF HeldRight
<1>6. InObject(a, 0, S) \/ InPages(a, 0, S, P, B)
  <2>1. CASE InObject(r[1], r[2], S)
    <3>1. \A x \in DOMAIN S : 0 <= S[x].size
      BY <1>1, SlabIs, SlabFacts
    <3> QED BY <1>2, <2>1, <3>1 DEF InObject
  <2>2. CASE InPages(r[1], r[2], S, P, B)
    <3>1. \A k \in Orders : 0 <= Size[k] * PageSize
      <4>1. PageSize \in Nat /\ \A k \in Orders : Size[k] \in Nat
        BY FitAssumption, SlabAssumption
      <4> QED BY <4>1
    <3> QED BY <1>2, <2>2, <3>1 DEF InPages
  <2> QED BY <1>1, <2>1, <2>2 DEF HeldRight
<1>7. HeldRight(S, P, B, Q \cup {<<a, 0>>})
  BY <1>3, <1>5, <1>6, OneHeld
<1>8. Good(S, C, P, B, Q \cup {<<a, 0>>})
  BY ONLY <1>1, <1>4, <1>7 DEF Good
<1> QED BY ONLY <1>2, <1>8

\* A cache that is not full has a slab that is not.
LEMMA NotFull ==
  ASSUME NEW S, NEW C, NEW P, NEW B, NEW L, SlabsRight(S, P, B, L), CachesCount(S, C, P),
         NEW e \in CacheIds, C[e].num # C[e].max_num
  PROVE  \E c \in DOMAIN S : P[PageOf(c)] = e /\ S[c].num # S[c].max_num
<1>1. SUFFICES ASSUME \A c \in DOMAIN S : P[PageOf(c)] = e => S[c].num = S[c].max_num PROVE FALSE
  OBVIOUS
<1>2. NumPlaces(S, P, e) = MaxPlaces(S, P, e)
  BY <1>1 DEF NumPlaces, MaxPlaces
<1> QED BY <1>2 DEF CachesCount

\* get_entry_num_from_size finds an entry for what is not larger than the last.
LEMMA EntryForIs ==
  ASSUME NEW n \in Nat, n <= Entries[Len(Entries)].size
  PROVE  EntryFor(n) \in CacheIds /\ n <= Entries[EntryFor(n)].size
<1>1. CacheIds = 1 .. Len(Entries) /\ Len(Entries) \in Nat \ {0}
  BY NoneIsNoCache
<1>2. \A e \in CacheIds : Entries[e].size \in Nat
  BY EntryFacts
<1> DEFINE F == {i \in CacheIds : n <= Entries[i].size}
<1>3. F \in SUBSET Nat /\ F # {}
  BY <1>1
<1>4. PICK i \in F : \A j \in F : i <= j
  BY <1>3, Least
<1>5. \A j \in 1 .. i - 1 : n > Entries[j].size
  <2> TAKE j \in 1 .. i - 1
  <2>1. j \in CacheIds /\ ~ (i <= j)
    BY <1>1, <1>4
  <2>2. j \notin F
    BY <1>4, <2>1
  <2> QED BY <1>2, <2>1, <2>2
<1>6. \E k \in CacheIds : n <= Entries[k].size /\ \A j \in 1 .. k - 1 : n > Entries[j].size
  BY <1>4, <1>5
<1> QED BY <1>6 DEF EntryFor

\* What is held is on a page of the page allocator.
LEMMA HeldPage ==
  ASSUME NEW S, NEW C, NEW P, NEW B, NEW R, Good(S, C, P, B, R), NEW r \in R
  PROVE  r[1] \in Nat /\ PageOf(r[1]) \in Pages
<1>1. SlabsRight(S, P, B, Addresses(R)) /\ BlocksRight(B) /\ HeldRight(S, P, B, R)
  BY DEF Good
<1>2. CASE InPages(r[1], r[2], S, P, B)
  BY <1>1, <1>2 DEF InPages, BlocksRight
<1>3. CASE InObject(r[1], r[2], S)
  <2>1. PICK x \in DOMAIN S : \E i \in 0 .. S[x].max_num - 1 : r[1] = ObjectAt(S[x], i)
    BY <1>3 DEF InObject
  <2>2. PICK i \in 0 .. S[x].max_num - 1 : r[1] = ObjectAt(S[x], i)
    BY <2>1
  <2>3. S[x].max_num \in Nat
    BY <1>1, SlabNums
  <2>4. i \in 0 .. S[x].max_num
    BY <2>3
  <2>5. SlabRight(S[x], x, P[PageOf(x)], P, B, Addresses(R))
    BY <1>1, SlabIs
  <2>6. PageOf(ObjectAt(S[x], i)) \in PagesOf(x, P[PageOf(x)])
    BY <1>1, <2>4, OneObject
  <2>7. PagesOf(x, P[PageOf(x)]) \subseteq Pages
    BY <1>1, <2>5, PagesInBlock
  <2>8. ObjectAt(S[x], i) \in Nat
    <3>1. SlabOf(S[x], x, P[PageOf(x)]) /\ x \in Nat /\ P[PageOf(x)] \in CacheIds
      BY <1>1, SlabIs
    <3> QED BY <2>4, <3>1, ObjectPlace
  <2> QED BY <2>2, <2>6, <2>7, <2>8
<1> QED BY <1>1, <1>2, <1>3 DEF HeldRight

\* What is being freed is held.
LEMMA FreedIsHeld ==
  ASSUME NEW c \in Cores, freeing[c] # None
  PROVE  <<freeing[c].obj, 0>> \in Held /\ freeing[c].obj \in Addresses(Held)
<1>1. <<freeing[c].obj, 0>> \in Held
  BY DEF Held, BeingFreed
<1>2. <<freeing[c].obj, 0>>[1] = freeing[c].obj
  OBVIOUS
<1> QED BY <1>1, <1>2 DEF Addresses

\* A step that leaves what is held and adds X keeps the invariant when the heap
\* is good with both.
LEMMA MoreHeld ==
  ASSUME HInv, NEW V, NEW D, NEW Q, NEW E, NEW X, Good(V, D, Q, E, Held \cup X),
         \A x \in X : x[1] \notin Addresses(Held),
         \A r \in Held : Q[PageOf(r[1])] = page_obj[PageOf(r[1])],
         SetHeap(Hp(V, D, Q)), blocks' = E, regions' = regions \cup X, freeing' = freeing,
         inited' \in 0 .. Len(Entries)
  PROVE  HInv'
<1>1. /\ slabs' = V /\ caches' = D /\ page_obj' = Q /\ panic' = "none"
  BY HpFields DEF SetHeap
<1>2. Held' = Held \cup X
  BY DEF Held, BeingFreed
<1>3. Good(slabs, caches, page_obj, blocks, Held)'
  BY <1>1, <1>2
<1>4. FreeingRight(freeing, page_obj, regions)'
  <2>1. FreeingRight(freeing, page_obj, regions)
    BY DEF HInv
  <2>2. ASSUME NEW c \in Cores, freeing[c] # None
        PROVE  /\ freeing[c].cache = Q[PageOf(freeing[c].obj)]
               /\ \A r \in regions \cup X : r[1] # freeing[c].obj
               /\ \A d \in Cores \ {c} : freeing[d] # None => freeing[d].obj # freeing[c].obj
    <3>1. PICK a : a = freeing[c].obj
      OBVIOUS
    <3>2. <<a, 0>> \in Held /\ a \in Addresses(Held)
      BY <2>2, <3>1, FreedIsHeld
    <3>3. Q[PageOf(a)] = page_obj[PageOf(a)]
      BY <3>2
    <3> QED BY <2>1, <2>2, <3>1, <3>2, <3>3 DEF FreeingRight
  <2> QED BY <1>1, <2>1, <2>2 DEF FreeingRight
<1> QED BY <1>1, <1>3, <1>4 DEF HInv

\* What ALIGN_UP gives is aligned.
LEMMA AlignedUp ==
  ASSUME NEW n \in Nat, NEW a \in Nat \ {0}
  PROVE  AlignUp(n, a) % a = 0
<1>1. PICK q \in Nat : q = n \div a
  OBVIOUS
<1>2. PICK r \in 0 .. a - 1 : r = n % a
  OBVIOUS
<1>3. PICK k \in Nat : k = q * a
  OBVIOUS
<1>4. n = k + r
  BY <1>1, <1>2, <1>3
<1>5. k % a = 0
  BY <1>3, Multiple
<1>6. (q + 1) * a = k + a
  BY <1>3
<1>7. (k + a) % a = 0
  <2>1. q + 1 \in Nat /\ a \in Nat /\ a > 0
    OBVIOUS
  <2>2. ((q + 1) * a) % a = 0
    BY ONLY <2>1, Multiple
  <2> QED BY <1>6, <2>2
<1>8. CASE r = 0
  BY <1>2, <1>4, <1>5, <1>8 DEF AlignUp
<1>9. CASE r # 0
  <2>1. AlignUp(n, a) = k + a
    BY <1>2, <1>4, <1>9 DEF AlignUp
  <2> QED BY <1>7, <2>1
<1> QED BY <1>8, <1>9

\* The heap of the state, when nothing has failed.
LEMMA HeapIs ==
  ASSUME panic = "none"
  PROVE  Heap = Hp(slabs, caches, page_obj)
BY DEF Heap, Hp

\* A block that may be taken is free.
LEMMA TakeableIsFree ==
  ASSUME NEW p \in Pages, NEW k \in Orders, TakePages(p, k)
  PROVE  FreeBlock(p, k, blocks) /\ blocks' = blocks \cup {<<p, k>>}
BY DEF TakePages, Takeable, FreeBlock, Pool!Take

\* The steps of kalloc_init,
LEMMA InitEntryKeeps ==
  ASSUME HInv, InitEntry
  PROVE  HInv'
<1>1. PICK e : e = inited + 1 /\ e \in CacheIds /\ panic = "none" /\ inited' = e
  BY DEF InitEntry
<1>2. PICK p \in Pages : TakePages(p, OrderOf(e)) /\ SetHeap(AddSlab(Heap, e, p * PageSize))
  BY <1>1 DEF InitEntry, OrderOf
<1>3. freeing' = freeing /\ regions' = regions
  BY DEF InitEntry
<1>4. Good(slabs, caches, page_obj, blocks, Held)
  BY DEF HInv
<1>5. OrderOf(e) \in Orders
  BY <1>1, EntryFacts
<1>6. FreeBlock(p, OrderOf(e), blocks) /\ blocks' = blocks \cup {<<p, OrderOf(e)>>}
  BY <1>2, <1>5, TakeableIsFree
<1>7. PICK E : E = blocks \cup {<<p, OrderOf(e)>>}
  OBVIOUS
<1>8. PICK V, D, Q : Expanded(slabs, caches, page_obj, E, Held, e, p * PageSize, V, D, Q)
  BY <1>1, <1>4, <1>6, <1>7, ExpandGood
<1>9. /\ AddSlab(Hp(slabs, caches, page_obj), e, p * PageSize) = Hp(V, D, Q)
      /\ Good(V, D, Q, E, Held)
      /\ \A r \in Held : Q[PageOf(r[1])] = page_obj[PageOf(r[1])]
  BY <1>8 DEF Expanded
<1>10. SetHeap(Hp(V, D, Q))
  BY <1>1, <1>2, <1>9, HeapIs
<1>11. PICK X : X = {}
  OBVIOUS
<1>12. Held \cup X = Held /\ regions' = regions \cup X /\ \A x \in X : x[1] \notin Addresses(Held)
  BY <1>3, <1>11
<1>13. Good(V, D, Q, E, Held \cup X) /\ blocks' = E
  BY <1>6, <1>7, <1>9, <1>12
<1>14. inited' \in 0 .. Len(Entries)
  BY <1>1, NoneIsNoCache
<1> QED BY <1>3, <1>9, <1>10, <1>12, <1>13, <1>14, MoreHeld

\* of kalloc_alloc,
LEMMA AllocObjectKeeps ==
  ASSUME HInv, NEW n \in Requests, AllocObject(n)
  PROVE  /\ HInv'
         /\ \E o : regions' = regions \cup {<<o, n>>} /\ o \notin Addresses(Held)
<1>1. PICK e : e = EntryFor(n)
  OBVIOUS
<1>2. /\ Ready /\ n <= Entries[Len(Entries)].size /\ ~Full(e)
      /\ SetHeap(CacheAlloc(Heap, e).h)
      /\ regions' = regions \cup {<<CacheAlloc(Heap, e).obj, n>>}
      /\ blocks' = blocks /\ freeing' = freeing /\ inited' = inited
  BY <1>1 DEF AllocObject
<1>3. panic = "none" /\ n \in Nat
  BY <1>2, FitAssumption DEF Ready
<1>4. e \in CacheIds /\ n <= Entries[e].size
  BY <1>1, <1>2, <1>3, EntryForIs
<1>5. Good(slabs, caches, page_obj, blocks, Held) /\ inited \in 0 .. Len(Entries)
  BY DEF HInv
<1>6. PICK c \in DOMAIN slabs : page_obj[PageOf(c)] = e /\ slabs[c].num # slabs[c].max_num
  <2>1. SlabsRight(slabs, page_obj, blocks, Addresses(Held)) /\ CachesCount(slabs, caches, page_obj)
    BY <1>5 DEF Good
  <2>2. caches[e].num # caches[e].max_num
    BY <1>2 DEF Full
  <2> QED BY <1>4, <2>1, <2>2, NotFull
<1>7. PICK V, D, o : Alloced(slabs, caches, page_obj, blocks, Held, e, n, V, D, o)
  BY <1>3, <1>4, <1>5, <1>6, AllocGood
<1>8. /\ CacheAlloc(Heap, e).h = Hp(V, D, page_obj) /\ CacheAlloc(Heap, e).obj = o
      /\ o \notin Addresses(Held)
      /\ Good(V, D, page_obj, blocks, Held \cup {<<o, n>>})
  BY <1>3, <1>7, HeapIs DEF Alloced
<1>9. SetHeap(Hp(V, D, page_obj)) /\ regions' = regions \cup {<<o, n>>}
  BY <1>2, <1>8
<1>10. \A x \in {<<o, n>>} : x[1] \notin Addresses(Held)
  BY <1>8
<1>11. HInv'
  BY <1>2, <1>5, <1>8, <1>9, <1>10, MoreHeld
<1> QED BY <1>8, <1>9, <1>11

\* What a failure for want of memory leaves.
LEMMA NoMemoryKeeps ==
  ASSUME HInv, NoMemory
  PROVE  HInv'
<1>1. /\ slabs' = slabs /\ caches' = caches /\ page_obj' = page_obj /\ blocks' = blocks
      /\ regions' = regions /\ freeing' = freeing /\ inited' = inited /\ panic' = "memory"
  BY DEF NoMemory
<1>2. Held' = Held
  BY <1>1 DEF Held, BeingFreed
<1>3. Good(slabs, caches, page_obj, blocks, Held)'
  BY <1>1, <1>2 DEF HInv
<1>4. FreeingRight(freeing, page_obj, regions)'
  BY <1>1 DEF HInv
<1> QED BY <1>1, <1>3, <1>4 DEF HInv

\* What a call that allocates n bytes does when pages are left.
Allocates(n) ==
  \E o, m : /\ regions' = regions \cup {<<o, m>>} /\ o \notin Addresses(Held)
            /\ m \in Nat /\ m >= n

\* Allocation from a cache that is expanded,
LEMMA AllocExpandsKeeps ==
  ASSUME HInv, NEW n \in Requests, AllocExpands(n)
  PROVE  HInv' /\ (NoMemory \/ Allocates(n))
<1>1. PICK e : e = EntryFor(n)
  OBVIOUS
<1>2. Ready /\ n <= Entries[Len(Entries)].size
  BY DEF AllocExpands
<1>3. panic = "none" /\ n \in Nat
  BY <1>2, FitAssumption DEF Ready
<1>4. e \in CacheIds /\ n <= Entries[e].size
  BY <1>1, <1>2, <1>3, EntryForIs
<1>5. Good(slabs, caches, page_obj, blocks, Held) /\ inited \in 0 .. Len(Entries)
  BY DEF HInv
<1>6. CASE NoMemory
  BY <1>6, NoMemoryKeeps
<1>7. CASE ~NoMemory
  <2>1. PICK p \in Pages :
          /\ TakePages(p, OrderOf(e))
          /\ SetHeap(CacheAlloc(AddSlab(Heap, e, p * PageSize), e).h)
          /\ regions' = regions \cup {<<CacheAlloc(AddSlab(Heap, e, p * PageSize), e).obj, n>>}
          /\ freeing' = freeing /\ inited' = inited
    BY <1>1, <1>7 DEF AllocExpands, OrderOf
  <2>2. OrderOf(e) \in Orders
    BY <1>4, EntryFacts
  <2>3. PICK E : E = blocks \cup {<<p, OrderOf(e)>>}
    OBVIOUS
  <2>4. FreeBlock(p, OrderOf(e), blocks) /\ blocks' = E
    BY <2>1, <2>2, <2>3, TakeableIsFree
  <2>5. PICK V, D, Q : Expanded(slabs, caches, page_obj, E, Held, e, p * PageSize, V, D, Q)
    BY <1>4, <1>5, <2>3, <2>4, ExpandGood
  <2>6. /\ AddSlab(Hp(slabs, caches, page_obj), e, p * PageSize) = Hp(V, D, Q)
        /\ Good(V, D, Q, E, Held)
        /\ p * PageSize \in DOMAIN V /\ Q[PageOf(p * PageSize)] = e
        /\ V[p * PageSize].num # V[p * PageSize].max_num
        /\ \A r \in Held : Q[PageOf(r[1])] = page_obj[PageOf(r[1])]
    BY <2>5 DEF Expanded
  <2>7. PICK W, F, o : Alloced(V, D, Q, E, Held, e, n, W, F, o)
    BY <1>3, <1>4, <2>6, AllocGood
  <2>8. /\ CacheAlloc(Hp(V, D, Q), e) = [h |-> Hp(W, F, Q), obj |-> o]
        /\ o \notin Addresses(Held)
        /\ Good(W, F, Q, E, Held \cup {<<o, n>>})
    BY <2>7 DEF Alloced
  <2>9. AddSlab(Heap, e, p * PageSize) = Hp(V, D, Q)
    BY <1>3, <2>6, HeapIs
  <2>10. SetHeap(Hp(W, F, Q)) /\ regions' = regions \cup {<<o, n>>}
    BY <2>1, <2>8, <2>9
  <2>11. \A x \in {<<o, n>>} : x[1] \notin Addresses(Held)
    BY <2>8
  <2>12. inited' \in 0 .. Len(Entries)
    BY <1>5, <2>1
  <2>13. HInv'
    BY <2>1, <2>4, <2>6, <2>8, <2>10, <2>11, <2>12, MoreHeld
  <2> QED BY <1>3, <2>8, <2>10, <2>13 DEF Allocates
<1> QED BY <1>6, <1>7

\* and of whole pages.
LEMMA AllocPagesKeeps ==
  ASSUME HInv, NEW n \in Requests, AllocPages(n)
  PROVE  HInv' /\ (NoMemory \/ Allocates(n))
<1>1. PICK k, m : k = PagesOrder(n) /\ m = PageCount(n) * PageSize
  OBVIOUS
<1>2. Ready /\ n > Entries[Len(Entries)].size
  BY DEF AllocPages
<1>3. panic = "none" /\ n \in Nat
  BY <1>2, FitAssumption DEF Ready
<1>4. Good(slabs, caches, page_obj, blocks, Held) /\ inited \in 0 .. Len(Entries)
  BY DEF HInv
<1>5. k \in Orders /\ PageCount(n) <= Size[k] /\ Size[k] \in Nat
  BY <1>1, <1>2, FitAssumption
<1>6. PageCount(n) \in Nat /\ m \in Nat /\ n <= m /\ m <= Size[k] * PageSize
  <2>1. PageSize \in Nat \ {0}
    BY SlabAssumption
  <2>2. PICK a \in Nat : a = AlignUp(n, PageSize) /\ n <= a
    BY <1>3, <2>1, AlignUpBounds
  <2>3. a % PageSize = 0
    BY <1>3, <2>1, <2>2, AlignedUp
  <2>4. PageCount(n) \in Nat /\ a = PageCount(n) * PageSize
    BY <2>1, <2>2, <2>3, Divided DEF PageCount
  <2>5. PICK d \in Nat : Size[k] = PageCount(n) + d
    <3>1. Size[k] - PageCount(n) \in Nat
      BY <1>5, <2>4
    <3> QED BY <1>5, <2>4, <3>1
  <2>6. d * PageSize \in Nat /\ Size[k] * PageSize = a + d * PageSize
    BY <2>1, <2>4, <2>5
  <2> QED BY <1>1, <2>2, <2>4, <2>6
<1>7. CASE NoMemory
  BY <1>7, NoMemoryKeeps
<1>8. CASE ~NoMemory
  <2>1. PICK p \in Pages :
          /\ TakePages(p, k)
          /\ regions' = regions \cup {<<p * PageSize, m>>}
          /\ slabs' = slabs /\ caches' = caches /\ page_obj' = page_obj /\ panic' = panic
          /\ freeing' = freeing /\ inited' = inited
    BY <1>1, <1>8 DEF AllocPages
  <2>2. PICK o, E : o = p * PageSize /\ E = blocks \cup {<<p, k>>}
    OBVIOUS
  <2>3. FreeBlock(p, k, blocks) /\ blocks' = E
    BY <1>5, <2>1, <2>2, TakeableIsFree
  <2>4. /\ Good(slabs, caches, page_obj, E, Held \cup {<<o, m>>})
        /\ o \notin Addresses(Held)
    BY <1>4, <1>6, <2>2, <2>3, TakeGood
  <2>5. SetHeap(Hp(slabs, caches, page_obj))
    BY <1>3, <2>1, HpFields DEF SetHeap
  <2>6. \A x \in {<<o, m>>} : x[1] \notin Addresses(Held)
    BY <2>4
  <2>7. regions' = regions \cup {<<o, m>>} /\ inited' \in 0 .. Len(Entries)
    BY <1>4, <2>1, <2>2
  <2>8. HInv'
    BY <2>1, <2>3, <2>4, <2>5, <2>6, <2>7, MoreHeld
  <2> QED BY <1>6, <2>4, <2>7, <2>8 DEF Allocates
<1> QED BY <1>7, <1>8

\* kalloc_free up to its lock,
LEMMA FreeLooksKeeps ==
  ASSUME HInv, NEW c \in Cores, NEW r \in regions, FreeLooks(c, r)
  PROVE  HInv'
<1>1. /\ panic = "none" /\ freeing[c] = None
      /\ freeing' = [freeing EXCEPT ![c] = [obj |-> r[1], cache |-> page_obj[PageOf(r[1])]]]
      /\ regions' = regions \ {r}
      /\ slabs' = slabs /\ caches' = caches /\ page_obj' = page_obj /\ panic' = panic
      /\ blocks' = blocks /\ inited' = inited
  BY DEF FreeLooks, Ready
<1>2. /\ Good(slabs, caches, page_obj, blocks, Held) /\ FreeingRight(freeing, page_obj, regions)
      /\ panic \in {"none", "memory"} /\ inited \in 0 .. Len(Entries)
  BY DEF HInv
<1>3. r \in Held
  BY DEF Held
<1>4. PICK a, n : a = r[1] /\ n = [obj |-> a, cache |-> page_obj[PageOf(a)]]
  OBVIOUS
<1>5. n \in [obj : Int, cache : CacheIds \cup {None}] /\ n # None
      /\ n.obj = a /\ n.cache = page_obj[PageOf(a)]
  <2>1. a \in Nat /\ PageOf(a) \in Pages
    BY <1>2, <1>3, <1>4, HeldPage
  <2>2. page_obj \in [Pages -> CacheIds \cup {None}]
    BY <1>2 DEF Good, LinksRight
  <2>3. n \in [obj : Int, cache : CacheIds \cup {None}]
    BY <1>4, <2>1, <2>2
  <2> QED BY <1>4, <2>3, EntriesAssumption
<1>6. freeing \in [Cores -> [obj : Int, cache : CacheIds \cup {None}] \cup {None}]
  BY <1>2 DEF FreeingRight
<1>7. PICK F : F = freeing' /\ F = [freeing EXCEPT ![c] = n]
  BY <1>1, <1>4
<1>8. F[c] = n /\ \A d \in Cores \ {c} : F[d] = freeing[d]
  BY <1>6, <1>7
<1>9. BeingFreed(F) = BeingFreed(freeing) \cup {<<a, 0>>}
  BY <1>1, <1>5, <1>8 DEF BeingFreed
<1>10. \A x \in BeingFreed(freeing) : x[1] # a
  <2>1. ASSUME NEW d \in Cores, freeing[d] # None PROVE <<freeing[d].obj, 0>>[1] # a
    BY <1>2, <1>4, <2>1 DEF FreeingRight
  <2> QED BY <2>1 DEF BeingFreed
<1>11. Held' = (Held \ {r}) \cup {<<a, 0>>}
  <2>1. r \notin BeingFreed(freeing)
    BY <1>4, <1>10
  <2>2. Held' = (regions \ {r}) \cup BeingFreed(F)
    BY <1>1, <1>7 DEF Held, BeingFreed
  <2> QED BY <1>9, <2>1, <2>2 DEF Held
<1>12. Good(slabs, caches, page_obj, blocks, (Held \ {r}) \cup {<<a, 0>>})
  BY <1>2, <1>3, <1>4, LooksGood
<1>13. Good(slabs, caches, page_obj, blocks, Held)'
  BY <1>1, <1>11, <1>12
<1>14. FreeingRight(F, page_obj, regions \ {r})
  <2>1. F \in [Cores -> [obj : Int, cache : CacheIds \cup {None}] \cup {None}]
    BY <1>5, <1>6, <1>7
  <2>2. \A q \in regions \ {r} : q[1] # a
    <3>1. \A q \in Held : q[1] = r[1] => q = r
      BY <1>2, <1>3 DEF Good, HeldRight
    <3> QED BY <1>4, <3>1 DEF Held
  <2>3. \A d \in Cores : freeing[d] # None => freeing[d].obj # a
    BY <1>2, <1>4 DEF FreeingRight
  <2>4. ASSUME NEW d \in Cores, F[d] # None
        PROVE  /\ F[d].cache = page_obj[PageOf(F[d].obj)]
               /\ \A q \in regions \ {r} : q[1] # F[d].obj
               /\ \A f \in Cores \ {d} : F[f] # None => F[f].obj # F[d].obj
    <3>1. CASE d = c
      BY <1>5, <1>8, <2>2, <2>3, <3>1
    <3>2. CASE d # c
      <4>1. F[d] = freeing[d] /\ freeing[d] # None
        BY <1>8, <2>4, <3>2
      <4>2. /\ F[d].cache = page_obj[PageOf(F[d].obj)]
            /\ \A q \in regions : q[1] # F[d].obj
            /\ \A f \in Cores \ {d} : freeing[f] # None => freeing[f].obj # F[d].obj
        BY <1>2, <4>1 DEF FreeingRight
      <4>3. F[d].obj # a
        BY <2>3, <4>1
      <4> QED BY <1>5, <1>8, <4>2, <4>3
    <3> QED BY <3>1, <3>2
  <2> QED BY <2>1, <2>4 DEF FreeingRight
<1>15. FreeingRight(freeing, page_obj, regions)'
  BY <1>1, <1>7, <1>14 DEF FreeingRight
<1> QED BY <1>1, <1>2, <1>13, <1>15 DEF HInv

\* When core c is done with what it frees, nobody holds it.
LEMMA DoneFreeing ==
  ASSUME HInv, NEW c \in Cores, freeing[c] # None, freeing' = [freeing EXCEPT ![c] = None],
         regions' = regions, page_obj' = page_obj
  PROVE  /\ Held' = Held \ {<<freeing[c].obj, 0>>}
         /\ FreeingRight(freeing, page_obj, regions)'
<1>1. FreeingRight(freeing, page_obj, regions)
  BY DEF HInv
<1>2. freeing \in [Cores -> [obj : Int, cache : CacheIds \cup {None}] \cup {None}]
  BY <1>1 DEF FreeingRight
<1>3. PICK F, a : F = freeing' /\ F = [freeing EXCEPT ![c] = None] /\ a = freeing[c].obj
  OBVIOUS
<1>4. F[c] = None /\ \A d \in Cores \ {c} : F[d] = freeing[d]
  BY <1>2, <1>3
<1>5. \A d \in Cores \ {c} : freeing[d] # None => freeing[d].obj # a
  BY <1>1, <1>3 DEF FreeingRight
<1>6. \A r \in regions : r[1] # a
  BY <1>1, <1>3 DEF FreeingRight
<1>7. ASSUME NEW x PROVE x \in BeingFreed(F) <=> x \in BeingFreed(freeing) /\ x # <<a, 0>>
  <2>1. ASSUME x \in BeingFreed(F) PROVE x \in BeingFreed(freeing) /\ x # <<a, 0>>
    <3>1. PICK d \in Cores : F[d] # None /\ x = <<F[d].obj, 0>>
      BY <2>1 DEF BeingFreed
    <3>2. d # c /\ F[d] = freeing[d]
      BY <1>4, <3>1
    <3> QED BY <1>5, <3>1, <3>2 DEF BeingFreed
  <2>2. ASSUME x \in BeingFreed(freeing), x # <<a, 0>> PROVE x \in BeingFreed(F)
    <3>1. PICK d \in Cores : freeing[d] # None /\ x = <<freeing[d].obj, 0>>
      BY <2>2 DEF BeingFreed
    <3>2. d # c
      BY <1>3, <2>2, <3>1
    <3> QED BY <1>4, <3>1, <3>2 DEF BeingFreed
  <2> QED BY <2>1, <2>2
<1>8. Held' = Held \ {<<a, 0>>}
  <2>1. Held' = regions \cup BeingFreed(F)
    BY <1>3 DEF Held, BeingFreed
  <2>2. <<a, 0>> \notin regions
    BY <1>6
  <2> QED BY <1>7, <2>1, <2>2 DEF Held
<1>9. FreeingRight(F, page_obj, regions)
  <2>1. F \in [Cores -> [obj : Int, cache : CacheIds \cup {None}] \cup {None}]
    BY <1>2, <1>3
  <2>2. ASSUME NEW d \in Cores, F[d] # None
        PROVE  /\ F[d].cache = page_obj[PageOf(F[d].obj)]
               /\ \A q \in regions : q[1] # F[d].obj
               /\ \A f \in Cores \ {d} : F[f] # None => F[f].obj # F[d].obj
    <3>1. d # c /\ F[d] = freeing[d]
      BY <1>4, <2>2
    <3>2. /\ F[d].cache = page_obj[PageOf(F[d].obj)]
          /\ \A q \in regions : q[1] # F[d].obj
          /\ \A f \in Cores \ {d} : freeing[f] # None => freeing[f].obj # F[d].obj
      BY <1>1, <2>2, <3>1 DEF FreeingRight
    <3> QED BY <1>4, <3>2
  <2> QED BY <2>1, <2>2 DEF FreeingRight
<1>10. FreeingRight(freeing, page_obj, regions)'
  BY <1>3, <1>9 DEF FreeingRight
<1> QED BY <1>3, <1>8, <1>10

\* and the rest of it.
LEMMA FreeObjectKeeps ==
  ASSUME HInv, NEW c \in Cores, FreeObject(c)
  PROVE  HInv'
<1>1. /\ panic = "none" /\ freeing[c] # None /\ freeing[c].cache # None
      /\ SetHeap(CacheFree(Heap, freeing[c].cache, freeing[c].obj))
      /\ freeing' = [freeing EXCEPT ![c] = None]
      /\ blocks' = blocks /\ regions' = regions /\ inited' = inited
  BY DEF FreeObject, Ready
<1>2. /\ Good(slabs, caches, page_obj, blocks, Held) /\ FreeingRight(freeing, page_obj, regions)
      /\ inited \in 0 .. Len(Entries)
  BY DEF HInv
<1>3. PICK a, r : a = freeing[c].obj /\ r = <<a, 0>>
  OBVIOUS
<1>4. r[1] = a /\ r \in Held
  BY <1>1, <1>3, FreedIsHeld
<1>5. freeing[c].cache = page_obj[PageOf(r[1])] /\ page_obj[PageOf(r[1])] # None
  BY <1>1, <1>2, <1>3, <1>4 DEF FreeingRight
<1>6. PICK V, D : /\ CacheFree(Hp(slabs, caches, page_obj), page_obj[PageOf(r[1])], r[1]) = Hp(V, D, page_obj)
                  /\ Good(V, D, page_obj, blocks, Held \ {r})
  BY <1>2, <1>4, <1>5, FreeGood
<1>7. SetHeap(Hp(V, D, page_obj))
  BY <1>1, <1>3, <1>4, <1>5, <1>6, HeapIs
<1>8. slabs' = V /\ caches' = D /\ page_obj' = page_obj /\ panic' = "none"
  BY <1>7, HpFields DEF SetHeap
<1>9. Held' = Held \ {r} /\ FreeingRight(freeing, page_obj, regions)'
  BY <1>1, <1>3, <1>8, DoneFreeing
<1>10. Good(slabs, caches, page_obj, blocks, Held)'
  BY <1>1, <1>6, <1>8, <1>9
<1> QED BY <1>1, <1>2, <1>8, <1>9, <1>10 DEF HInv

\* The pages that are given back were taken.
LEMMA FreePagesKeeps ==
  ASSUME HInv, NEW c \in Cores, FreePages(c)
  PROVE  HInv'
<1>1. /\ panic = "none" /\ freeing[c] # None /\ freeing[c].cache = None
      /\ freeing' = [freeing EXCEPT ![c] = None]
      /\ slabs' = slabs /\ caches' = caches /\ page_obj' = page_obj
      /\ regions' = regions /\ inited' = inited
  BY DEF FreePages, Ready
<1>2. /\ Good(slabs, caches, page_obj, blocks, Held) /\ FreeingRight(freeing, page_obj, regions)
      /\ inited \in 0 .. Len(Entries)
  BY DEF HInv
<1>3. PICK a, r : a = freeing[c].obj /\ r = <<a, 0>>
  OBVIOUS
<1>4. r[1] = a /\ r \in Held
  BY <1>1, <1>3, FreedIsHeld
<1>5. page_obj[PageOf(r[1])] = None
  BY <1>1, <1>2, <1>3, <1>4 DEF FreeingRight
<1>6. /\ a % PageSize = 0
      /\ \E k \in Orders : <<PageOf(a), k>> \in blocks
      /\ \A k \in Orders : <<PageOf(a), k>> \in blocks =>
           Good(slabs, caches, page_obj, blocks \ {<<PageOf(a), k>>}, Held \ {r})
  <2>1. Givable(slabs, caches, page_obj, blocks, Held, r)
    BY <1>2, <1>4, <1>5, GiveGood
  <2> QED BY ONLY <1>4, <2>1 DEF Givable
<1>7. /\ {k \in Orders : <<PageOf(a), k>> \in blocks} # {}
      /\ freeing[c].obj % PageSize = 0
  BY <1>3, <1>6
<1>8. (\E k \in {j \in Orders : <<PageOf(a), j>> \in blocks} : Pool!Give(PageOf(a), k)) /\ panic' = panic
  BY <1>3, <1>7 DEF FreePages
<1>9. PICK k \in Orders : <<PageOf(a), k>> \in blocks /\ blocks' = blocks \ {<<PageOf(a), k>>}
  BY <1>8 DEF Pool!Give
<1>10. Held' = Held \ {r} /\ FreeingRight(freeing, page_obj, regions)'
  BY <1>1, <1>3, DoneFreeing
<1>11. Good(slabs, caches, page_obj, blocks, Held)'
  BY <1>1, <1>6, <1>9, <1>10
<1> QED BY <1>1, <1>2, <1>8, <1>10, <1>11 DEF HInv

\* kalloc_cache_remove_slab.
LEMMA RemoveSlabKeeps ==
  ASSUME HInv, RemoveUnlinks, NEW e \in CacheIds, NEW b \in DOMAIN slabs, RemoveSlab(e, b)
  PROVE  /\ HInv'
         /\ \E m \in Nat : Allocates(m)
<1>1. /\ panic = "none" /\ slabs[b].on = "free" /\ slabs[b].num = 0
      /\ b \in Range(caches[e].lists["free"])
      /\ regions' = regions \cup {<<b, slabs[b].pages * PageSize>>}
      /\ blocks' = blocks /\ freeing' = freeing /\ inited' = inited
  BY DEF RemoveSlab, Ready
<1>2. Good(slabs, caches, page_obj, blocks, Held) /\ inited \in 0 .. Len(Entries)
  BY DEF HInv
<1>3. /\ SlabsRight(slabs, page_obj, blocks, Addresses(Held)) /\ CachesList(slabs, caches, page_obj)
  BY <1>2 DEF Good
<1>4. Removable(slabs, page_obj, e, b)
  <2>1. Lists(caches[e].lists["free"], On(slabs, page_obj, e, "free"))
    BY <1>3 DEF CachesList, ListNames
  <2>2. b \in On(slabs, page_obj, e, "free")
    BY <1>1, <2>1, ListFacts
  <2> QED BY <1>1, <2>2 DEF Removable, On
<1>5. PICK h : h = LinkPages([Unlisted(Hp(slabs, caches, page_obj), e, b)
                                EXCEPT !.caches[e].max_num = @ - slabs[b].max_num], slabs[b], None)
  OBVIOUS
<1>6. PICK g : g = [h EXCEPT !.slabs = IF b \in Range(h.caches[e].lists["free"]) THEN @
                                       ELSE Restrict(@, DOMAIN @ \ {b})]
  OBVIOUS
<1>7. SetHeap(g)
  BY <1>1, <1>5, <1>6, HeapIs DEF RemoveSlab
<1>8. PICK V, D, Q : g = Hp(V, D, Q) /\ RemovedFrom(slabs, caches, page_obj, e, b, V, D, Q)
  <2>1. PICK S, C, P, B, R : S = slabs /\ C = caches /\ P = page_obj /\ B = blocks /\ R = Held
    OBVIOUS
  <2>2. Good(S, C, P, B, R) /\ Removable(S, P, e, b)
    BY <1>2, <1>4, <2>1
  <2>3. Removing(S, C, P, e, b, h, g)
    BY <1>5, <1>6, <2>1 DEF Removing
  <2>4. \E V, D, Q : g = Hp(V, D, Q) /\ RemovedFrom(S, C, P, e, b, V, D, Q)
    BY ONLY <2>2, <2>3, RemoveUnlinks, e \in CacheIds, RemoveIs
  <2> QED BY ONLY <2>1, <2>4
<1>9. PICK m : m = Entries[e].pages * PageSize
  OBVIOUS
<1>10. Good(V, D, Q, blocks, Held \cup {<<b, m>>})
  BY <1>2, <1>4, <1>8, <1>9, RemoveGood
<1>11. \A r \in Held : Q[PageOf(r[1])] = page_obj[PageOf(r[1])]
  <2>1. SameLinks(page_obj, Q, Held)
    BY <1>2, <1>4, <1>8, RemovedHeld
  <2> QED BY ONLY <2>1 DEF SameLinks
<1>12. b \notin Addresses(Held)
  BY <1>2, <1>4, RemovedApart
<1>13. slabs[b].pages = Entries[e].pages
  <2>1. SlabOf(slabs[b], b, e) /\ b \in Nat
    BY <1>3, <1>4, SlabIs DEF Removable
  <2> QED BY <2>1, SlabFacts
<1>14. regions' = regions \cup {<<b, m>>} /\ \A x \in {<<b, m>>} : x[1] \notin Addresses(Held)
  BY <1>1, <1>9, <1>12, <1>13
<1>15. SetHeap(Hp(V, D, Q))
  BY <1>7, <1>8
<1>16. HInv'
  BY <1>1, <1>2, <1>10, <1>11, <1>14, <1>15, MoreHeld
<1>17. m \in Nat
  BY <1>9, EntryFacts
<1>18. Allocates(m)
  BY <1>12, <1>14, <1>17 DEF Allocates
<1> QED BY <1>16, <1>17, <1>18

---------------------------------------------------------------------------
(* The invariant holds. *)

\* At first there is nothing.
LEMMA InitGood ==
  ASSUME HInit
  PROVE  HInv
<1>1. /\ blocks = {} /\ slabs = <<>> /\ regions = {} /\ inited = 0
      /\ caches = [e \in CacheIds |-> EmptyCache]
      /\ page_obj = [p \in Pages |-> None]
      /\ freeing = [c \in Cores |-> None]
      /\ panic = "none"
  BY DEF HInit
<1>2. DOMAIN slabs = {}
  BY <1>1
<1>3. BeingFreed(freeing) = {}
  BY <1>1 DEF BeingFreed
<1>4. Held = {}
  BY <1>1, <1>3 DEF Held
<1>5. SlabsRight(slabs, page_obj, blocks, Addresses(Held))
  BY <1>2 DEF SlabsRight
<1>6. LinksRight(slabs, page_obj) /\ BlocksRight(blocks) /\ HeldRight(slabs, page_obj, blocks, Held)
  BY <1>1, <1>4 DEF LinksRight, BlocksRight, HeldRight
<1>7. EmptyCache \in [num : Nat, max_num : Nat, lists : [ListNames -> Seq(Nat)]]
      /\ \A l \in ListNames : EmptyCache.lists[l] = <<>>
  BY DEF EmptyCache
<1>8. Lists(<<>>, {})
  <2>1. <<>> \in Seq({}) /\ Len(<<>>) = 0
    OBVIOUS
  <2> QED BY <2>1 DEF Lists
<1>9. CachesList(slabs, caches, page_obj)
  <2>1. \A e, l : On(slabs, page_obj, e, l) = {}
    BY <1>2 DEF On
  <2> QED BY <1>1, <1>7, <1>8, <2>1 DEF CachesList
<1>10. CachesCount(slabs, caches, page_obj)
  <2>1. \A e : NumPlaces(slabs, page_obj, e) = {} /\ MaxPlaces(slabs, page_obj, e) = {}
    BY <1>2 DEF NumPlaces, MaxPlaces
  <2>2. IsFiniteSet({}) /\ Cardinality({}) = 0
    BY FS_EmptySet
  <2>3. \A e \in CacheIds : caches[e].num = 0 /\ caches[e].max_num = 0
    BY <1>1 DEF EmptyCache
  <2> QED BY <2>1, <2>2, <2>3 DEF CachesCount
<1>11. Good(slabs, caches, page_obj, blocks, Held)
  BY <1>5, <1>6, <1>9, <1>10 DEF Good
<1>12. FreeingRight(freeing, page_obj, regions)
  BY <1>1 DEF FreeingRight
<1>13. 0 \in 0 .. Len(Entries)
  BY NoneIsNoCache
<1> QED BY <1>1, <1>11, <1>12, <1>13 DEF HInv

\* Every step keeps it.
LEMMA StepKeeps ==
  ASSUME SlabsRemoved => RemoveUnlinks, HInv, [HNext]_hvars
  PROVE  HInv'
<1>1. CASE InitEntry
  BY <1>1, InitEntryKeeps
<1>2. ASSUME NEW n \in Requests, AllocObject(n) \/ AllocExpands(n) \/ AllocPages(n) PROVE HInv'
  BY <1>2, AllocObjectKeeps, AllocExpandsKeeps, AllocPagesKeeps
<1>3. ASSUME NEW c \in Cores, (\E r \in regions : FreeLooks(c, r)) \/ FreeObject(c) \/ FreePages(c)
      PROVE  HInv'
  BY <1>3, FreeLooksKeeps, FreeObjectKeeps, FreePagesKeeps
<1>4. ASSUME NEW e \in CacheIds, NEW b \in DOMAIN slabs, RemoveSlab(e, b) PROVE HInv'
  BY <1>4, RemoveSlabKeeps DEF RemoveSlab
<1>5. CASE UNCHANGED hvars
  <2>1. /\ slabs' = slabs /\ caches' = caches /\ page_obj' = page_obj /\ blocks' = blocks
        /\ regions' = regions /\ freeing' = freeing /\ inited' = inited /\ panic' = panic
    BY <1>5 DEF hvars
  <2>2. Held' = Held
    BY <2>1 DEF Held, BeingFreed
  <2>3. Good(slabs, caches, page_obj, blocks, Held)'
    BY <2>1, <2>2 DEF HInv
  <2>4. FreeingRight(freeing, page_obj, regions)'
    BY <2>1 DEF HInv
  <2> QED BY <2>1, <2>3, <2>4 DEF HInv
<1> QED BY <1>1, <1>2, <1>3, <1>4, <1>5 DEF HNext

\* HInv is an invariant.
LEMMA HeapInvariant ==
  ASSUME SlabsRemoved => RemoveUnlinks
  PROVE  HSpec => []HInv
<1>1. HInit => HInv
  BY InitGood
<1>2. HInv /\ [HNext]_hvars => HInv'
  BY StepKeeps
<1> QED BY <1>1, <1>2, PTL DEF HSpec

\* No assert of kalloc, of a cache or of a slab fails, as long as no slab is
\* removed that stays on its list: none is removed in the code.
THEOREM HeapSafe ==
  ASSUME SlabsRemoved => RemoveUnlinks
  PROVE  HSpec => []HNoPanic
<1>1. HInv => HNoPanic
  BY DEF HInv, HNoPanic
<1> QED BY <1>1, HeapInvariant, PTL

\* The invariant says of the lists what ListsRight does.
LEMMA ListsFollow ==
  ASSUME HInv
  PROVE  ListsRight
<1>1. /\ SlabsRight(slabs, page_obj, blocks, Addresses(Held)) /\ CachesList(slabs, caches, page_obj)
      /\ CachesCount(slabs, caches, page_obj) /\ LinksRight(slabs, page_obj) /\ BlocksRight(blocks)
      /\ panic \in {"none", "memory"} /\ inited \in 0 .. Len(Entries)
  BY DEF HInv, Good
<1>2. \A e \in CacheIds, l \in ListNames :
        /\ Range(caches[e].lists[l]) = On(slabs, page_obj, e, l)
        /\ IsInjective(caches[e].lists[l])
  BY <1>1, ListFacts DEF CachesList
<1>3. ASSUME NEW b \in DOMAIN slabs
      PROVE  /\ b % PageSize = 0 /\ page_obj[PageOf(b)] \in CacheIds
             /\ slabs[b].on \in ListNames /\ slabs[b].on = ListOf(slabs[b])
             /\ slabs[b].num \in 0 .. slabs[b].max_num /\ slabs[b].max_num \in Nat
  BY <1>1, SlabIs, SlabFacts
<1>4. HTypeOK
  <2>1. blocks \subseteq Pages \X Orders
    BY <1>1 DEF BlocksRight
  <2>2. page_obj \in [Pages -> CacheIds \cup {None}]
    BY <1>1 DEF LinksRight
  <2>3. \A e \in CacheIds : \A l \in ListNames : Range(caches[e].lists[l]) \subseteq DOMAIN slabs
    BY <1>2 DEF On
  <2> QED BY <1>1, <1>3, <2>1, <2>2, <2>3 DEF HTypeOK
<1>5. ASSUME NEW b \in DOMAIN slabs
      PROVE  \E e \in CacheIds :
               /\ b \in Range(caches[e].lists[slabs[b].on])
               /\ slabs[b].on = CASE slabs[b].num = slabs[b].max_num -> "full"
                                 [] slabs[b].num = 0 -> "free"
                                 [] OTHER -> "partial"
               /\ \A f \in CacheIds, l \in ListNames :
                    b \in Range(caches[f].lists[l]) => f = e /\ l = slabs[b].on
  <2>1. PICK e \in CacheIds : e = page_obj[PageOf(b)]
    BY <1>3
  <2>2. b \in Range(caches[e].lists[slabs[b].on])
    BY <1>2, <1>3, <2>1 DEF On
  <2>3. slabs[b].on = CASE slabs[b].num = slabs[b].max_num -> "full"
                        [] slabs[b].num = 0 -> "free"
                        [] OTHER -> "partial"
    BY <1>3 DEF ListOf
  <2>4. \A f \in CacheIds, l \in ListNames :
          b \in Range(caches[f].lists[l]) => f = e /\ l = slabs[b].on
    BY <1>2, <2>1 DEF On
  <2> WITNESS e \in CacheIds
  <2> QED BY <2>2, <2>3, <2>4
<1>6. ASSUME NEW e \in CacheIds
      PROVE  /\ caches[e].num = Cardinality(UNION {{b} \X (1 .. slabs[b].num) : b \in Listed(e)})
             /\ caches[e].max_num = Cardinality(UNION {{b} \X (1 .. slabs[b].max_num) : b \in Listed(e)})
             /\ \A l \in ListNames : IsInjective(caches[e].lists[l])
  <2>1. \A b \in DOMAIN slabs : b \in Listed(e) <=> page_obj[PageOf(b)] = e
    <3> TAKE b \in DOMAIN slabs
    <3>1. b \in Listed(e) <=> \E l \in ListNames : b \in On(slabs, page_obj, e, l)
      BY <1>2 DEF Listed
    <3> QED BY <1>3, <3>1 DEF On
  <2>2. Listed(e) = {b \in DOMAIN slabs : page_obj[PageOf(b)] = e}
    BY <2>1 DEF Listed
  <2> DEFINE N == UNION {{b} \X (1 .. slabs[b].num) : b \in Listed(e)}
             M == UNION {{b} \X (1 .. slabs[b].max_num) : b \in Listed(e)}
  <2>3. N = NumPlaces(slabs, page_obj, e)
    <3>1. ASSUME NEW x \in N PROVE x \in NumPlaces(slabs, page_obj, e)
      <4>1. PICK b \in Listed(e) : x \in {b} \X (1 .. slabs[b].num)
        OBVIOUS
      <4>2. b \in DOMAIN slabs /\ page_obj[PageOf(b)] = e /\ slabs[b].num \in Nat
        BY <1>3, <2>2
      <4>3. x[1] = b /\ x[2] \in 1 .. slabs[b].num /\ x = <<x[1], x[2]>>
        BY <4>1
      <4>4. x[2] \in Nat
        BY <4>2, <4>3
      <4> QED BY <4>2, <4>3, <4>4 DEF NumPlaces
    <3>2. ASSUME NEW x \in NumPlaces(slabs, page_obj, e) PROVE x \in N
      <4>1. /\ x \in (DOMAIN slabs) \X Nat /\ page_obj[PageOf(x[1])] = e
            /\ x[2] \in 1 .. slabs[x[1]].num
        BY <3>2 DEF NumPlaces
      <4>2. x[1] \in Listed(e)
        BY <2>2, <4>1
      <4>3. x \in {x[1]} \X (1 .. slabs[x[1]].num)
        BY <4>1
      <4> QED BY <4>2, <4>3
    <3> QED BY <3>1, <3>2
  <2>4. M = MaxPlaces(slabs, page_obj, e)
    <3>1. ASSUME NEW x \in M PROVE x \in MaxPlaces(slabs, page_obj, e)
      <4>1. PICK b \in Listed(e) : x \in {b} \X (1 .. slabs[b].max_num)
        OBVIOUS
      <4>2. b \in DOMAIN slabs /\ page_obj[PageOf(b)] = e /\ slabs[b].max_num \in Nat
        BY <1>3, <2>2
      <4>3. x[1] = b /\ x[2] \in 1 .. slabs[b].max_num /\ x = <<x[1], x[2]>>
        BY <4>1
      <4>4. x[2] \in Nat
        BY <4>2, <4>3
      <4> QED BY <4>2, <4>3, <4>4 DEF MaxPlaces
    <3>2. ASSUME NEW x \in MaxPlaces(slabs, page_obj, e) PROVE x \in M
      <4>1. /\ x \in (DOMAIN slabs) \X Nat /\ page_obj[PageOf(x[1])] = e
            /\ x[2] \in 1 .. slabs[x[1]].max_num
        BY <3>2 DEF MaxPlaces
      <4>2. x[1] \in Listed(e)
        BY <2>2, <4>1
      <4>3. x \in {x[1]} \X (1 .. slabs[x[1]].max_num)
        BY <4>1
      <4> QED BY <4>2, <4>3
    <3> QED BY <3>1, <3>2
  <2> HIDE DEF N, M
  <2>5. caches[e].num = Cardinality(N) /\ caches[e].max_num = Cardinality(M)
    BY <1>1, <2>3, <2>4 DEF CachesCount
  <2> QED BY <1>2, <2>5 DEF N, M
<1> QED BY <1>4, <1>5, <1>6 DEF ListsRight

\* A slab is on the one list that its num calls for, and a cache counts its
\* slabs' objects.
THEOREM HeapLists ==
  ASSUME SlabsRemoved => RemoveUnlinks
  PROVE  HSpec => []ListsRight
<1>1. HInv => ListsRight
  BY ListsFollow
<1> QED BY <1>1, HeapInvariant, PTL

---------------------------------------------------------------------------
(* The chains of free indexes. *)

\* ChainUpTo is the one function that goes along the chain.
LEMMA ChainUpToIs ==
  ASSUME NEW e \in CacheIds, NEW s, NEW b \in Nat, SlabOf(s, b, e), NEW U, NEW ch,
         IsChain(ch, s, U), NEW k, k = s.max_num - s.num
  PROVE  \A i \in 0 .. k : ChainUpTo(s, k)[i] = ch[i]
<1>1. /\ s.max_num \in Nat \ {0} /\ s.num \in 0 .. s.max_num
      /\ s.free_indexs \in [0 .. s.max_num - 1 -> 0 .. s.max_num]
  BY SlabFacts
<1>2. k \in Nat
  BY <1>1
<1>3. /\ ch \in [0 .. k -> 0 .. s.max_num]
      /\ ch[0] = s.free_index
      /\ \A i \in 0 .. k - 1 : ch[i] \in 0 .. s.max_num - 1 /\ ch[i + 1] = s.free_indexs[ch[i]]
  BY DEF IsChain
<1> DEFINE Along(f) == f = [i \in 0 .. k |->
                              IF i = 0 THEN s.free_index
                              ELSE IF f[i - 1] \in DOMAIN s.free_indexs
                                   THEN s.free_indexs[f[i - 1]] ELSE -1]
           place == CHOOSE f : Along(f)
<1>4. ChainUpTo(s, k) = place
  BY DEF ChainUpTo
<1>5. Along(ch)
  <2>1. ASSUME NEW i \in 0 .. k
        PROVE  ch[i] = IF i = 0 THEN s.free_index
                       ELSE IF ch[i - 1] \in DOMAIN s.free_indexs
                            THEN s.free_indexs[ch[i - 1]] ELSE -1
    <3>1. CASE i = 0
      BY <1>3, <3>1
    <3>2. CASE i # 0
      <4>1. i - 1 \in 0 .. k - 1 /\ (i - 1) + 1 = i
        BY <1>2, <3>2
      <4>2. ch[i - 1] \in 0 .. s.max_num - 1 /\ ch[(i - 1) + 1] = s.free_indexs[ch[i - 1]]
        BY <1>3, <4>1
      <4> QED BY <1>1, <3>2, <4>1, <4>2
    <3> QED BY <3>1, <3>2
  <2>2. ch = [i \in 0 .. k |-> ch[i]]
    BY <1>3
  <2> QED BY <2>1, <2>2
<1>6. Along(place)
  BY <1>5
<1>7. ASSUME NEW f, Along(f) PROVE \A i \in 0 .. k : f[i] = ch[i]
  <2>1. ASSUME NEW g, Along(g), NEW i \in 0 .. k
        PROVE  g[i] = IF i = 0 THEN s.free_index
                      ELSE IF g[i - 1] \in DOMAIN s.free_indexs
                           THEN s.free_indexs[g[i - 1]] ELSE -1
    BY <2>1
  <2> HIDE DEF Along
  <2> DEFINE W == {i \in 0 .. k : f[i] # ch[i]}
  <2>2. SUFFICES ASSUME W # {} PROVE FALSE
    OBVIOUS
  <2>3. W \in SUBSET Nat
    BY <1>2
  <2>4. PICK i \in W : \A j \in W : i <= j
    BY <2>2, <2>3, Least
  <2>5. i \in 0 .. k /\ f[i] # ch[i]
    BY <2>4
  <2>6. i # 0
    BY <1>5, <1>7, <2>1, <2>5
  <2>7. i - 1 \in 0 .. k /\ i - 1 \notin W
    BY <1>2, <2>4, <2>5, <2>6
  <2>8. f[i - 1] = ch[i - 1]
    BY <2>7
  <2> QED BY <1>5, <1>7, <2>1, <2>5, <2>6, <2>8
<1> HIDE DEF Along, place
<1> QED BY <1>4, <1>6, <1>7

\* Byte a of what r holds is one of an object of slab x, or of a block that
\* begins with the address of r.
ByteOf(S, P, B, r, a) ==
  \/ \E x \in DOMAIN S : /\ PageOf(a) \in PagesOf(x, P[PageOf(x)])
                         /\ \E i \in 0 .. S[x].max_num - 1 :
                              /\ r[1] = ObjectAt(S[x], i)
                              /\ r[1] <= a /\ a < r[1] + S[x].size
  \/ /\ InPages(r[1], r[2], S, P, B)
     /\ \E y \in B : y[1] = PageOf(r[1]) /\ PageOf(a) \in Pool!Block(y[1], y[2])

\* Every byte of what is held is such a byte.
LEMMA BytesHeld ==
  ASSUME NEW S, NEW C, NEW P, NEW B, NEW R, Good(S, C, P, B, R), NEW r \in R,
         NEW a \in Int, r[1] <= a, a < r[1] + r[2]
  PROVE  ByteOf(S, P, B, r, a) /\ PageOf(a) \in Pages
<1>1. SlabsRight(S, P, B, Addresses(R)) /\ BlocksRight(B) /\ HeldRight(S, P, B, R)
  BY DEF Good
<1>2. r[2] \in Nat /\ r[1] \in Nat
  BY <1>1, HeldPage DEF HeldRight
<1>3. CASE InObject(r[1], r[2], S)
  <2>1. PICK x \in DOMAIN S : \E i \in 0 .. S[x].max_num - 1 :
          r[1] = ObjectAt(S[x], i) /\ r[2] <= S[x].size
    BY <1>3 DEF InObject
  <2>2. PICK i \in 0 .. S[x].max_num - 1 : r[1] = ObjectAt(S[x], i) /\ r[2] <= S[x].size
    BY <2>1
  <2>3. PICK s, e : s = S[x] /\ e = P[PageOf(x)]
    OBVIOUS
  <2>4. /\ x \in Nat /\ x % PageSize = 0 /\ e \in CacheIds /\ SlabOf(s, x, e)
        /\ SlabRight(s, x, e, P, B, Addresses(R))
    BY <1>1, <2>3, SlabIs
  <2>5. s.size \in Nat \ {0} /\ s.max_num \in Nat /\ s.mem \in Nat
    BY <2>4, SlabFacts
  <2>6. i \in 0 .. s.max_num
    BY <2>2, <2>3, <2>5
  <2>7. /\ s.mem <= ObjectAt(s, i)
        /\ ObjectAt(s, i) + s.size <= s.mem + s.size * (s.max_num + 1)
    BY <2>4, <2>6, ObjectPlace
  <2>8. PICK w \in Nat : w = s.size * (s.max_num + 1)
    BY <2>5
  <2>9. a < r[1] + s.size
    BY <1>2, <2>2, <2>3, <2>5
  <2>10. s.mem <= a /\ a < s.mem + s.size * (s.max_num + 1)
    BY <1>2, <2>2, <2>3, <2>5, <2>7, <2>8, <2>9
  <2>11. PageOf(a) \in PagesOf(x, e)
    BY <2>4, <2>10, ObjectPages
  <2>12. PagesOf(x, e) \subseteq Pages
    BY <1>1, <2>4, PagesInBlock
  <2> QED BY <2>2, <2>3, <2>9, <2>11, <2>12 DEF ByteOf
<1>4. CASE InPages(r[1], r[2], S, P, B)
  <2>1. PICK k \in Orders : <<PageOf(r[1]), k>> \in B /\ r[2] <= Size[k] * PageSize
    BY <1>4 DEF InPages
  <2>2. PICK y : y = <<PageOf(r[1]), k>> /\ y \in B
    BY <2>1
  <2>3. Size[k] \in Nat \ {0} /\ PageSize \in Nat \ {0}
    BY FitAssumption, SlabAssumption
  <2>4. PICK w \in Nat : w = Size[k] * PageSize
    BY <2>3
  <2>5. a < r[1] + Size[k] * PageSize
    BY <1>2, <2>1, <2>4
  <2>6. r[1] % PageSize = 0
    BY <1>4 DEF InPages
  <2>7. PageOf(a) \in PageOf(r[1]) .. PageOf(r[1]) + Size[k] - 1
    BY <1>2, <2>3, <2>5, <2>6, PageWithin
  <2>8. y[1] = PageOf(r[1]) /\ y[2] = k
    BY <2>2
  <2>9. PageOf(a) \in Pool!Block(y[1], y[2])
    BY <2>7, <2>8 DEF Pool!Block
  <2>10. Pool!Block(y[1], y[2]) \subseteq Pages
    BY <1>1, <2>2 DEF BlocksRight
  <2> QED BY <1>4, <2>2, <2>8, <2>9, <2>10 DEF ByteOf
<1> QED BY <1>1, <1>3, <1>4 DEF HeldRight

\* A page of a slab is in no block that is held whole.
LEMMA PagesAside ==
  ASSUME NEW S, NEW P, NEW B, NEW L, SlabsRight(S, P, B, L), BlocksRight(B),
         NEW x \in DOMAIN S, NEW q \in PagesOf(x, P[PageOf(x)]),
         NEW a, NEW n, InPages(a, n, S, P, B), NEW y \in B, y[1] = PageOf(a)
  PROVE  q \notin Pool!Block(y[1], y[2])
<1>1. SUFFICES ASSUME q \in Pool!Block(y[1], y[2]) PROVE FALSE
  OBVIOUS
<1>2. SlabRight(S[x], x, P[PageOf(x)], P, B, L)
  BY SlabIs
<1>3. PICK z : z = <<PageOf(x), OrderOf(P[PageOf(x)])>> /\ z \in B
  BY <1>2 DEF SlabRight
<1>4. z[1] = PageOf(x) /\ z[2] = OrderOf(P[PageOf(x)])
  BY <1>3
<1>5. q \in Pool!Block(z[1], z[2])
  BY <1>2, <1>4, PagesInBlock
<1>6. y = z
  BY <1>1, <1>3, <1>5 DEF BlocksRight
<1>7. PageOf(a) = PageOf(x)
  BY <1>4, <1>6
<1>8. PageOf(x) \in PagesOf(x, P[PageOf(x)])
  BY <1>2, PagesInBlock
<1> QED BY <1>7, <1>8, PagesAreNoSlab

\* No two that are held share a byte.
LEMMA HeldApart ==
  ASSUME NEW S, NEW C, NEW P, NEW B, NEW R, Good(S, C, P, B, R), NEW r \in R, NEW q \in R,
         NEW a \in Int, r[1] <= a, a < r[1] + r[2], q[1] <= a, a < q[1] + q[2]
  PROVE  r = q
<1>1. SlabsRight(S, P, B, Addresses(R)) /\ BlocksRight(B) /\ HeldRight(S, P, B, R)
  BY DEF Good
<1>2. ByteOf(S, P, B, r, a) /\ ByteOf(S, P, B, q, a)
  BY BytesHeld
<1> DEFINE OfSlab(g, x) == /\ PageOf(a) \in PagesOf(x, P[PageOf(x)])
                           /\ \E i \in 0 .. S[x].max_num - 1 :
                                /\ g[1] = ObjectAt(S[x], i)
                                /\ g[1] <= a /\ a < g[1] + S[x].size
           OfBlock(g, y) == /\ InPages(g[1], g[2], S, P, B)
                            /\ y[1] = PageOf(g[1]) /\ PageOf(a) \in Pool!Block(y[1], y[2])
<1>3. ASSUME NEW g, ByteOf(S, P, B, g, a)
      PROVE  (\E x \in DOMAIN S : OfSlab(g, x)) \/ (\E y \in B : OfBlock(g, y))
  BY <1>3 DEF ByteOf
<1>4. ASSUME NEW g, NEW f, NEW x \in DOMAIN S, OfSlab(g, x), NEW y \in B, OfBlock(f, y) PROVE FALSE
  <2>1. PageOf(a) \in PagesOf(x, P[PageOf(x)])
    BY <1>4
  <2>2. InPages(f[1], f[2], S, P, B) /\ y[1] = PageOf(f[1]) /\ PageOf(a) \in Pool!Block(y[1], y[2])
    BY <1>4
  <2> QED BY <1>1, <2>1, <2>2, PagesAside
<1>5. ASSUME NEW x \in DOMAIN S, OfSlab(r, x), NEW y \in DOMAIN S, OfSlab(q, y) PROVE r[1] = q[1]
  <2>1. x = y
    BY <1>1, <1>5, OneSlab
  <2>2. PICK i \in 0 .. S[x].max_num - 1 :
          r[1] = ObjectAt(S[x], i) /\ r[1] <= a /\ a < r[1] + S[x].size
    BY <1>5
  <2>3. PICK j \in 0 .. S[x].max_num - 1 :
          q[1] = ObjectAt(S[x], j) /\ q[1] <= a /\ a < q[1] + S[x].size
    BY <1>5, <2>1
  <2>4. PICK m, z : m = S[x].mem /\ z = S[x].size
    OBVIOUS
  <2>5. m \in Nat /\ z \in Nat \ {0} /\ S[x].max_num \in Nat
    BY <1>1, <2>4, SlabIs, SlabFacts
  <2>6. i \in Nat /\ j \in Nat
    BY <2>5
  <2>7. PICK u \in Nat : u = i * z
    BY <2>5, <2>6
  <2>8. PICK v \in Nat : v = j * z
    BY <2>5, <2>6
  <2>9. z * i = u /\ z * j = v
    BY <2>5, <2>6, <2>7, <2>8
  <2>10. r[1] = m + u /\ q[1] = m + v
    BY <2>2, <2>3, <2>4, <2>9 DEF ObjectAt
  <2>11. PICK d \in Nat : d = a - m
    <3>1. a - m \in Nat
      BY <2>2, <2>5, <2>7, <2>10
    <3> QED BY <3>1
  <2>12. /\ i * z <= d /\ d < i * z + z
         /\ j * z <= d /\ d < j * z + z
    BY <2>2, <2>3, <2>4, <2>5, <2>7, <2>8, <2>10, <2>11
  <2>13. d \div z = i /\ d \div z = j
    BY ONLY <2>5, <2>6, <2>12, d \in Nat, Within
  <2> QED BY <2>2, <2>3, <2>13
<1>6. ASSUME NEW x \in B, OfBlock(r, x), NEW y \in B, OfBlock(q, y) PROVE r[1] = q[1]
  <2>1. x = y
    BY <1>1, <1>6 DEF BlocksRight
  <2>2. PageOf(r[1]) = PageOf(q[1])
    BY <1>6, <2>1
  <2>3. r[1] = PageOf(r[1]) * PageSize /\ q[1] = PageOf(q[1]) * PageSize
    BY <1>6, PageStart DEF InPages
  <2> QED BY <2>2, <2>3
<1> HIDE DEF OfSlab, OfBlock
<1>7. r[1] = q[1]
  BY <1>2, <1>3, <1>4, <1>5, <1>6
<1> QED BY <1>1, <1>7 DEF HeldRight

\* The objects of slab b that are in use, those of InUse(b) when L has the
\* addresses of all that are.
InUseOf(s, L) == {a \in L : a >= s.mem /\ a < s.mem + s.size * (s.max_num + 1)}

\* What is held at an address inside slab b is one of its objects.
LEMMA InSlab ==
  ASSUME NEW S, NEW C, NEW P, NEW B, NEW R, Good(S, C, P, B, R), NEW b \in DOMAIN S,
         NEW r \in R, PageOf(r[1]) \in PagesOf(b, P[PageOf(b)])
  PROVE  \E i \in 0 .. S[b].max_num - 1 : r[1] = ObjectAt(S[b], i)
<1>1. SlabsRight(S, P, B, Addresses(R)) /\ BlocksRight(B) /\ HeldRight(S, P, B, R)
  BY DEF Good
<1>2. ~InPages(r[1], r[2], S, P, B)
  BY <1>1, PagesAreNoSlab
<1>3. InObject(r[1], r[2], S)
  BY <1>1, <1>2 DEF HeldRight
<1>4. PICK x \in DOMAIN S : \E i \in 0 .. S[x].max_num - 1 : r[1] = ObjectAt(S[x], i)
  BY <1>3 DEF InObject
<1>5. PICK i \in 0 .. S[x].max_num - 1 : r[1] = ObjectAt(S[x], i)
  BY <1>4
<1>6. S[x].max_num \in Nat
  BY <1>1, SlabNums
<1>7. i \in 0 .. S[x].max_num
  BY <1>6
<1>8. PageOf(r[1]) \in PagesOf(x, P[PageOf(x)])
  BY <1>1, <1>5, <1>7, OneObject
<1>9. x = b
  BY <1>1, <1>8, OneSlab
<1> QED BY <1>5, <1>9

\* The indexes of the objects in use are those that the chain leaves out.
LEMMA UsedIndexes ==
  ASSUME NEW S, NEW C, NEW P, NEW B, NEW R, Good(S, C, P, B, R), NEW b \in DOMAIN S
  PROVE  {IndexOf(S[b], a) : a \in InUseOf(S[b], Addresses(R))} = UsedOf(S[b], Addresses(R))
<1>1. SlabsRight(S, P, B, Addresses(R)) /\ BlocksRight(B) /\ HeldRight(S, P, B, R)
  BY DEF Good
<1>2. PICK s, e : s = S[b] /\ e = P[PageOf(b)]
  OBVIOUS
<1>3. b \in Nat /\ b % PageSize = 0 /\ e \in CacheIds /\ SlabOf(s, b, e)
  BY <1>1, <1>2, SlabIs
<1>4. s.size \in Nat \ {0} /\ s.max_num \in Nat /\ s.mem \in Nat
  BY <1>3, SlabFacts
<1>5. ASSUME NEW a \in InUseOf(s, Addresses(R)) PROVE IndexOf(s, a) \in UsedOf(s, Addresses(R))
  <2>1. a \in Addresses(R) /\ a >= s.mem /\ a < s.mem + s.size * (s.max_num + 1)
    BY <1>5 DEF InUseOf
  <2>2. PICK r \in R : r[1] = a
    BY <2>1 DEF Addresses
  <2>3. a \in Int
    BY <2>2, HeldPage
  <2>4. PageOf(r[1]) \in PagesOf(b, e)
    BY <1>3, <2>1, <2>2, <2>3, ObjectPages
  <2>5. PICK i \in 0 .. s.max_num - 1 : r[1] = ObjectAt(s, i)
    BY <1>2, <2>4, InSlab
  <2>6. i \in 0 .. s.max_num
    BY <1>4
  <2>7. IndexOf(s, ObjectAt(s, i)) = i
    BY <1>3, <2>6, IndexPlace
  <2> QED BY <2>1, <2>2, <2>5, <2>7 DEF UsedOf
<1>6. ASSUME NEW i \in UsedOf(s, Addresses(R))
      PROVE  \E a \in InUseOf(s, Addresses(R)) : i = IndexOf(s, a)
  <2>1. i \in 0 .. s.max_num - 1 /\ ObjectAt(s, i) \in Addresses(R)
    BY <1>6 DEF UsedOf
  <2>2. i \in 0 .. s.max_num
    BY <1>4, <2>1
  <2>3. /\ ObjectAt(s, i) \in Nat /\ s.mem <= ObjectAt(s, i)
        /\ ObjectAt(s, i) + s.size <= s.mem + s.size * (s.max_num + 1)
    BY <1>3, <2>2, ObjectPlace
  <2>4. PICK v \in Nat : v = s.size * (s.max_num + 1)
    BY <1>4
  <2>5. ObjectAt(s, i) >= s.mem /\ ObjectAt(s, i) < s.mem + s.size * (s.max_num + 1)
    BY <1>4, <2>3, <2>4
  <2>6. ObjectAt(s, i) \in InUseOf(s, Addresses(R))
    BY <2>1, <2>5 DEF InUseOf
  <2>7. IndexOf(s, ObjectAt(s, i)) = i
    BY <1>3, <2>2, IndexPlace
  <2> QED BY <2>6, <2>7
<1>7. {IndexOf(s, a) : a \in InUseOf(s, Addresses(R))} = UsedOf(s, Addresses(R))
  BY <1>5, <1>6
<1> QED BY <1>2, <1>7

\* The struct of a slab and its array of indexes are of no object.
LEMMA StructAside ==
  ASSUME NEW S, NEW C, NEW P, NEW B, NEW R, Good(S, C, P, B, R), NEW b \in DOMAIN S,
         NEW r \in R
  PROVE  r[1] + r[2] <= b \/ r[1] >= b + StructBytes + IndexBytes * S[b].max_num
<1>1. SlabsRight(S, P, B, Addresses(R)) /\ BlocksRight(B) /\ HeldRight(S, P, B, R)
  BY DEF Good
<1>2. PICK s, e : s = S[b] /\ e = P[PageOf(b)]
  OBVIOUS
<1>3. /\ b \in Nat /\ b % PageSize = 0 /\ e \in CacheIds /\ SlabOf(s, b, e)
      /\ SlabRight(s, b, e, P, B, Addresses(R))
  BY <1>1, <1>2, SlabIs
<1>4. s.size \in Nat \ {0} /\ s.max_num \in Nat /\ s.mem \in Nat
  BY <1>3, SlabFacts
<1>5. PICK u \in Nat : u = StructBytes + IndexBytes * s.max_num
  BY <1>4, SlabAssumption
<1>6. /\ b + u <= s.mem
      /\ s.mem + s.size * (s.max_num + 1) <= b + Entries[e].pages * PageSize
  <2>1. 0 \in 0 .. s.max_num
    BY <1>4
  <2>2. /\ b + StructBytes + IndexBytes * s.max_num <= s.mem
        /\ s.mem + s.size * (s.max_num + 1) <= b + Entries[e].pages * PageSize
    BY <1>3, <2>1, ObjectPlace
  <2>3. IndexBytes * s.max_num \in Nat /\ StructBytes \in Nat
    BY <1>4, SlabAssumption
  <2> QED BY <1>3, <1>5, <2>2, <2>3
<1>7. r[1] \in Nat /\ r[2] \in Nat
  BY <1>1, HeldPage DEF HeldRight
<1>8. \A i \in 0 .. s.max_num - 1 : ObjectAt(s, i) >= s.mem
  <2> TAKE i \in 0 .. s.max_num - 1
  <2>1. i \in 0 .. s.max_num
    BY <1>4
  <2> QED BY <1>3, <2>1, ObjectPlace
<1>9. ~(r[1] < b /\ b < r[1] + r[2])
  <2>1. SUFFICES ASSUME r[1] < b, b < r[1] + r[2] PROVE FALSE
    OBVIOUS
  <2>2. b \in Int /\ r[1] <= b
    BY <1>3, <1>7, <2>1
  <2>3. ByteOf(S, P, B, r, b)
    BY <2>1, <2>2, BytesHeld
  <2>4. PageOf(b) \in PagesOf(b, e)
    BY <1>1, <1>3, PagesInBlock
  <2>5. ASSUME NEW x \in DOMAIN S, PageOf(b) \in PagesOf(x, P[PageOf(x)]),
               NEW i \in 0 .. S[x].max_num - 1, r[1] = ObjectAt(S[x], i)
        PROVE  FALSE
    <3>1. x = b
      BY <1>1, <1>2, <2>4, <2>5, OneSlab
    <3>2. r[1] >= s.mem
      BY <1>2, <1>8, <2>5, <3>1
    <3> QED BY <1>3, <1>4, <1>5, <1>6, <1>7, <2>1, <3>2
  <2>6. ASSUME InPages(r[1], r[2], S, P, B), NEW y \in B, y[1] = PageOf(r[1]),
               PageOf(b) \in Pool!Block(y[1], y[2])
        PROVE  FALSE
    BY <1>1, <1>2, <2>4, <2>6, PagesAside
  <2> QED BY <2>3, <2>5, <2>6 DEF ByteOf
<1>10. ~(b <= r[1] /\ r[1] < b + u)
  <2>1. SUFFICES ASSUME b <= r[1], r[1] < b + u PROVE FALSE
    OBVIOUS
  <2>2. PICK v \in Nat : v = s.size * (s.max_num + 1)
    BY <1>4
  <2>3. Entries[e].pages \in Nat /\ PageSize \in Nat
    BY <1>3, EntryFacts
  <2>4. PICK w \in Nat : w = Entries[e].pages * PageSize
    BY <2>3
  <2>5. r[1] < b + Entries[e].pages * PageSize
    BY <1>3, <1>4, <1>6, <1>7, <2>1, <2>2, <2>4
  <2>6. PageOf(r[1]) \in PagesOf(b, e)
    BY <1>3, <1>7, <2>1, <2>3, <2>5, PageWithin DEF PagesOf
  <2>7. PICK i \in 0 .. s.max_num - 1 : r[1] = ObjectAt(s, i)
    BY <1>2, <2>6, InSlab
  <2>8. r[1] >= s.mem
    BY <1>8, <2>7
  <2> QED BY <1>3, <1>4, <1>6, <1>7, <2>1, <2>8
<1>11. r[1] + r[2] <= b \/ r[1] >= b + u
  BY <1>3, <1>7, <1>9, <1>10
<1>12. b + u = b + StructBytes + IndexBytes * s.max_num
  <2>1. IndexBytes * s.max_num \in Nat /\ StructBytes \in Nat
    BY <1>4, SlabAssumption
  <2> QED BY <1>3, <1>5, <2>1
<1> QED BY <1>2, <1>11, <1>12

\* The invariant says of the chains what ChainRight does.
LEMMA ChainFollows ==
  ASSUME HInv
  PROVE  ChainRight
<1>1. /\ Good(slabs, caches, page_obj, blocks, Held)
      /\ SlabsRight(slabs, page_obj, blocks, Addresses(Held))
  BY DEF HInv, Good
<1>2. ASSUME NEW b \in DOMAIN slabs, NEW s, s = slabs[b], NEW left, left = s.max_num - s.num,
             NEW chain, chain = ChainUpTo(s, left)
      PROVE  /\ IsInjective([i \in 1 .. left + 1 |-> chain[i - 1]])
             /\ chain[left] = s.max_num
             /\ {chain[i] : i \in 0 .. left} = 0 .. s.max_num \ {IndexOf(s, a) : a \in InUse(b)}
             /\ \A r \in regions : \/ r[1] + r[2] <= b
                                     \/ r[1] >= b + StructBytes + IndexBytes * s.max_num
  <2>1. PICK e : e = page_obj[PageOf(b)]
    OBVIOUS
  <2>2. /\ b \in Nat /\ e \in CacheIds /\ SlabOf(s, b, e)
        /\ SlabRight(s, b, e, page_obj, blocks, Addresses(Held))
    BY <1>1, <1>2, <2>1, SlabIs
  <2>3. PICK U : U = UsedOf(s, Addresses(Held))
    OBVIOUS
  <2>4. PICK ch : IsChain(ch, s, U)
    BY <2>2, <2>3 DEF SlabRight
  <2>5. s.max_num \in Nat /\ s.num \in 0 .. s.max_num /\ left \in Nat
    BY <1>2, <2>2, SlabFacts
  <2>6. /\ ch \in [0 .. left -> 0 .. s.max_num]
        /\ ch[left] = s.max_num
        /\ \A i, j \in 0 .. left : ch[i] = ch[j] => i = j
        /\ \A x \in 0 .. s.max_num : (x \in U) <=> ~ \E i \in 0 .. left : ch[i] = x
    BY <1>2, <2>4 DEF IsChain
  <2>7. \A i \in 0 .. left : chain[i] = ch[i]
    <3>1. \A i \in 0 .. left : ChainUpTo(s, left)[i] = ch[i]
      BY <1>2, <2>2, <2>4, ChainUpToIs
    <3> QED BY <1>2, <3>1
  <2>8. IsInjective([i \in 1 .. left + 1 |-> chain[i - 1]])
    <3> DEFINE f == [i \in 1 .. left + 1 |-> chain[i - 1]]
    <3>1. ASSUME NEW i \in 1 .. left + 1, NEW j \in 1 .. left + 1, f[i] = f[j] PROVE i = j
      <4>1. chain[i - 1] = chain[j - 1]
        BY <3>1
      <4>2. i - 1 \in 0 .. left /\ j - 1 \in 0 .. left
        BY <2>5
      <4>3. i - 1 = j - 1
        BY <2>6, <2>7, <4>1, <4>2
      <4> QED BY <2>5, <4>3
    <3>2. DOMAIN f = 1 .. left + 1
      OBVIOUS
    <3> HIDE DEF f
    <3>3. IsInjective(f)
      BY <3>1, <3>2 DEF IsInjective
    <3> QED BY <3>3 DEF f
  <2>9. chain[left] = s.max_num
    BY <2>5, <2>6, <2>7
  <2>10. {chain[i] : i \in 0 .. left} = 0 .. s.max_num \ U
    <3>1. ASSUME NEW i \in 0 .. left PROVE chain[i] \in 0 .. s.max_num /\ chain[i] \notin U
      BY <2>6, <2>7
    <3>2. ASSUME NEW x \in 0 .. s.max_num \ U PROVE \E i \in 0 .. left : x = chain[i]
      <4>1. PICK i \in 0 .. left : ch[i] = x
        BY <2>6
      <4> QED BY <2>7, <4>1
    <3> QED BY <3>1, <3>2
  <2>11. Addresses(Held) = {r[1] : r \in regions} \cup
                             {freeing[c].obj : c \in {d \in Cores : freeing[d] # None}}
    <3>1. ASSUME NEW a \in Addresses(Held)
          PROVE  a \in {r[1] : r \in regions} \/
                   \E c \in {d \in Cores : freeing[d] # None} : a = freeing[c].obj
      <4>1. PICK r \in Held : a = r[1]
        BY DEF Addresses
      <4>2. r \in regions \/ \E c \in {d \in Cores : freeing[d] # None} : r = <<freeing[c].obj, 0>>
        BY <4>1 DEF Held, BeingFreed
      <4> QED BY <4>1, <4>2
    <3>2. ASSUME NEW r \in regions PROVE r[1] \in Addresses(Held)
      BY DEF Addresses, Held
    <3>3. ASSUME NEW c \in Cores, freeing[c] # None PROVE freeing[c].obj \in Addresses(Held)
      BY <3>3, FreedIsHeld
    <3> QED BY <3>1, <3>2, <3>3
  <2>12. InUse(b) = InUseOf(s, Addresses(Held))
    BY <1>2, <2>11 DEF InUse, InUseOf
  <2>13. {IndexOf(s, a) : a \in InUseOf(s, Addresses(Held))} = U
    BY <1>1, <1>2, <2>3, UsedIndexes
  <2>14. {IndexOf(s, a) : a \in InUse(b)} = U
    BY <2>12, <2>13
  <2>15. \A r \in regions : \/ r[1] + r[2] <= b
                              \/ r[1] >= b + StructBytes + IndexBytes * s.max_num
    <3> TAKE r \in regions
    <3>1. r \in Held
      BY DEF Held
    <3> QED BY <1>1, <1>2, <3>1, StructAside
  <2> QED BY <2>8, <2>9, <2>10, <2>14, <2>15
<1> QED BY <1>2 DEF ChainRight

\* No object lies on the struct of a slab or its array of indexes, and the
\* chain of each slab has every free index once.
THEOREM HeapChains ==
  ASSUME SlabsRemoved => RemoveUnlinks
  PROVE  HSpec => []ChainRight
<1>1. HInv => ChainRight
  BY ChainFollows
<1> QED BY <1>1, HeapInvariant, PTL

---------------------------------------------------------------------------
(* Objects in use never overlap. *)

\* What is allocated is memory of the heap that nobody holds.
LEMMA NewRegion ==
  ASSUME HInv, HInv', NEW n, Allocates(n)
  PROVE  \E r \in regions' : r[2] >= n /\ HAbs!Alloc(r)
<1>1. PICK o, m : /\ regions' = regions \cup {<<o, m>>} /\ o \notin Addresses(Held)
                  /\ m \in Nat /\ m >= n
  BY DEF Allocates
<1>2. PICK r : r = <<o, m>>
  OBVIOUS
<1>3. r[1] = o /\ r[2] = m /\ r \in regions'
  BY <1>1, <1>2
<1>4. PICK R : R = Held' /\ regions' \subseteq R
  BY DEF Held
<1>5. PICK S, C, P, B : /\ S = slabs' /\ C = caches' /\ P = page_obj' /\ B = blocks'
                        /\ Good(S, C, P, B, R)
  BY <1>4 DEF HInv
<1>6. r \in R
  BY <1>3, <1>4
<1>7. r[1] \in Nat
  BY ONLY <1>5, <1>6, HeldPage
<1>8. HAbs!Bytes(r) \subseteq {a \in Int : PageOf(a) \in Pages}
  <2>1. SUFFICES ASSUME NEW a \in HAbs!Bytes(r) PROVE a \in Int /\ PageOf(a) \in Pages
    OBVIOUS
  <2>2. a \in Int /\ r[1] <= a /\ a < r[1] + r[2]
    BY <1>1, <1>3, <1>7 DEF HAbs!Bytes
  <2> QED BY ONLY <1>5, <1>6, <2>2, BytesHeld
<1>9. ASSUME NEW s \in regions PROVE HAbs!Bytes(r) \cap HAbs!Bytes(s) = {}
  <2>1. SUFFICES ASSUME NEW a, a \in HAbs!Bytes(r), a \in HAbs!Bytes(s) PROVE FALSE
    OBVIOUS
  <2>2. s \in R /\ s \in regions' /\ s \in Held
    BY <1>1, <1>4 DEF Held
  <2>3. s[1] \in Nat /\ s[2] \in Nat
    <3>1. HeldRight(S, P, B, R)
      BY <1>5 DEF Good
    <3>2. s[1] \in Nat
      BY ONLY <1>5, <2>2, HeldPage
    <3> QED BY <2>2, <3>1, <3>2 DEF HeldRight
  <2>4. a \in Int /\ r[1] <= a /\ a < r[1] + r[2]
    BY <1>1, <1>3, <1>7, <2>1 DEF HAbs!Bytes
  <2>5. s[1] <= a /\ a < s[1] + s[2]
    BY <2>1, <2>3, <2>4 DEF HAbs!Bytes
  <2>6. r = s
    BY ONLY <1>5, <1>6, <2>2, <2>4, <2>5, HeldApart
  <2>7. s[1] \in Addresses(Held)
    BY <2>2 DEF Addresses
  <2> QED BY <1>1, <1>3, <2>6, <2>7
<1>10. HAbs!Alloc(r)
  BY <1>1, <1>2, <1>8, <1>9 DEF HAbs!Alloc
<1> QED BY <1>1, <1>3, <1>10

\* Each step is one that HeapAbs allows.
LEMMA StepImplements ==
  ASSUME SlabsRemoved => RemoveUnlinks, HInv, HInv', [HNext]_hvars
  PROVE  [HAbs!Next]_regions
<1>1. SUFFICES ASSUME regions' # regions PROVE HAbs!Next
  OBVIOUS
<1>2. ASSUME NEW n, Allocates(n) PROVE HAbs!Next
  BY <1>2, NewRegion DEF HAbs!Next
<1>3. CASE InitEntry
  BY <1>1, <1>3 DEF InitEntry
<1>4. ASSUME NEW n \in Requests, AllocObject(n) PROVE HAbs!Next
  <2>1. n \in Nat
    BY FitAssumption
  <2>2. Allocates(n)
    BY <1>4, <2>1, AllocObjectKeeps DEF Allocates
  <2> QED BY <1>2, <2>2
<1>5. ASSUME NEW n \in Requests, AllocExpands(n) \/ AllocPages(n) PROVE HAbs!Next
  <2>1. NoMemory \/ Allocates(n)
    BY <1>5, AllocExpandsKeeps, AllocPagesKeeps
  <2> QED BY <1>1, <1>2, <2>1 DEF NoMemory
<1>6. ASSUME NEW c \in Cores, NEW r \in regions, FreeLooks(c, r) PROVE HAbs!Next
  BY <1>6 DEF FreeLooks, HAbs!Next, HAbs!Free
<1>7. ASSUME NEW c \in Cores, FreeObject(c) \/ FreePages(c) PROVE HAbs!Next
  BY <1>1, <1>7 DEF FreeObject, FreePages
<1>8. ASSUME NEW e \in CacheIds, NEW b \in DOMAIN slabs, RemoveSlab(e, b) PROVE HAbs!Next
  <2>1. HInv' /\ \E m \in Nat : Allocates(m)
    BY <1>8, RemoveSlabKeeps DEF RemoveSlab
  <2> QED BY <1>2, <2>1
<1>9. CASE UNCHANGED hvars
  BY <1>1, <1>9 DEF hvars
<1> QED BY <1>3, <1>4, <1>5, <1>6, <1>7, <1>8, <1>9 DEF HNext

\* A call that allocates gives memory that is as long as was asked for.
LEMMA AllocImplements ==
  ASSUME HInv, HInv', NEW n \in Requests, AllocObject(n) \/ AllocExpands(n) \/ AllocPages(n),
         panic' = panic
  PROVE  \E r \in regions' : r[2] >= n /\ HAbs!Alloc(r)
<1>1. n \in Nat
  BY FitAssumption
<1>2. CASE AllocObject(n)
  <2>1. Allocates(n)
    BY <1>1, <1>2, AllocObjectKeeps DEF Allocates
  <2> QED BY <2>1, NewRegion
<1>3. CASE AllocExpands(n) \/ AllocPages(n)
  <2>1. NoMemory \/ Allocates(n)
    BY <1>3, AllocExpandsKeeps, AllocPagesKeeps
  <2>2. panic = "none"
    BY <1>3 DEF AllocExpands, AllocPages, Ready
  <2>3. Allocates(n)
    BY <2>1, <2>2 DEF NoMemory
  <2> QED BY <2>3, NewRegion
<1> QED BY <1>2, <1>3

\* The heap implements HeapAbs: objects in use never overlap, and each call that
\* allocates gives one that is new and as long as was asked for.
THEOREM HeapImplements ==
  ASSUME SlabsRemoved => RemoveUnlinks
  PROVE  HSpec => HImplements
<1> DEFINE Given == \A n \in Requests :
                      (AllocObject(n) \/ AllocExpands(n) \/ AllocPages(n)) /\ panic' = panic =>
                        \E r \in regions' : r[2] >= n /\ HAbs!Alloc(r)
<1>1. HInit => HAbs!Init
  BY DEF HInit, HAbs!Init
<1>2. HInv /\ HInv' /\ [HNext]_hvars => [HAbs!Next]_regions
  BY StepImplements
<1>3. HInv /\ HInv' /\ [HNext]_hvars => [Given]_hvars
  BY AllocImplements
<1>4. HSpec => []HInv
  BY HeapInvariant
<1>5. HSpec => [][HAbs!Next]_regions
  BY <1>2, <1>4, PTL DEF HSpec
<1>6. HSpec => [][Given]_hvars
  BY <1>3, <1>4, PTL DEF HSpec
<1>7. HSpec => HAbs!Init
  BY <1>1 DEF HSpec
<1> QED BY <1>5, <1>6, <1>7 DEF HImplements, HAbs!Spec
=============================================================================
