-------------------------------- MODULE Heap --------------------------------
(***************************************************************************)
(* The kernel heap: kalloc.c over the caches of kalloc_cache.c, their      *)
(* slabs (Slab) and the page allocator, of which only what BlockPool       *)
(* promises is used (Buddy implements it).  A critical section of kalloc's *)
(* lock is one step; what is read before the lock is a step before it.     *)
(***************************************************************************)
EXTENDS Slab, FiniteSets

CONSTANTS Cores, None,
          Pages, Orders, Size,   \* of the page allocator: pages, and pages of a block
          Entries,               \* entries[]: records of size and pages
          Requests,              \* the lengths that callers ask for
          SlabsRemoved,          \* whether anything calls kalloc_cache_remove_slab:
                                 \* nothing in the code does
          RemoveUnlinks          \* FALSE: kalloc_cache_remove_slab as it is.  TRUE:
                                 \* it takes the slab off the free list.

BitLength(n) == CHOOSE k \in 0 .. n : 2 ^ k > n /\ \A j \in 0 .. k - 1 : 2 ^ j <= n

\* math_align_power2_64 and mm_pages_to_memorder of it; an exact power of two
\* is doubled.
AlignPower2(n) == 2 ^ BitLength(n)
MemOrder(pages) == BitLength(pages)

\* The pages of a request that no entry is for, and the order of their block.
PageCount(n) == AlignUp(n, PageSize) \div PageSize
PagesOrder(n) == MemOrder(AlignPower2(PageCount(n)))

CacheIds == DOMAIN Entries

ASSUME EntriesAssumption ==
  /\ Entries \in Seq([size : Nat \ {0}, pages : Nat \ {0}]) /\ Entries # <<>>
  /\ SlabsRemoved \in BOOLEAN /\ RemoveUnlinks \in BOOLEAN
  /\ None \notin Int /\ None \notin [obj : Int, cache : CacheIds \cup {None}]

\* Each entry is for at least one object and one in reserve, which begin on the
\* first page of the slab; the blocks of its order have its pages.
ASSUME FitAssumption ==
  /\ Pages \subseteq Nat /\ Requests \subseteq Nat /\ Size \in [Orders -> Nat \ {0}]
  /\ \A e \in CacheIds :
       LET n == InlineObjNum(Entries[e].size, Entries[e].pages)
       IN /\ n > 1 /\ StructSize(n, Entries[e].size) < PageSize
          /\ MemOrder(Entries[e].pages) \in Orders
          /\ Entries[e].pages <= Size[MemOrder(Entries[e].pages)]
  /\ \A n \in Requests : n > Entries[Len(Entries)].size =>
       PagesOrder(n) \in Orders /\ PageCount(n) <= Size[PagesOrder(n)]

VARIABLES blocks,    \* the blocks taken from the page allocator: <<page, order>>
          slabs,     \* the slabs by their start, in memory taken from it
          caches,    \* of each entry: num, max_num and the three lists
          page_obj,  \* obj of global_pages[]: the cache a page is linked to
          freeing,   \* what a core in kalloc_free has read: the object, its cache
          panic,     \* "none", "memory" (no pages are left), "heap"
          inited,    \* the entries that kalloc_init is done with
          regions    \* history: the objects callers hold, <<address, length>>

hvars == <<blocks, slabs, caches, page_obj, freeing, panic, inited, regions>>

Pool == INSTANCE BlockPool WITH owned <- blocks

ListNames == {"free", "partial", "full"}
PageOf(a) == a \div PageSize

---------------------------------------------------------------------------
(* kalloc_cache.c, as functions of h, a record of the slabs, the caches,   *)
(* the page links and panic.                                               *)

Heap == [slabs |-> slabs, caches |-> caches, page_obj |-> page_obj, panic |-> panic]

\* A list without slab b.
Without(s, b) == IF b \in Range(s) THEN RemoveAt(s, CHOOSE k \in DOMAIN s : s[k] = b) ELSE s

Relisted(lists, b, from, to) ==
  [l \in ListNames |-> CASE l = to -> Append(Without(lists[l], b), b)
                         [] l = from /\ l # to -> Without(lists[l], b)
                         [] OTHER -> lists[l]]

\* add_remove_cache_list
MoveSlab(h, e, b, from, to) ==
  [h EXCEPT !.caches[e].lists = Relisted(@, b, from, to), !.slabs[b].on = to]

\* mm_link_page_obj_ptr of the pages of slab s
LinkPages(h, s, cache) ==
  [h EXCEPT !.page_obj = [p \in Pages |->
     IF p \in PageOf(s.mem) .. PageOf(s.mem) + s.pages - 1 THEN cache ELSE @[p]]]

\* kalloc_cache_add_slab_pages of the pages that begin at address b
AddSlab(h, e, b) ==
  LET s  == NewSlab(b, Entries[e].size, Entries[e].pages)
      in == [h EXCEPT !.slabs = [x \in DOMAIN @ \cup {b} |-> IF x = b THEN s ELSE @[x]],
                      !.caches[e].max_num = @ + s.max_num,
                      !.panic = IF Verified(s) /\ s.max_num > 0 THEN @ ELSE "heap"]
  IN LinkPages(MoveSlab(in, e, b, "none", "free"), s, e)

\* Mutant of ListFor: an empty slab is not told from a partial one.
ListForUsed(s) == IF s.num = s.max_num /\ s.on # "full" THEN "full" ELSE "partial"

\* check_slab_and_update_list: where a slab goes when its num has changed.
ListFor(s) ==
  CASE s.num = s.max_num /\ s.on # "full" -> "full"
    [] ~(s.num = s.max_num /\ s.on # "full") /\ s.num = 0 /\ s.on # "free" -> "free"
    [] OTHER -> "partial"

Update(h, e, b) == IF ListFor(h.slabs[b]) = h.slabs[b].on THEN h
                   ELSE MoveSlab(h, e, b, h.slabs[b].on, ListFor(h.slabs[b]))

\* get_free_slab: None when both lists are empty.
FreeSlab(h, e) == LET l == h.caches[e].lists
                  IN IF l["partial"] # <<>> THEN Head(l["partial"])
                     ELSE IF l["free"] # <<>> THEN Head(l["free"]) ELSE None

\* kalloc_cache_alloc of a cache that has room
CacheAlloc(h, e) ==
  LET b == FreeSlab(h, e)
  IN IF b = None \/ ~MayAlloc(h.slabs[b]) THEN [h |-> [h EXCEPT !.panic = "heap"], obj |-> None]
     ELSE [h |-> [Update([h EXCEPT !.slabs[b] = AfterAlloc(@)], e, b)
                    EXCEPT !.caches[e].num = @ + 1],
           obj |-> ObjectAt(h.slabs[b], h.slabs[b].free_index)]

\* get_slab_from_addr looks in the full and the partial slabs; for an object
\* of a slab on the free list, or of none, the caller panics.
SlabsWith(h, e, obj) ==
  {b \in Range(h.caches[e].lists["full"]) \cup Range(h.caches[e].lists["partial"]) :
     Covers(h.slabs[b], obj)}

CacheFree(h, e, obj) ==
  IF h.caches[e].num = 0 \/ SlabsWith(h, e, obj) = {} THEN [h EXCEPT !.panic = "heap"]
  ELSE LET b == CHOOSE x \in SlabsWith(h, e, obj) : TRUE
       IN IF h.slabs[b].num = 0 THEN [h EXCEPT !.panic = "heap"]
          ELSE [Update([h EXCEPT !.slabs[b] = AfterFree(@, obj)], e, b)
                  EXCEPT !.caches[e].num = @ - 1]

---------------------------------------------------------------------------
(* kalloc.c *)

\* get_entry_num_from_size
EntryFor(n) == CHOOSE i \in CacheIds : n <= Entries[i].size /\
                                       \A j \in 1 .. i - 1 : n > Entries[j].size

SetHeap(h) == /\ slabs' = h.slabs /\ caches' = h.caches /\ page_obj' = h.page_obj
              /\ panic' = h.panic

Takeable(p, k) == /\ p % Size[k] = 0 /\ Pool!Block(p, k) \subseteq Pages
                  /\ \A b \in blocks : Pool!Block(p, k) \cap Pool!Block(b[1], b[2]) = {}

OutOfPages(k) == {p \in Pages : Takeable(p, k)} = {}

TakePages(p, k) == Takeable(p, k) /\ Pool!Take(p, k)

NoMemory == panic' = "memory" /\ UNCHANGED <<blocks, slabs, caches, page_obj, freeing, inited, regions>>

\* A cache as kalloc_cache_init leaves it.
EmptyCache == [num |-> 0, max_num |-> 0,
               lists |-> [l \in ListNames |-> <<>>]]

HInit == /\ blocks = {} /\ slabs = <<>> /\ regions = {} /\ inited = 0
         /\ caches = [e \in CacheIds |-> EmptyCache]
         /\ page_obj = [p \in Pages |-> None]
         /\ freeing = [c \in Cores |-> None]
         /\ panic = "none"

\* The loop of kalloc_init: cache_expand of the next entry.  At boot there are
\* pages for every entry.
InitEntry == LET e == inited + 1 IN
  /\ panic = "none" /\ e \in CacheIds
  /\ \E p \in Pages : /\ TakePages(p, MemOrder(Entries[e].pages))
                      /\ SetHeap(AddSlab(Heap, e, p * PageSize))
  /\ inited' = e
  /\ UNCHANGED <<freeing, regions>>

Ready == panic = "none" /\ inited = Len(Entries)

Full(e) == caches[e].num = caches[e].max_num

\* kalloc_alloc of n bytes by way of an entry that has room,
AllocObject(n) ==
  /\ Ready /\ n <= Entries[Len(Entries)].size /\ ~Full(EntryFor(n))
  /\ LET after == CacheAlloc(Heap, EntryFor(n)) IN
       /\ SetHeap(after.h)
       /\ regions' = regions \cup {<<after.obj, n>>}
  /\ UNCHANGED <<blocks, freeing, inited>>

\* of an entry that is expanded first,
AllocExpands(n) ==
  LET e == EntryFor(n)
      k == MemOrder(Entries[e].pages)
  IN /\ Ready /\ n <= Entries[Len(Entries)].size /\ Full(e)
     /\ \/ \E p \in Pages :
             /\ TakePages(p, k)
             /\ LET after == CacheAlloc(AddSlab(Heap, e, p * PageSize), e) IN
                  /\ SetHeap(after.h)
                  /\ regions' = regions \cup {<<after.obj, n>>}
             /\ UNCHANGED <<freeing, inited>>
        \/ OutOfPages(k) /\ NoMemory

\* or of whole pages, kalloc_pages.
AllocPages(n) ==
  LET k == PagesOrder(n)
  IN /\ Ready /\ n > Entries[Len(Entries)].size
     /\ \/ \E p \in Pages :
             /\ TakePages(p, k)
             /\ regions' = regions \cup {<<p * PageSize, PageCount(n) * PageSize>>}
             /\ UNCHANGED <<slabs, caches, page_obj, freeing, inited, panic>>
        \/ OutOfPages(k) /\ NoMemory

\* kalloc_free up to its lock: get_cache_from_addr.
FreeLooks(c, r) ==
  /\ Ready /\ freeing[c] = None /\ r \in regions
  /\ freeing' = [freeing EXCEPT ![c] = [obj |-> r[1], cache |-> page_obj[PageOf(r[1])]]]
  /\ regions' = regions \ {r}
  /\ UNCHANGED <<blocks, slabs, caches, page_obj, panic, inited>>

\* The rest of it: the object of a cache,
FreeObject(c) ==
  /\ Ready /\ freeing[c] # None /\ freeing[c].cache # None
  /\ SetHeap(CacheFree(Heap, freeing[c].cache, freeing[c].obj))
  /\ freeing' = [freeing EXCEPT ![c] = None]
  /\ UNCHANGED <<blocks, regions, inited>>

\* pages, whose address is the start of a block that is in use.
FreePages(c) ==
  /\ Ready /\ freeing[c] # None /\ freeing[c].cache = None
  /\ LET p     == PageOf(freeing[c].obj)
         taken == {k \in Orders : <<p, k>> \in blocks}
     IN IF freeing[c].obj % PageSize # 0 \/ taken = {}
        THEN panic' = "heap" /\ UNCHANGED blocks
        ELSE (\E k \in taken : Pool!Give(p, k)) /\ UNCHANGED panic
  /\ freeing' = [freeing EXCEPT ![c] = None]
  /\ UNCHANGED <<slabs, caches, page_obj, regions, inited>>

\* Mutant of Unlisted: the slab stays on the free list, as in the code.
StaysListed(h, e, b) == h

Unlisted(h, e, b) == IF ~RemoveUnlinks THEN h
                     ELSE [h EXCEPT !.caches[e].lists["free"] = Without(@, b)]

\* kalloc_cache_remove_slab, by a caller that then has the slab's pages.
RemoveSlab(e, b) ==
  /\ SlabsRemoved /\ Ready
  /\ slabs[b].on = "free" /\ slabs[b].num = 0 /\ b \in Range(caches[e].lists["free"])
  /\ LET h == LinkPages([Unlisted(Heap, e, b) EXCEPT !.caches[e].max_num = @ - slabs[b].max_num],
                        slabs[b], None)
     IN SetHeap([h EXCEPT !.slabs = IF b \in Range(h.caches[e].lists["free"]) THEN @
                                    ELSE Restrict(@, DOMAIN @ \ {b})])
  /\ regions' = regions \cup {<<b, slabs[b].pages * PageSize>>}
  /\ UNCHANGED <<blocks, freeing, inited>>

HNext == \/ InitEntry
         \/ \E n \in Requests : AllocObject(n) \/ AllocExpands(n) \/ AllocPages(n)
         \/ \E c \in Cores : \/ \E r \in regions : FreeLooks(c, r)
                             \/ FreeObject(c) \/ FreePages(c)
         \/ \E e \in CacheIds : \E b \in DOMAIN slabs : RemoveSlab(e, b)

HSpec == HInit /\ [][HNext]_hvars

---------------------------------------------------------------------------
(* Properties. *)

HTypeOK ==
  /\ blocks \subseteq Pages \X Orders
  /\ \A b \in DOMAIN slabs : /\ b % PageSize = 0 /\ slabs[b].on \in ListNames
                             /\ slabs[b].num \in 0 .. slabs[b].max_num
  /\ \A e \in CacheIds : \A l \in ListNames : Range(caches[e].lists[l]) \subseteq DOMAIN slabs
  /\ page_obj \in [Pages -> CacheIds \cup {None}]
  /\ panic \in {"none", "memory", "heap"}
  /\ inited \in 0 .. Len(Entries)

\* No assert of kalloc, of a cache or of a slab fails: in particular an object
\* that is freed is found in a full or a partial slab of the cache its page is
\* linked to, and pages that are freed are linked to none.
HNoPanic == panic # "heap"

Listed(e) == {b \in DOMAIN slabs : \E l \in ListNames : b \in Range(caches[e].lists[l])}

\* A slab is on the one list that its num calls for and that its node names,
\* and a cache's counts are those of its slabs.
ListsRight ==
  /\ HTypeOK
  /\ \A b \in DOMAIN slabs : \E e \in CacheIds :
       /\ b \in Range(caches[e].lists[slabs[b].on])
       /\ slabs[b].on = CASE slabs[b].num = slabs[b].max_num -> "full"
                         [] slabs[b].num = 0 -> "free"
                         [] OTHER -> "partial"
       /\ \A f \in CacheIds, l \in ListNames :
            b \in Range(caches[f].lists[l]) => f = e /\ l = slabs[b].on
  /\ \A e \in CacheIds :
       /\ caches[e].num = Cardinality(UNION {{b} \X (1 .. slabs[b].num) : b \in Listed(e)})
       /\ caches[e].max_num = Cardinality(UNION {{b} \X (1 .. slabs[b].max_num) : b \in Listed(e)})
       /\ \A l \in ListNames : IsInjective(caches[e].lists[l])

\* The objects of slab b that are in use or are being freed.
InUse(b) == {a \in {r[1] : r \in regions} \cup {freeing[c].obj : c \in {d \in Cores : freeing[d] # None}} :
               a >= slabs[b].mem /\ a < slabs[b].mem + slabs[b].size * (slabs[b].max_num + 1)}

\* No object that is in use touches a slab's struct or its array of indexes,
\* whose chain of free indexes has every index that is not in use, once, and
\* ends at the one that stays in reserve.
ChainRight ==
  \A b \in DOMAIN slabs :
    LET s     == slabs[b]
        left  == s.max_num - s.num
        chain == ChainUpTo(s, left)
    IN /\ IsInjective([i \in 1 .. left + 1 |-> chain[i - 1]])
       /\ chain[left] = s.max_num
       /\ {chain[i] : i \in 0 .. left} = 0 .. s.max_num \ {IndexOf(s, a) : a \in InUse(b)}
       /\ \A r \in regions : \/ r[1] + r[2] <= b
                               \/ r[1] >= b + StructBytes + IndexBytes * s.max_num

HAbs == INSTANCE HeapAbs WITH Memory <- {a \in Int : PageOf(a) \in Pages}

\* Objects in use never overlap, and every call that allocates gives one that
\* is new and as long as was asked for.
HImplements ==
  /\ HAbs!Spec
  /\ [][\A n \in Requests :
         (AllocObject(n) \/ AllocExpands(n) \/ AllocPages(n)) /\ panic' = panic =>
           \E r \in regions' : r[2] >= n /\ HAbs!Alloc(r)]_hvars
=============================================================================
