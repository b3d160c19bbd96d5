-------------------------------- MODULE Slab --------------------------------
(***************************************************************************)
(* One slab, src/src/kernel/kalloc_slab.c: a run of pages with, from its   *)
(* first address on, the struct, the array free_indexs and the objects.    *)
(* A slab is a record of what the struct holds.                            *)
(***************************************************************************)
EXTENDS Integers, Sequences, SequencesExt

CONSTANTS PageSize, StructBytes, IndexBytes  \* sizeof(kalloc_slab_t), of an index

ASSUME SlabAssumption == {PageSize, StructBytes, IndexBytes} \subseteq Nat \ {0}

AlignUp(n, a) == IF n % a = 0 THEN n ELSE n + (a - (n % a))

\* Mutant of FreeListSize: no room for the array.
NoFreeList(n) == 0

FreeListSize(n) == IndexBytes * (n - 1)

StructSize(n, size) == AlignUp(StructBytes + FreeListSize(n), size)

TotalSize(n, size) == AlignUp(StructSize(n, size), size) + n * size

\* kalloc_slab_inline_obj_num_pages: the loop goes down to the first number of
\* objects that fits beside the struct and gives one less.
InlineObjNum(size, pages) ==
  LET fits == {n \in 1 .. (pages * PageSize) \div size : TotalSize(n, size) <= pages * PageSize}
  IN IF fits = {} THEN 0 ELSE Max(fits) - 1

\* kalloc_slab_init of a slab inside its own pages, from address start; its
\* last object stays in reserve.  It is on no list yet.
NewSlab(start, size, pages) ==
  LET n == InlineObjNum(size, pages)
  IN [start |-> start, size |-> size, pages |-> pages,
      mem |-> start + StructSize(n, size),
      max_num |-> n - 1, num |-> 0, free_index |-> 0,
      free_indexs |-> [i \in 0 .. n - 2 |-> i + 1], on |-> "none"]

\* The asserts of kalloc_slab_alloc, and that free_indexs is read inside it.
MayAlloc(s) == s.num # s.max_num /\ s.free_index \in DOMAIN s.free_indexs

ObjectAt(s, i) == s.mem + s.size * i
IndexOf(s, obj) == (obj - s.mem) \div s.size

\* Mutant of AfterAlloc: free_index stays.
AfterAllocStays(s) == [s EXCEPT !.num = @ + 1]

\* kalloc_slab_alloc of the object at free_index
AfterAlloc(s) == [s EXCEPT !.free_index = s.free_indexs[@], !.num = @ + 1]

\* Mutant of AfterFree: the old head of the chain is not linked behind the new.
AfterFreeAlone(s, obj) == [s EXCEPT !.free_index = IndexOf(s, obj), !.num = @ - 1]

\* kalloc_slab_free
AfterFree(s, obj) == [s EXCEPT !.free_indexs[IndexOf(s, obj)] = s.free_index,
                               !.free_index = IndexOf(s, obj), !.num = @ - 1]

\* PTR_IN_RANGE as _get_slab_from_addr uses it
Covers(s, obj) == obj >= s.mem /\ obj < s.mem + s.size * s.max_num

\* KALLOC_SLAB_VERIFY: the objects begin on the page of the struct.
Verified(s) == s.size # 0 /\ s.mem \div PageSize = s.start \div PageSize

\* The first k places of the chain of free indexes.
ChainUpTo(s, k) ==
  LET place[i \in 0 .. k] == IF i = 0 THEN s.free_index
                             ELSE IF place[i - 1] \in DOMAIN s.free_indexs
                                  THEN s.free_indexs[place[i - 1]] ELSE -1
  IN place
=============================================================================
