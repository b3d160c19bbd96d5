----------------------------- MODULE BootMemory -----------------------------
(***************************************************************************)
(* Memory before there is an allocator: the pages and the data heap of     *)
(* early_mm.c, the memory map, the page tables that early_init.c builds    *)
(* from it, and mm_init, which lays out the allocator's structures and     *)
(* takes from it what is in use.  Addresses count bytes; a table's second  *)
(* level has one entry for each block, its first level one for each of its *)
(* second levels.                                                          *)
(***************************************************************************)
EXTENDS Integers, FiniteSets

CONSTANTS Word, PAGE_SIZE,        \* sizes in bytes: uint64_t, a page,
          BLOCK, ENTRIES,         \* a block of the tables; the entries of a table
          MM_AREA_SIZE, MaxBlock, \* of the allocator: an area, a block of MM_MAX_ORDER
          PageStruct, AreaStruct, BuddyStruct,
          MMIO_BASE, QA7_BASE, QA7_SIZE, MemTop,
          EarlyPages,             \* the pages between __earlypage_start and _end
          ImageEnds, VcStarts     \* where the image ends, and where the memory
                                  \* of the video core starts, page aligned

ASSUME BootAssumption ==
  /\ {Word, PAGE_SIZE, BLOCK, ENTRIES, MM_AREA_SIZE, MaxBlock} \subseteq Nat \ {0}
  /\ {PageStruct, AreaStruct, BuddyStruct, EarlyPages, MMIO_BASE, MemTop, QA7_BASE, QA7_SIZE}
       \subseteq Nat
  /\ PAGE_SIZE % Word = 0 /\ BLOCK % PAGE_SIZE = 0 /\ MM_AREA_SIZE % BLOCK = 0
  /\ MaxBlock % PAGE_SIZE = 0 /\ MM_AREA_SIZE % MaxBlock = 0
  /\ ((MM_AREA_SIZE \div PAGE_SIZE) * PageStruct) % PAGE_SIZE = 0
  /\ MMIO_BASE % BLOCK = 0 /\ MMIO_BASE < MemTop /\ MemTop <= QA7_BASE
  /\ \A a \in ImageEnds \cup VcStarts : a \in Nat /\ a % PAGE_SIZE = 0 /\ a < MMIO_BASE
  /\ QA7_BASE + QA7_SIZE < ENTRIES * ENTRIES * BLOCK

ALIGN_UP(x, size) == IF x % size = 0 THEN x ELSE x + (size - (x % size))

VARIABLES step,          \* what Core0 does next
          vc,            \* what the mailbox says of the video core's memory
          image,         \* where the kernel's image and stacks end
          early_page_curr, mm_data_top,
          map,           \* the memory map: a sequence of regions
          l0, l1,        \* the tables: the page of each second level, its entries
          at,            \* the region and the block that are mapped next
          handed,         \* history: what the two allocators gave, <<from, size>>
          areas,         \* area_count
          reserved, page \* pages taken from the allocator; the next to take

bvars == <<step, vc, image, early_page_curr, mm_data_top, map, l0, l1, at, handed, areas, reserved, page>>

NoTable == 0
NoBlock == "unmapped"
Regions == 1 .. 4

BInit == /\ step = "early" /\ vc = 0 /\ image = 0
         /\ early_page_curr = 0 /\ mm_data_top = 0 /\ map = <<>> /\ handed = {} /\ areas = 0
         /\ l0 = <<>> /\ l1 = <<>> /\ at = <<1, 0>>
         /\ reserved = {} /\ page = 0

layout == <<map, l0, l1, at>>
pool   == <<areas, reserved, page>>

page_start == image
page_end   == image + EarlyPages * PAGE_SIZE

\* The kernel that was loaded, and the memory that early_get_mem_size reports.
\* mm_early_init: the pages lie after the image, the data heap after them.
MmEarlyInit == /\ step = "early" /\ step' = "memmap"
               /\ vc' \in VcStarts /\ image' \in ImageEnds
               /\ early_page_curr' = page_start' /\ mm_data_top' = page_end'
               /\ UNCHANGED <<layout, handed, pool>>

\* mm_earlypage_alloc of n pages.
EarlyPage(n) == /\ early_page_curr + n * PAGE_SIZE <= page_end
                /\ early_page_curr' = early_page_curr + n * PAGE_SIZE
                /\ handed' = handed \cup {<<early_page_curr, n * PAGE_SIZE>>}

\* mm_early_init_memmap, in a page of its own.
MemMap ==
  /\ step = "memmap" /\ step' = "root"
  /\ EarlyPage(1)
  /\ map' = << [start |-> 0, size |-> vc, attr |-> "normal"],
               [start |-> vc, size |-> MMIO_BASE - vc, attr |-> "uncached"],
               [start |-> MMIO_BASE, size |-> MemTop - MMIO_BASE, attr |-> "device"],
               [start |-> QA7_BASE, size |-> QA7_SIZE, attr |-> "device"] >>
  /\ UNCHANGED <<vc, image, mm_data_top, l0, l1, at, pool>>

Empty(table) == [i \in 0 .. ENTRIES - 1 |-> table]

\* early_mmu_init makes the root table and the second level of its first entry.
Root == /\ step = "root" /\ step' = "blocks"
        /\ EarlyPage(2)
        /\ l0' = [Empty(NoTable) EXCEPT ![0] = early_page_curr + PAGE_SIZE]
        /\ l1' = [t \in {early_page_curr + PAGE_SIZE} |-> Empty(NoBlock)]
        /\ UNCHANGED <<vc, image, mm_data_top, map, at, pool>>

L0_ENTRY(block) == block \div ENTRIES
L1_ENTRY(block) == block % ENTRIES

FirstBlock(i) == map[i].start \div BLOCK
mem_end(i)    == (map[i].start + map[i].size) \div BLOCK

\* Mutant of InRegion: the loop stops before the block that the region ends in.
BeforeEnd(i, block) == block < mem_end(i)

\* The condition of early_mmu_init's loop over a region's blocks, which goes on
\* to the block that the region ends in, or to the next if it ends with a block.
InRegion(i, block) == block <= mem_end(i)

\* Mutant of NewEntry: an entry that is there is written over.
Overwritten(old, attr) == attr

NewEntry(old, attr) == IF old = NoBlock THEN attr ELSE old

\* low_map_entry; the second level is a page of its own if it is not there.
MapBlock ==
  LET i == at[1]
      block == at[2]
      table == IF l0[L0_ENTRY(block)] = NoTable THEN early_page_curr ELSE l0[L0_ENTRY(block)]
      entries == IF table \in DOMAIN l1 THEN l1[table] ELSE Empty(NoBlock)
  IN /\ step = "blocks" /\ i \in Regions /\ InRegion(i, block)
     /\ IF table \in DOMAIN l1 THEN UNCHANGED <<early_page_curr, handed>> ELSE EarlyPage(1)
     /\ l0' = [l0 EXCEPT ![L0_ENTRY(block)] = table]
     /\ l1' = [t \in DOMAIN l1 \cup {table} |->
                 IF t = table
                 THEN [entries EXCEPT ![L1_ENTRY(block)] = NewEntry(@, map[i].attr)]
                 ELSE l1[t]]
     /\ at' = <<i, block + 1>>
     /\ UNCHANGED <<step, vc, image, mm_data_top, map, pool>>

NextRegion == /\ step = "blocks" /\ at[1] \in Regions /\ ~InRegion(at[1], at[2])
              /\ at' = IF at[1] = 4 THEN <<5, 0>> ELSE <<at[1] + 1, FirstBlock(at[1] + 1)>>
              /\ UNCHANGED <<step, vc, image, early_page_curr, mm_data_top, map, l0, l1, handed, pool>>

\* The tables are done: early_mmu_enable sets both table registers to the root.
EnableMmu == /\ step = "blocks" /\ at[1] = 5
             /\ step' = "pages"
             /\ UNCHANGED <<vc, image, early_page_curr, mm_data_top, layout, handed, pool>>

\* early_data_alloc, from an address that align_early_mem has aligned.
DataAlloc(from, size) == /\ mm_data_top' = ALIGN_UP(from + size, Word)
                         /\ handed' = handed \cup {<<from, size>>}

\* mm_init sizes the allocator by the memory that the video core leaves,
mem_size  == ALIGN_UP(map[1].size, MM_AREA_SIZE)
num_pages == mem_size \div PAGE_SIZE
area_num  == mem_size \div MM_AREA_SIZE

\* and allocates the structures of the pages, whole pages of them,
InitPages ==
  /\ step = "pages" /\ step' = "areas"
  /\ DataAlloc(ALIGN_UP(mm_data_top, PAGE_SIZE), ((num_pages * PageStruct) \div PAGE_SIZE) * PAGE_SIZE)
  /\ UNCHANGED <<vc, image, early_page_curr, layout, pool>>

\* of the areas,
InitAreas ==
  /\ step = "areas" /\ step' = "buddies"
  /\ DataAlloc(ALIGN_UP(mm_data_top, PAGE_SIZE), AreaStruct * area_num)
  /\ UNCHANGED <<vc, image, early_page_curr, layout, pool>>

\* and of the buddies, one for each pair of pages; mm_area_init makes all
\* memory free.
InitBuddies ==
  /\ step = "buddies" /\ step' = "low"
  /\ DataAlloc(ALIGN_UP(mm_data_top, PAGE_SIZE), (num_pages \div 2) * BuddyStruct)
  /\ areas' = area_num
  /\ UNCHANGED <<vc, image, early_page_curr, layout, reserved, page>>

\* What Buddy shows of get_free_ancestor: it finds the block of the first page
\* of a block of the highest order, and of one behind a reserved page, only.
Found == (page * PAGE_SIZE) % MaxBlock = 0 \/ page - 1 \in reserved

\* kalloc_page_reserve_pages of one page, which panics if it is taken, in no
\* area or not found.
Reserve == IF page \in reserved \/ page * PAGE_SIZE >= areas * MM_AREA_SIZE \/ ~Found
           THEN step' = "panic" /\ UNCHANGED <<reserved, page>>
           ELSE step' = step /\ reserved' = reserved \cup {page} /\ page' = page + 1

\* mm_reserve_early_mem takes all pages up to the heap's top,
LowPages == ALIGN_UP(mm_data_top, PAGE_SIZE) \div PAGE_SIZE

ReserveLow == /\ step = "low" /\ page < LowPages
              /\ Reserve
              /\ UNCHANGED <<vc, image, early_page_curr, mm_data_top, layout, handed, areas>>

\* Mutant of device_mem_start: the memory of the devices, not that of the video core.
mmio_start == map[3].start

\* The entry EARLY_MEM_MAP_DEVICE_MEM_START of the map.
device_mem_start == map[2].start
last_area == (areas - 1) * MM_AREA_SIZE

\* and, where the last area overlaps the video core's memory,
LowDone == /\ step = "low" /\ page >= LowPages
           /\ IF device_mem_start >= last_area /\ device_mem_start < last_area + MM_AREA_SIZE
              THEN step' = "high" /\ page' = device_mem_start \div PAGE_SIZE
              ELSE step' = "done" /\ page' = page
           /\ UNCHANGED <<vc, image, early_page_curr, mm_data_top, layout, handed, areas, reserved>>

\* the pages of it.
ReserveHigh == /\ step = "high" /\ page < (last_area + MM_AREA_SIZE) \div PAGE_SIZE
               /\ Reserve
               /\ UNCHANGED <<vc, image, early_page_curr, mm_data_top, layout, handed, areas>>

HighDone == /\ step = "high" /\ page >= (last_area + MM_AREA_SIZE) \div PAGE_SIZE
            /\ step' = "done"
            /\ UNCHANGED <<vc, image, early_page_curr, mm_data_top, layout, handed, pool>>

BNext == \/ MmEarlyInit \/ MemMap \/ Root \/ MapBlock \/ NextRegion \/ EnableMmu
         \/ InitPages \/ InitAreas \/ InitBuddies
         \/ ReserveLow \/ LowDone \/ ReserveHigh \/ HighDone

BSpec == BInit /\ [][BNext]_bvars

---------------------------------------------------------------------------
(* Properties. *)

\* early_mmu_get_map_entry: what the tables say of an address.
MapEntry(addr) == LET block == addr \div BLOCK
                  IN IF l0[L0_ENTRY(block)] = NoTable THEN NoBlock
                     ELSE l1[l0[L0_ENTRY(block)]][L1_ENTRY(block)]

Mapped == step \notin {"early", "memmap", "root", "blocks"}

\* Block b lies in region i as a whole.
InsideRegion(b, i) == map[i].start <= b * BLOCK /\ (b + 1) * BLOCK <= map[i].start + map[i].size

\* "Map the physical ram space with the correct memory attributes", early_init.c
\* 145: every block that lies in one region is mapped as early_mm.c's map says of
\* that region.  The code does not: the first block of a region that starts
\* with a block has the attribute of the region before it.
TablesRight ==
  Mapped => \A i \in Regions : \A b \in FirstBlock(i) .. mem_end(i) :
              InsideRegion(b, i) => MapEntry(b * BLOCK) = map[i].attr

\* What the code does map once translation is on: all of the RAM as normal
\* memory, also where the video core's memory starts inside a block; a block in
\* one region as the map says of it, but for the one that the loop over the
\* region before has reached; and nothing that no region's loop reaches.
TablesCover ==
  Mapped =>
    \A b \in 0 .. ENTRIES * ENTRIES - 1 :
      /\ b * BLOCK < map[1].size => MapEntry(b * BLOCK) = "normal"
      /\ \A i \in Regions :
           InsideRegion(b, i) /\ (i = 1 \/ b # mem_end(i - 1)) => MapEntry(b * BLOCK) = map[i].attr
      /\ (\A i \in Regions : b \notin FirstBlock(i) .. mem_end(i)) => MapEntry(b * BLOCK) = NoBlock

\* What the allocator has to give out after mm_init: RAM that neither the
\* image, nor the early pages, nor the allocator's own structures use, although
\* the data heap has no end of its own; and these do not overlap.  No page that
\* mm_init reserves panics, if the memory of the video core starts with a block
\* of the highest order.
Free == {p \in 0 .. (areas * MM_AREA_SIZE) \div PAGE_SIZE - 1 : p \notin reserved}

FreeIsUnused ==
  /\ step = "panic" => vc % MaxBlock # 0
  /\ step = "done" =>
       \A p \in Free : /\ (p + 1) * PAGE_SIZE <= vc
                       /\ p * PAGE_SIZE >= page_end
                       /\ \A g \in handed : p * PAGE_SIZE >= g[1] + g[2]
  /\ \A g, h \in handed : g = h \/ g[1] + g[2] <= h[1] \/ h[1] + h[2] <= g[1]
=============================================================================
