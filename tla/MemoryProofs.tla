---------------------------- MODULE MemoryProofs ---------------------------
(***************************************************************************)
(* Theorems about BootMemory: what the allocator is left with after        *)
(* mm_init, and what the page tables say of each block.  About Helpers:    *)
(* what the copying loops and the bitmap calls leave behind, how memcmp    *)
(* orders memory, and that the calls for bits agree with the number that a *)
(* word is.  About LinkedList: each call keeps what SeqAbs promises of it. *)
(***************************************************************************)
EXTENDS BootMemory, Helpers, LinkedList, SharedLemmas, FiniteSetTheorems

---------------------------------------------------------------------------
(* Arithmetic of the boot memory. *)

\* ALIGN_UP gives the first multiple of the size that is not below.
LEMMA Aligned ==
  ASSUME NEW x \in Nat, NEW s \in Nat, s > 0
  PROVE  /\ ALIGN_UP(x, s) \in Nat /\ ALIGN_UP(x, s) % s = 0
         /\ x <= ALIGN_UP(x, s) /\ ALIGN_UP(x, s) < x + s
<1>1. PICK q \in Nat, r \in Nat : x = q * s + r /\ r < s /\ r = x % s
  <2>1. x \div s \in Nat
    OBVIOUS
  <2>2. x % s \in Nat
    OBVIOUS
  <2>3. x % s < s
    OBVIOUS
  <2>4. x = (x \div s) * s + (x % s)
    OBVIOUS
  <2> QED BY ONLY <2>1, <2>2, <2>3, <2>4
<1>2. CASE r = 0
  <2>1. x % s = 0
    BY ONLY <1>1, <1>2
  <2>2. ALIGN_UP(x, s) = x
    BY <2>1 DEF ALIGN_UP
  <2> QED BY <2>1, <2>2
<1>3. CASE r # 0
  <2>1. ALIGN_UP(x, s) = x + (s - r)
    BY <1>1, <1>3 DEF ALIGN_UP
  <2>2. ALIGN_UP(x, s) = (q + 1) * s
    BY <1>1, <2>1
  <2>3. ((q + 1) * s) % s = 0
    BY Multiple
  <2> QED BY <1>1, <1>3, <2>1, <2>2, <2>3
<1> QED BY <1>2, <1>3

\* What is aligned to a multiple is aligned.
LEMMA Coarser ==
  ASSUME NEW x \in Nat, NEW t \in Nat, NEW s \in Nat, t > 0, s > 0, x % t = 0, t % s = 0
  PROVE  x % s = 0
<1>1. PICK q \in Nat : x = q * t
  BY Divided
<1>2. PICK r \in Nat : t = r * s
  BY Divided
<1>3. x = (q * r) * s /\ q * r \in Nat
  BY <1>1, <1>2
<1> QED BY <1>3, Multiple

\* Multiples of s are ordered as their quotients.
LEMMA Ordered ==
  ASSUME NEW p \in Nat, NEW q \in Nat, NEW s \in Nat, s > 0
  PROVE  /\ p <= q <=> p * s <= q * s
         /\ p < q <=> p * s < q * s
         /\ p < q => (p + 1) * s <= q * s
         /\ p * s \in Nat /\ (p + 1) * s = p * s + s
OBVIOUS

\* What BootAssumption says of the sizes that the proofs divide by.
LEMMA Sizes ==
  /\ PAGE_SIZE \in Nat /\ PAGE_SIZE > 0 /\ Word \in Nat /\ Word > 0
  /\ MM_AREA_SIZE \in Nat /\ MM_AREA_SIZE > 0 /\ MaxBlock \in Nat /\ MaxBlock > 0
  /\ BLOCK \in Nat /\ BLOCK > 0 /\ ENTRIES \in Nat /\ ENTRIES > 0
  /\ PageStruct \in Nat /\ AreaStruct \in Nat /\ BuddyStruct \in Nat /\ EarlyPages \in Nat
  /\ MM_AREA_SIZE % PAGE_SIZE = 0
<1>1. /\ BLOCK \in Nat /\ BLOCK > 0 /\ PAGE_SIZE \in Nat /\ PAGE_SIZE > 0
      /\ MM_AREA_SIZE \in Nat /\ MM_AREA_SIZE > 0
  BY BootAssumption
<1>2. MM_AREA_SIZE % BLOCK = 0 /\ BLOCK % PAGE_SIZE = 0
  BY BootAssumption
<1>3. MM_AREA_SIZE % PAGE_SIZE = 0
  BY ONLY <1>1, <1>2, Coarser
<1>4. /\ Word \in Nat /\ Word > 0 /\ MaxBlock \in Nat /\ MaxBlock > 0
      /\ ENTRIES \in Nat /\ ENTRIES > 0 /\ PageStruct \in Nat /\ AreaStruct \in Nat
      /\ BuddyStruct \in Nat /\ EarlyPages \in Nat
  BY BootAssumption
<1> QED BY ONLY <1>1, <1>3, <1>4

\* The image and the memory of the video core are aligned to pages.
LEMMA Starts ==
  ASSUME NEW a \in ImageEnds \cup VcStarts
  PROVE  a \in Nat /\ a % PAGE_SIZE = 0 /\ a < MMIO_BASE
BY BootAssumption

---------------------------------------------------------------------------
(* The invariant of the boot memory. *)

\* While the pages are in use, before the data heap is.
Early == {"early", "memmap", "root", "blocks"}

BTypes ==
  /\ step \in Early \cup {"pages", "areas", "buddies", "low", "high", "done", "panic"}
  /\ vc \in Nat /\ image \in Nat /\ early_page_curr \in Nat /\ mm_data_top \in Nat
  /\ areas \in Nat /\ page \in Nat /\ handed \subseteq Nat \X Nat
  /\ step = "early" => handed = {}
  /\ step # "early" => vc \in VcStarts /\ image \in ImageEnds

\* What was handed out lies below the top of the allocator in use.
Heaped ==
  /\ \A g \in handed : g[1] + g[2] <= IF step \in Early THEN early_page_curr ELSE mm_data_top
  /\ step # "early" => early_page_curr <= page_end /\ page_end <= mm_data_top
  /\ step \in Early \ {"early"} => mm_data_top = page_end
  /\ \A g, h \in handed : g = h \/ g[1] + g[2] <= h[1] \/ h[1] + h[2] <= g[1]

MapOf(v) == << [start |-> 0, size |-> v, attr |-> "normal"],
               [start |-> v, size |-> MMIO_BASE - v, attr |-> "uncached"],
               [start |-> MMIO_BASE, size |-> MemTop - MMIO_BASE, attr |-> "device"],
               [start |-> QA7_BASE, size |-> QA7_SIZE, attr |-> "device"] >>

MapMade == step \notin {"early", "memmap"} => map = MapOf(vc)

VcPage == vc \div PAGE_SIZE

\* The pages taken so far: those up to the heap's top, then the video core's.
Taken ==
  /\ step \in Early \cup {"pages", "areas", "buddies"} => reserved = {} /\ page = 0
  /\ step \in {"low", "high", "done", "panic"} => areas * MM_AREA_SIZE = ALIGN_UP(vc, MM_AREA_SIZE)
  /\ step = "low" => reserved = 0 .. page - 1 /\ page <= LowPages
  /\ step = "high" => /\ VcPage <= page
                      /\ reserved = (0 .. LowPages - 1) \cup (VcPage .. page - 1)
  /\ step = "panic" => mm_data_top > vc \/ vc % MaxBlock # 0
  /\ step = "done" => \A p \in Free : LowPages <= p /\ p < VcPage

BootInv == BTypes /\ Heaped /\ MapMade /\ Taken

\* A part of memory that begins at the top or above it is handed out.
LEMMA HandOut ==
  ASSUME NEW H \in SUBSET (Nat \X Nat), NEW top \in Nat, NEW from \in Nat, NEW size \in Nat,
         \A g \in H : g[1] + g[2] <= top, top <= from,
         \A g, h \in H : g = h \/ g[1] + g[2] <= h[1] \/ h[1] + h[2] <= g[1],
         NEW I, I = H \cup {<<from, size>>}
  PROVE  /\ I \subseteq Nat \X Nat
         /\ \A g \in I : g[1] + g[2] <= from + size
         /\ \A g, h \in I : g = h \/ g[1] + g[2] <= h[1] \/ h[1] + h[2] <= g[1]
<1>1. \A g \in H : g[1] \in Nat /\ g[2] \in Nat /\ g[1] + g[2] <= from
  OBVIOUS
<1>2. \A g \in I : g \in H \/ g = <<from, size>>
  OBVIOUS
<1>3. I \subseteq Nat \X Nat
  OBVIOUS
<1>4. \A g \in I : g[1] + g[2] <= from + size
  BY <1>1, <1>2
<1>5. ASSUME NEW g \in I, NEW h \in I
      PROVE  g = h \/ g[1] + g[2] <= h[1] \/ h[1] + h[2] <= g[1]
  BY <1>1, <1>2
<1> QED BY <1>3, <1>4, <1>5

LEMMA BootInit == BInit => BootInv
<1> SUFFICES ASSUME BInit PROVE BootInv
  OBVIOUS
<1>1. BTypes /\ Heaped /\ MapMade
  BY DEF BInit, BTypes, Heaped, MapMade, Early
<1>2. Taken
  BY DEF BInit, Taken, Early
<1> QED BY <1>1, <1>2 DEF BootInv

\* The end of the early pages is a number, and the pages begin with the image's end.
LEMMA PageEnd ==
  ASSUME image \in Nat
  PROVE  page_end \in Nat /\ image <= page_end
<1>1. EarlyPages * PAGE_SIZE \in Nat
  BY ONLY Sizes
<1> QED BY <1>1 DEF page_end

\* mm_earlypage_alloc of pages, in one of the steps before the tables are done.
LEMMA PageHanded ==
  ASSUME BTypes, Heaped, step \in Early \ {"early"}, step' \in Early \ {"early"},
         NEW n \in Nat, EarlyPage(n), UNCHANGED <<vc, image, mm_data_top, areas, page>>
  PROVE  BTypes' /\ Heaped'
<1>1. PICK m \in Nat : m = n * PAGE_SIZE
  BY ONLY Sizes, n \in Nat
<1>2. /\ early_page_curr \in Nat /\ handed \in SUBSET (Nat \X Nat) /\ page_end \in Nat
      /\ early_page_curr + m <= page_end /\ early_page_curr' = early_page_curr + m
      /\ handed' = handed \cup {<<early_page_curr, m>>}
      /\ \A g \in handed : g[1] + g[2] <= early_page_curr
      /\ \A g, h \in handed : g = h \/ g[1] + g[2] <= h[1] \/ h[1] + h[2] <= g[1]
      /\ early_page_curr <= early_page_curr /\ mm_data_top = page_end /\ page_end' = page_end
  BY <1>1, PageEnd DEF BTypes, Heaped, EarlyPage, Early, page_end
<1>3. /\ handed' \subseteq Nat \X Nat
      /\ \A g \in handed' : g[1] + g[2] <= early_page_curr'
      /\ \A g, h \in handed' : g = h \/ g[1] + g[2] <= h[1] \/ h[1] + h[2] <= g[1]
  BY ONLY <1>1, <1>2, HandOut
<1>4. BTypes'
  BY <1>1, <1>2, <1>3 DEF BTypes, Early
<1>5. Heaped'
  BY <1>2, <1>3 DEF Heaped
<1> QED BY <1>4, <1>5

\* early_data_alloc from the next page on.
LEMMA DataHanded ==
  ASSUME BTypes, Heaped, step \in {"pages", "areas", "buddies"},
         step' \in {"areas", "buddies", "low"},
         NEW size \in Nat, DataAlloc(ALIGN_UP(mm_data_top, PAGE_SIZE), size),
         UNCHANGED <<vc, image, early_page_curr, page>>, areas' \in Nat
  PROVE  BTypes' /\ Heaped'
<1>1. PICK from \in Nat : from = ALIGN_UP(mm_data_top, PAGE_SIZE) /\ mm_data_top <= from
  BY Sizes, Aligned DEF BTypes
<1>2. /\ mm_data_top' \in Nat /\ from + size <= mm_data_top'
      /\ handed' = handed \cup {<<from, size>>}
  <2>1. from + size \in Nat /\ Word \in Nat /\ Word > 0
    BY Sizes
  <2>2. ALIGN_UP(from + size, Word) \in Nat /\ from + size <= ALIGN_UP(from + size, Word)
    BY <2>1, Aligned
  <2> QED BY <1>1, <2>2 DEF DataAlloc
<1>3. /\ mm_data_top \in Nat /\ handed \in SUBSET (Nat \X Nat) /\ page_end \in Nat
      /\ \A g \in handed : g[1] + g[2] <= mm_data_top
      /\ \A g, h \in handed : g = h \/ g[1] + g[2] <= h[1] \/ h[1] + h[2] <= g[1]
      /\ early_page_curr <= page_end /\ page_end <= mm_data_top /\ page_end' = page_end
      /\ early_page_curr \in Nat
  BY PageEnd DEF BTypes, Heaped, Early, page_end
<1>4. /\ handed' \subseteq Nat \X Nat
      /\ \A g \in handed' : g[1] + g[2] <= from + size
      /\ \A g, h \in handed' : g = h \/ g[1] + g[2] <= h[1] \/ h[1] + h[2] <= g[1]
  BY ONLY <1>1, <1>2, <1>3, HandOut, size \in Nat
<1>5. \A g \in handed' : g[1] + g[2] <= mm_data_top'
  <2> SUFFICES ASSUME NEW g \in handed' PROVE g[1] + g[2] <= mm_data_top'
    OBVIOUS
  <2>1. g[1] + g[2] <= from + size /\ g[1] \in Nat /\ g[2] \in Nat
    BY <1>4
  <2> QED BY <1>1, <1>2, <2>1
<1>6. BTypes'
  BY <1>1, <1>2, <1>3, <1>4 DEF BTypes, Early
<1>7. Heaped'
  BY <1>1, <1>2, <1>3, <1>4, <1>5 DEF Heaped, Early
<1> QED BY <1>6, <1>7

\* The steps that hand out no memory.
LEMMA NoneHanded ==
  ASSUME BTypes, Heaped, step # "early", step' # "early",
         step' \in Early => step \in Early, step' \notin Early /\ step \in Early => step = "blocks",
         step' \in Early \cup {"pages", "areas", "buddies", "low", "high", "done", "panic"},
         UNCHANGED <<vc, image, early_page_curr, mm_data_top, handed, areas>>, page' \in Nat
  PROVE  BTypes' /\ Heaped'
<1>1. page_end' = page_end /\ page_end \in Nat
  BY PageEnd DEF page_end, BTypes
<1>2. BTypes'
  BY DEF BTypes
<1>3. ASSUME NEW g \in handed'
      PROVE  g[1] + g[2] <= (IF step' \in Early THEN early_page_curr ELSE mm_data_top)
  <2>1. g[1] \in Nat /\ g[2] \in Nat /\ early_page_curr \in Nat /\ mm_data_top \in Nat
    BY DEF BTypes
  <2>2. g[1] + g[2] <= (IF step \in Early THEN early_page_curr ELSE mm_data_top)
    BY DEF Heaped
  <2>3. early_page_curr <= mm_data_top
    BY <1>1, <2>1 DEF Heaped
  <2> QED BY <2>1, <2>2, <2>3
<1>4. step' \in Early \ {"early"} => mm_data_top' = page_end'
  BY <1>1 DEF Heaped
<1> QED BY <1>1, <1>2, <1>3, <1>4 DEF Heaped

---------------------------------------------------------------------------
(* What mm_init reserves. *)

\* The addresses that the reserving loops compare, in pages.
LEMMA PoolFacts ==
  ASSUME BTypes, MapMade, step \in {"low", "high"},
         areas * MM_AREA_SIZE = ALIGN_UP(vc, MM_AREA_SIZE),
         NEW n, n = (areas * MM_AREA_SIZE) \div PAGE_SIZE
  PROVE  /\ VcPage \in Nat /\ vc = VcPage * PAGE_SIZE
         /\ n \in Nat /\ areas * MM_AREA_SIZE = n * PAGE_SIZE /\ VcPage <= n
         /\ LowPages \in Nat /\ mm_data_top <= LowPages * PAGE_SIZE
         /\ \A p \in Nat : p < LowPages => p * PAGE_SIZE < mm_data_top
         /\ device_mem_start = vc /\ last_area + MM_AREA_SIZE = areas * MM_AREA_SIZE
         /\ last_area \in Int /\ last_area < vc
<1>1. /\ vc \in Nat /\ vc % PAGE_SIZE = 0 /\ mm_data_top \in Nat /\ areas \in Nat
  BY Starts DEF BTypes, Early
<1>2. VcPage \in Nat /\ vc = VcPage * PAGE_SIZE
  BY <1>1, Sizes, Divided DEF VcPage
<1> DEFINE top == areas * MM_AREA_SIZE
<1>3. /\ top \in Nat /\ top % MM_AREA_SIZE = 0 /\ vc <= top /\ top < vc + MM_AREA_SIZE
  BY <1>1, Sizes, Aligned
<1>4. last_area + MM_AREA_SIZE = top
  <2>1. (areas - 1) * MM_AREA_SIZE + MM_AREA_SIZE = areas * MM_AREA_SIZE
    BY ONLY <1>1, Sizes
  <2> QED BY <2>1 DEF last_area
<1> HIDE DEF top
<1>5. top % PAGE_SIZE = 0
  BY ONLY <1>3, Sizes, Coarser
<1>6. n \in Nat /\ top = n * PAGE_SIZE
  <2>1. n = top \div PAGE_SIZE
    BY DEF top
  <2> QED BY ONLY <1>3, <1>5, <2>1, Sizes, Divided
<1>7. VcPage <= n
  BY ONLY <1>2, <1>3, <1>6, Sizes, Ordered
<1>8. PICK x \in Nat : /\ x = ALIGN_UP(mm_data_top, PAGE_SIZE) /\ x % PAGE_SIZE = 0
                       /\ mm_data_top <= x /\ x < mm_data_top + PAGE_SIZE
  BY <1>1, Sizes, Aligned
<1>9. LowPages \in Nat /\ x = LowPages * PAGE_SIZE
  <2>1. LowPages = x \div PAGE_SIZE
    BY <1>8 DEF LowPages
  <2> QED BY ONLY <1>8, <2>1, Sizes, Divided
<1>10. ASSUME NEW p \in Nat, p < LowPages PROVE p * PAGE_SIZE < mm_data_top
  <2>1. /\ (p + 1) * PAGE_SIZE <= LowPages * PAGE_SIZE
        /\ (p + 1) * PAGE_SIZE = p * PAGE_SIZE + PAGE_SIZE /\ p * PAGE_SIZE \in Nat
    BY ONLY <1>9, <1>10, Sizes, Ordered
  <2> QED BY ONLY <1>1, <1>8, <1>9, <2>1, Sizes
<1>11. device_mem_start = vc
  BY DEF device_mem_start, MapMade, MapOf
<1>12. last_area \in Int /\ last_area < vc
  <2>1. last_area \in Int
    BY <1>1, Sizes DEF last_area
  <2>2. last_area < vc
    BY ONLY <1>1, <1>3, <1>4, <2>1, Sizes
  <2> QED BY <2>1, <2>2
<1> QED BY <1>1, <1>2, <1>4, <1>6, <1>7, <1>8, <1>9, <1>10, <1>11, <1>12 DEF top

\* mm_reserve_early_mem from the first page on: a page is not taken, but panics
\* if it is outside of the memory, which the heap then is as well.
LEMMA LowTaken ==
  ASSUME BootInv, ReserveLow
  PROVE  Taken'
<1> DEFINE n == (areas * MM_AREA_SIZE) \div PAGE_SIZE
<1>1. /\ step = "low" /\ page < LowPages /\ Reserve
      /\ UNCHANGED <<vc, mm_data_top, areas, map>>
      /\ BTypes /\ MapMade /\ page \in Nat /\ mm_data_top \in Nat /\ vc \in Nat
      /\ areas * MM_AREA_SIZE = ALIGN_UP(vc, MM_AREA_SIZE) /\ reserved = 0 .. page - 1
  BY DEF ReserveLow, BootInv, BTypes, Taken, layout
<1>2. /\ VcPage \in Nat /\ vc = VcPage * PAGE_SIZE
      /\ n \in Nat /\ areas * MM_AREA_SIZE = n * PAGE_SIZE /\ VcPage <= n
      /\ LowPages \in Nat /\ page * PAGE_SIZE < mm_data_top
  BY <1>1, PoolFacts
<1>3. LowPages' = LowPages
  BY <1>1 DEF LowPages
<1> HIDE DEF n
<1>4. page \notin reserved /\ Found
  <2>1. CASE page = 0
    <3>1. page * PAGE_SIZE = 0 /\ 0 % MaxBlock = 0
      BY <2>1, Sizes
    <3> QED BY <1>1, <2>1, <3>1 DEF Found
  <2>2. CASE page # 0
    <3>1. page - 1 \in reserved
      BY <1>1, <2>2
    <3> QED BY <1>1, <3>1 DEF Found
  <2> QED BY <2>1, <2>2
<1>5. CASE page * PAGE_SIZE >= areas * MM_AREA_SIZE
  <2>1. step' = "panic"
    BY <1>1, <1>5 DEF Reserve
  <2>2. n <= page
    BY ONLY <1>1, <1>2, <1>5, Sizes, Ordered
  <2>3. vc <= page * PAGE_SIZE /\ page * PAGE_SIZE \in Nat
    BY ONLY <1>1, <1>2, <2>2, Sizes, Ordered
  <2>4. mm_data_top' > vc'
    BY <1>1, <1>2, <2>3
  <2> QED BY <1>1, <2>1, <2>4 DEF Taken, Early
<1>6. CASE ~(page * PAGE_SIZE >= areas * MM_AREA_SIZE)
  <2>1. step' = step /\ reserved' = reserved \cup {page} /\ page' = page + 1
    BY <1>1, <1>4, <1>6 DEF Reserve
  <2>2. reserved' = 0 .. page' - 1 /\ page' <= LowPages'
    BY <1>1, <1>2, <1>3, <2>1
  <2> QED BY <1>1, <2>1, <2>2 DEF Taken, Early
<1> QED BY <1>5, <1>6

\* The loop over the low pages ends; it goes on with those of the video core.
LEMMA LowLeft ==
  ASSUME BootInv, LowDone
  PROVE  Taken'
<1> DEFINE n == (areas * MM_AREA_SIZE) \div PAGE_SIZE
<1>1. /\ step = "low" /\ page >= LowPages /\ page <= LowPages
      /\ IF device_mem_start >= last_area /\ device_mem_start < last_area + MM_AREA_SIZE
              THEN step' = "high" /\ page' = device_mem_start \div PAGE_SIZE
              ELSE step' = "done" /\ page' = page
      /\ UNCHANGED <<vc, mm_data_top, areas, map, reserved>>
      /\ BTypes /\ MapMade /\ page \in Nat /\ mm_data_top \in Nat /\ vc \in Nat
      /\ areas * MM_AREA_SIZE = ALIGN_UP(vc, MM_AREA_SIZE) /\ reserved = 0 .. page - 1
  BY DEF LowDone, BootInv, BTypes, Taken, layout
<1>2. /\ VcPage \in Nat /\ vc = VcPage * PAGE_SIZE
      /\ n \in Nat /\ areas * MM_AREA_SIZE = n * PAGE_SIZE /\ VcPage <= n
      /\ LowPages \in Nat /\ device_mem_start = vc
      /\ last_area + MM_AREA_SIZE = areas * MM_AREA_SIZE
      /\ last_area \in Int /\ last_area < vc
  BY <1>1, PoolFacts
<1>3. page = LowPages
  BY <1>1, <1>2
<1>4. LowPages' = LowPages /\ VcPage' = VcPage
  BY <1>1 DEF LowPages, VcPage
<1>5. CASE vc < areas * MM_AREA_SIZE
  <2>1. step' = "high" /\ page' = VcPage
    BY <1>1, <1>2, <1>3, <1>5 DEF VcPage
  <2>2. reserved' = (0 .. LowPages' - 1) \cup (VcPage' .. page' - 1)
    <3>1. VcPage .. VcPage - 1 = {}
      BY <1>2
    <3> QED BY <1>1, <1>3, <1>4, <2>1, <3>1
  <2>3. VcPage' <= page'
    BY <1>2, <1>4, <2>1
  <2> QED BY <1>1, <2>1, <2>2, <2>3 DEF Taken, Early
<1>6. CASE ~(vc < areas * MM_AREA_SIZE)
  <2>1. step' = "done"
    BY <1>1, <1>2, <1>6
  <2>2. n = VcPage
    <3>1. n <= VcPage
      <4>1. n * PAGE_SIZE <= VcPage * PAGE_SIZE
        <5>1. n * PAGE_SIZE \in Nat
          BY ONLY <1>2, Sizes, Ordered
        <5> QED BY ONLY <1>1, <1>2, <1>6, <5>1
      <4> QED BY ONLY <1>2, <4>1, Sizes, Ordered
    <3> QED BY <1>2, <3>1
  <2>3. ASSUME NEW p \in Free' PROVE LowPages <= p /\ p < VcPage
    <3>1. p \in 0 .. n - 1 /\ p \notin reserved
      BY <1>1 DEF Free
    <3> QED BY <1>1, <1>2, <1>3, <2>2, <3>1
  <2> QED BY <1>1, <1>4, <2>1, <2>3 DEF Taken, Early
<1> QED BY <1>5, <1>6

\* The pages of the video core: one is taken already only if the heap reaches
\* it, and the block of the first is not found only if it begins inside a block
\* of the highest order.
LEMMA HighTaken ==
  ASSUME BootInv, ReserveHigh
  PROVE  Taken'
<1> DEFINE n == (areas * MM_AREA_SIZE) \div PAGE_SIZE
<1>1. /\ step = "high" /\ page < (last_area + MM_AREA_SIZE) \div PAGE_SIZE /\ Reserve
      /\ UNCHANGED <<vc, mm_data_top, areas, map>>
      /\ BTypes /\ MapMade /\ page \in Nat /\ mm_data_top \in Nat /\ vc \in Nat
      /\ areas * MM_AREA_SIZE = ALIGN_UP(vc, MM_AREA_SIZE)
      /\ VcPage <= page /\ reserved = (0 .. LowPages - 1) \cup (VcPage .. page - 1)
  BY DEF ReserveHigh, BootInv, BTypes, Taken, layout
<1>2. /\ VcPage \in Nat /\ vc = VcPage * PAGE_SIZE
      /\ n \in Nat /\ areas * MM_AREA_SIZE = n * PAGE_SIZE
      /\ LowPages \in Nat /\ \A p \in Nat : p < LowPages => p * PAGE_SIZE < mm_data_top
      /\ last_area + MM_AREA_SIZE = areas * MM_AREA_SIZE
  BY <1>1, PoolFacts
<1>3. LowPages' = LowPages /\ VcPage' = VcPage
  BY <1>1 DEF LowPages, VcPage
<1>4. page < n
  BY <1>1, <1>2
<1> HIDE DEF n
<1>5. ~(page * PAGE_SIZE >= areas * MM_AREA_SIZE)
  <2>1. page * PAGE_SIZE < n * PAGE_SIZE /\ page * PAGE_SIZE \in Nat
    BY ONLY <1>1, <1>2, <1>4, Sizes, Ordered
  <2>2. n * PAGE_SIZE \in Nat
    BY ONLY <1>2, Sizes, Ordered
  <2> QED BY ONLY <1>2, <2>1, <2>2
<1>6. CASE step' = "panic"
  <2>1. CASE page \in reserved
    <3>1. VcPage < LowPages
      BY <1>1, <1>2, <2>1
    <3>2. vc < mm_data_top
      BY <1>2, <3>1
    <3> QED BY <1>1, <1>6, <3>2 DEF Taken, Early
  <2>2. CASE ~Found
    <3>1. page = VcPage
      <4>1. CASE page > VcPage
        <5>1. page - 1 \in reserved
          BY <1>1, <1>2, <4>1
        <5> QED BY <2>2, <5>1 DEF Found
      <4> QED BY <1>1, <1>2, <4>1
    <3>2. vc % MaxBlock # 0
      BY <1>2, <2>2, <3>1 DEF Found
    <3> QED BY <1>1, <1>6, <3>2 DEF Taken, Early
  <2>3. step' # step
    BY <1>1, <1>6
  <2> QED BY <1>1, <1>5, <2>1, <2>2, <2>3 DEF Reserve
<1>7. CASE step' # "panic"
  <2>1. step' = step /\ reserved' = reserved \cup {page} /\ page' = page + 1
    BY <1>1, <1>7 DEF Reserve
  <2>2. reserved' = (0 .. LowPages' - 1) \cup (VcPage' .. page' - 1) /\ VcPage' <= page'
    BY <1>1, <1>2, <1>3, <2>1
  <2> QED BY <1>1, <2>1, <2>2 DEF Taken, Early
<1> QED BY <1>6, <1>7

LEMMA HighLeft ==
  ASSUME BootInv, HighDone
  PROVE  Taken'
<1> DEFINE n == (areas * MM_AREA_SIZE) \div PAGE_SIZE
<1>1. /\ step = "high" /\ page >= (last_area + MM_AREA_SIZE) \div PAGE_SIZE /\ step' = "done"
      /\ UNCHANGED <<vc, mm_data_top, areas, map, reserved>>
      /\ BTypes /\ MapMade /\ page \in Nat
      /\ areas * MM_AREA_SIZE = ALIGN_UP(vc, MM_AREA_SIZE)
      /\ VcPage <= page /\ reserved = (0 .. LowPages - 1) \cup (VcPage .. page - 1)
  BY DEF HighDone, BootInv, BTypes, Taken, layout, pool
<1>2. /\ VcPage \in Nat /\ n \in Nat /\ LowPages \in Nat
      /\ last_area + MM_AREA_SIZE = areas * MM_AREA_SIZE
  BY <1>1, PoolFacts
<1>3. LowPages' = LowPages /\ VcPage' = VcPage
  BY <1>1 DEF LowPages, VcPage
<1>4. page >= n
  BY <1>1, <1>2
<1>5. ASSUME NEW p \in Free' PROVE LowPages <= p /\ p < VcPage
  <2>1. p \in 0 .. n - 1 /\ p \notin reserved
    BY <1>1 DEF Free
  <2> HIDE DEF n
  <2> QED BY <1>1, <1>2, <1>4, <2>1
<1> QED BY <1>1, <1>3, <1>5 DEF Taken, Early

---------------------------------------------------------------------------
(* The invariant holds. *)

\* What mm_init counts of the memory that the map leaves it.
LEMMA Counts ==
  ASSUME BTypes, MapMade, step \in {"pages", "areas", "buddies"}
  PROVE  /\ mem_size = ALIGN_UP(vc, MM_AREA_SIZE)
         /\ num_pages \in Nat /\ area_num \in Nat /\ area_num * MM_AREA_SIZE = mem_size
<1>1. mem_size = ALIGN_UP(vc, MM_AREA_SIZE)
  BY DEF mem_size, MapMade, MapOf
<1>2. PICK m \in Nat : m = mem_size /\ m % MM_AREA_SIZE = 0
  BY <1>1, Sizes, Aligned DEF BTypes
<1>3. num_pages \in Nat
  <2>1. num_pages = m \div PAGE_SIZE
    BY <1>2 DEF num_pages
  <2> QED BY ONLY <2>1, <1>2, Sizes, Quotient
<1>4. area_num \in Nat /\ area_num * MM_AREA_SIZE = m
  <2>1. area_num = m \div MM_AREA_SIZE
    BY <1>2 DEF area_num
  <2> QED BY ONLY <1>2, <2>1, Sizes, Divided
<1> QED BY <1>1, <1>2, <1>3, <1>4

\* The map stays once it is made.
LEMMA MapStep ==
  ASSUME BTypes, MapMade, [BNext]_bvars
  PROVE  MapMade'
<1>1. CASE MmEarlyInit
  BY <1>1 DEF MmEarlyInit, MapMade
<1>2. CASE MemMap
  BY <1>2 DEF MemMap, MapMade, MapOf
<1>3. CASE UNCHANGED <<map, vc>> /\ (step' \notin {"early", "memmap"} => step \notin {"early", "memmap"})
  BY <1>3 DEF MapMade, MapOf
<1> QED BY <1>1, <1>2, <1>3
     DEF BNext, Root, MapBlock, NextRegion, EnableMmu, InitPages, InitAreas, InitBuddies,
         ReserveLow, LowDone, ReserveHigh, HighDone, bvars, layout, Reserve

\* The steps before mm_init reserves pages.
LEMMA SetupStep ==
  ASSUME BootInv, MmEarlyInit \/ MemMap \/ Root \/ MapBlock \/ NextRegion \/ EnableMmu
                  \/ InitPages \/ InitAreas
  PROVE  BTypes' /\ Heaped' /\ Taken'
<1>0. BTypes /\ Heaped /\ MapMade /\ Taken
  BY DEF BootInv
<1>1. Taken'
  <2>1. /\ step \in Early \cup {"pages", "areas", "buddies"}
        /\ step' \in Early \cup {"pages", "areas", "buddies"}
        /\ UNCHANGED <<reserved, page>>
    BY DEF MmEarlyInit, MemMap, Root, MapBlock, NextRegion, EnableMmu, InitPages, InitAreas,
           Early, pool, layout
  <2> QED BY <1>0, <2>1 DEF Taken, Early
<1>2. CASE MmEarlyInit
  <2>1. /\ vc' \in Nat /\ image' \in Nat /\ vc' \in VcStarts /\ image' \in ImageEnds
        /\ step = "early" /\ step' = "memmap" /\ UNCHANGED <<handed, areas, page>>
        /\ early_page_curr' = image' /\ mm_data_top' = page_end'
    BY <1>2, Starts DEF MmEarlyInit, layout, pool, page_start
  <2>2. /\ page_end' = image' + EarlyPages * PAGE_SIZE /\ EarlyPages * PAGE_SIZE \in Nat
    BY ONLY Sizes DEF page_end
  <2>3. page_end' \in Nat /\ image' <= page_end'
    BY ONLY <2>1, <2>2
  <2>4. BTypes'
    BY <1>0, <2>1, <2>3 DEF BTypes, Early
  <2>5. Heaped'
    <3> DEFINE end == page_end'
    <3>1. end \in Nat /\ image' <= end /\ mm_data_top' = end
      BY <2>1, <2>3
    <3>2. handed' = {} /\ step' = "memmap" /\ early_page_curr' = image'
      BY <1>0, <2>1 DEF BTypes
    <3> QED BY <3>1, <3>2 DEF Heaped, Early
  <2> QED BY <1>1, <2>4, <2>5
<1>3. CASE MemMap \/ Root \/ (MapBlock /\ \E n \in Nat : EarlyPage(n))
  <2>1. PICK n \in Nat : EarlyPage(n)
    BY <1>3 DEF MemMap, Root
  <2>2. /\ step \in Early \ {"early"} /\ step' \in Early \ {"early"}
        /\ UNCHANGED <<vc, image, mm_data_top, areas, page>>
    BY <1>3 DEF MemMap, Root, MapBlock, Early, pool
  <2>3. BTypes' /\ Heaped'
    BY <1>0, <2>1, <2>2, PageHanded
  <2> QED BY <1>1, <2>3
<1>4. CASE NextRegion \/ EnableMmu \/ (MapBlock /\ UNCHANGED <<early_page_curr, handed>>)
  <2>1. /\ step = "blocks" /\ step' \in {"blocks", "pages"}
        /\ UNCHANGED <<vc, image, early_page_curr, mm_data_top, handed, areas, page>>
    BY <1>4 DEF NextRegion, EnableMmu, MapBlock, pool
  <2>2. page' \in Nat
    BY <1>0, <2>1 DEF BTypes
  <2>3. BTypes' /\ Heaped'
    BY <1>0, <2>1, <2>2, NoneHanded DEF Early
  <2> QED BY <1>1, <2>3
<1>5. CASE InitPages \/ InitAreas
  <2>1. step \in {"pages", "areas"} /\ step' \in {"areas", "buddies"}
        /\ UNCHANGED <<vc, image, early_page_curr, page, areas>>
    BY <1>5 DEF InitPages, InitAreas, pool
  <2>2. num_pages \in Nat /\ area_num \in Nat
    BY <1>0, <2>1, Counts
  <2>3. PICK size \in Nat : DataAlloc(ALIGN_UP(mm_data_top, PAGE_SIZE), size)
    <3>1. AreaStruct * area_num \in Nat
      BY ONLY <2>2, Sizes
    <3>2. PICK m \in Nat : m = num_pages * PageStruct
      BY ONLY <2>2, Sizes
    <3>3. (m \div PAGE_SIZE) * PAGE_SIZE \in Nat
      BY ONLY <3>2, Sizes
    <3> QED BY <1>5, <3>1, <3>2, <3>3 DEF InitPages, InitAreas
  <2>4. areas' \in Nat
    BY <1>0, <2>1 DEF BTypes
  <2>5. BTypes' /\ Heaped'
    BY <1>0, <2>1, <2>3, <2>4, DataHanded
  <2> QED BY <1>1, <2>5
<1>6. MapBlock => (\E n \in Nat : EarlyPage(n)) \/ UNCHANGED <<early_page_curr, handed>>
  BY DEF MapBlock
<1> QED BY <1>1, <1>2, <1>3, <1>4, <1>5, <1>6

\* The last of mm_init's allocations: all memory is free.
LEMMA BuddiesStep ==
  ASSUME BootInv, InitBuddies
  PROVE  BTypes' /\ Heaped' /\ Taken'
<1>0. BTypes /\ Heaped /\ MapMade /\ Taken
  BY DEF BootInv
<1>1. /\ step = "buddies" /\ step' = "low" /\ areas' = area_num
      /\ UNCHANGED <<vc, image, early_page_curr, page, reserved>>
      /\ DataAlloc(ALIGN_UP(mm_data_top, PAGE_SIZE), (num_pages \div 2) * BuddyStruct)
  BY DEF InitBuddies
<1>2. /\ mem_size = ALIGN_UP(vc, MM_AREA_SIZE)
      /\ num_pages \in Nat /\ area_num \in Nat /\ area_num * MM_AREA_SIZE = mem_size
  BY <1>0, <1>1, Counts
<1>3. PICK size \in Nat : size = (num_pages \div 2) * BuddyStruct
  <2>1. num_pages \div 2 \in Nat
    BY <1>2
  <2> QED BY ONLY <2>1, Sizes
<1>4. BTypes' /\ Heaped'
  BY <1>0, <1>1, <1>2, <1>3, DataHanded
<1>5. LowPages' \in Nat
  <2>1. PICK x \in Nat : x = ALIGN_UP(mm_data_top', PAGE_SIZE)
    BY <1>4, Sizes, Aligned DEF BTypes
  <2>2. LowPages' = x \div PAGE_SIZE
    BY <2>1 DEF LowPages
  <2> QED BY ONLY <2>1, <2>2, Sizes, Quotient
<1>6. reserved' = 0 .. page' - 1 /\ page' <= LowPages'
  <2>1. reserved = {} /\ page = 0
    BY <1>0, <1>1 DEF Taken
  <2> QED BY <1>1, <1>5, <2>1
<1>7. Taken'
  BY <1>1, <1>2, <1>6 DEF Taken, Early
<1> QED BY <1>4, <1>7

\* The steps of mm_reserve_early_mem take pages, and hand out no early memory.
LEMMA ReserveStep ==
  ASSUME BootInv, ReserveLow \/ LowDone \/ ReserveHigh \/ HighDone
  PROVE  BTypes' /\ Heaped' /\ Taken'
<1>0. BTypes /\ Heaped /\ MapMade /\ Taken
  BY DEF BootInv
<1>1. /\ step \in {"low", "high"} /\ step' \in {"low", "high", "done", "panic"}
      /\ UNCHANGED <<vc, image, early_page_curr, mm_data_top, handed, areas>>
  BY DEF ReserveLow, LowDone, ReserveHigh, HighDone, Reserve, pool
<1>2. page' \in Nat
  <2>1. CASE LowDone
    <3>1. device_mem_start \div PAGE_SIZE \in Nat
      <4>1. device_mem_start \in Nat
        BY <1>0, <1>1 DEF device_mem_start, MapMade, MapOf, BTypes
      <4> QED BY <4>1, Sizes
    <3> QED BY <1>0, <2>1, <3>1 DEF LowDone, BTypes
  <2>2. CASE ~LowDone
    BY <1>0, <2>2 DEF ReserveLow, ReserveHigh, HighDone, Reserve, BTypes, pool
  <2> QED BY <2>1, <2>2
<1>3. BTypes' /\ Heaped'
  BY <1>0, <1>1, <1>2, NoneHanded DEF Early
<1> QED BY <1>3, LowTaken, LowLeft, HighTaken, HighLeft

LEMMA BootInvariance == BSpec => []BootInv
<1>1. BInit => BootInv
  BY BootInit
<1>2. ASSUME BootInv, [BNext]_bvars PROVE BootInv'
  <2>1. MapMade'
    BY <1>2, MapStep DEF BootInv
  <2>2. BTypes' /\ Heaped' /\ Taken'
    <3>1. CASE BNext
      BY <1>2, <3>1, SetupStep, BuddiesStep, ReserveStep DEF BNext
    <3>2. CASE UNCHANGED bvars
      BY <1>2, <3>2 DEF bvars, BootInv, BTypes, Heaped, Taken, page_end, LowPages, VcPage, Free
    <3> QED BY <1>2, <3>1, <3>2
  <2> QED BY <2>1, <2>2 DEF BootInv
<1> QED BY <1>1, <1>2, PTL DEF BSpec

\* The early heap has no end of its own; this is the one it needs.
HeapFits == mm_data_top <= vc

\* If the data heap ends below the video core's memory, the allocator gives out
\* no page that anything else uses, and its own structures, the early pages and
\* the tables never overlap (mm_early_init, mm_init, mm_reserve_early_mem).
THEOREM BootSafe == BSpec => [](HeapFits => FreeIsUnused)
<1>1. ASSUME BootInv, HeapFits PROVE FreeIsUnused
  <2>0. BTypes /\ Heaped /\ MapMade /\ Taken
    BY <1>1 DEF BootInv
  <2>1. step = "panic" => vc % MaxBlock # 0
    BY <1>1, <2>0 DEF Taken, HeapFits, BTypes
  <2>2. ASSUME step = "done", NEW p \in Free
        PROVE  /\ (p + 1) * PAGE_SIZE <= vc
               /\ p * PAGE_SIZE >= page_end
               /\ \A g \in handed : p * PAGE_SIZE >= g[1] + g[2]
    <3>1. p \in Nat /\ LowPages <= p /\ p < VcPage
      BY <2>0, <2>2 DEF Taken, Free
    <3>2. vc \in Nat /\ vc % PAGE_SIZE = 0 /\ mm_data_top \in Nat /\ page_end \in Nat
      BY <2>0, <2>2, Starts, PageEnd DEF BTypes, Early
    <3>3. vc = VcPage * PAGE_SIZE /\ VcPage \in Nat
      BY <3>2, Sizes, Divided DEF VcPage
    <3>4. (p + 1) * PAGE_SIZE <= vc
      BY ONLY <3>1, <3>3, Sizes, Ordered
    <3>5. mm_data_top <= p * PAGE_SIZE /\ p * PAGE_SIZE \in Nat
      <4>1. PICK x \in Nat : /\ x = ALIGN_UP(mm_data_top, PAGE_SIZE) /\ x % PAGE_SIZE = 0
                             /\ mm_data_top <= x
        BY <3>2, Sizes, Aligned
      <4>2. LowPages \in Nat /\ x = LowPages * PAGE_SIZE
        <5>1. LowPages = x \div PAGE_SIZE
          BY <4>1 DEF LowPages
        <5> QED BY ONLY <4>1, <5>1, Sizes, Divided
      <4>3. x <= p * PAGE_SIZE /\ p * PAGE_SIZE \in Nat
        BY ONLY <3>1, <4>2, Sizes, Ordered
      <4> QED BY <3>2, <4>1, <4>3
    <3>6. page_end <= mm_data_top /\ \A g \in handed : g[1] + g[2] <= mm_data_top
      BY <2>0, <2>2 DEF Heaped, Early
    <3>7. ASSUME NEW g \in handed PROVE p * PAGE_SIZE >= g[1] + g[2]
      <4>1. g[1] \in Nat /\ g[2] \in Nat
        BY <2>0 DEF BTypes
      <4> QED BY <3>2, <3>5, <3>6, <4>1
    <3>8. p * PAGE_SIZE >= page_end
      BY <3>2, <3>5, <3>6
    <3> QED BY <3>4, <3>7, <3>8
  <2>3. \A g, h \in handed : g = h \/ g[1] + g[2] <= h[1] \/ h[1] + h[2] <= g[1]
    BY <2>0 DEF Heaped
  <2> QED BY <2>1, <2>2, <2>3 DEF FreeIsUnused
<1>2. BootInv => (HeapFits => FreeIsUnused)
  BY <1>1
<1> QED BY <1>2, BootInvariance, PTL

---------------------------------------------------------------------------
(* The invariant of the tables. *)

Blocks == 0 .. ENTRIES * ENTRIES - 1
Attrs  == {"normal", "uncached", "device"}

\* What the tables say of a block.
Entry(b) == IF l0[L0_ENTRY(b)] = NoTable THEN NoBlock ELSE l1[l0[L0_ENTRY(b)]][L1_ENTRY(b)]

\* The loop over a region reaches the block; it has.
Reached(i, b) == FirstBlock(i) <= b /\ InRegion(i, b)
Done(i, b)    == Reached(i, b) /\ (i < at[1] \/ (i = at[1] /\ b < at[2]))

Built == step = "blocks" \/ Mapped

\* Each second level is a page of its own, handed out before.
Tables ==
  Built =>
    /\ l0 \in [0 .. ENTRIES - 1 -> {NoTable} \cup DOMAIN l1]
    /\ l1 \in [DOMAIN l1 -> [0 .. ENTRIES - 1 -> Attrs \cup {NoBlock}]]
    /\ \A t \in DOMAIN l1 : t \in Nat /\ 0 < t /\ t < early_page_curr
    /\ \A j, k \in 0 .. ENTRIES - 1 : l0[j] = l0[k] => j = k \/ l0[j] = NoTable
    /\ 0 < early_page_curr

\* Where the loops are.
Loops ==
  /\ step \in {"early", "memmap", "root"} => at = <<1, 0>>
  /\ Built => at \in (1 .. 5) \X Nat
  /\ Built => (at[1] \in Regions => FirstBlock(at[1]) <= at[2])
  /\ Mapped => at[1] = 5

\* A block has the attribute of the first of the regions whose loop has reached it.
Filled ==
  Built => \A b \in Blocks :
             /\ (\A i \in Regions : ~Done(i, b)) => Entry(b) = NoBlock
             /\ \A i \in Regions : Done(i, b) /\ (\A j \in 1 .. i - 1 : ~Done(j, b)) => Entry(b) = map[i].attr

TablesInv == Tables /\ Loops /\ Filled

\* The root and a second level have an entry for each part of a block's number.
LEMMA BlockPlace ==
  ASSUME NEW b \in Blocks
  PROVE  L0_ENTRY(b) \in 0 .. ENTRIES - 1 /\ L1_ENTRY(b) \in 0 .. ENTRIES - 1
<1>1. b \in Nat /\ ENTRIES \in Nat /\ ENTRIES > 0 /\ b < ENTRIES * ENTRIES
  <2>1. ENTRIES * ENTRIES \in Int
    BY ONLY Sizes
  <2> QED BY Sizes, <2>1 DEF Blocks
<1>2. b \div ENTRIES \in Nat /\ b \div ENTRIES < ENTRIES
  BY ONLY <1>1, Quotient, Bounded
<1>3. b % ENTRIES \in 0 .. ENTRIES - 1
  BY ONLY <1>1
<1> QED BY <1>1, <1>2, <1>3 DEF L0_ENTRY, L1_ENTRY

\* These two numbers are a block's own.
LEMMA BlockSame ==
  ASSUME NEW b \in Blocks, NEW c \in Blocks, L0_ENTRY(b) = L0_ENTRY(c), L1_ENTRY(b) = L1_ENTRY(c)
  PROVE  b = c
<1>1. b \in Nat /\ c \in Nat /\ ENTRIES \in Nat /\ ENTRIES > 0
  BY Sizes DEF Blocks
<1>2. /\ b = (b \div ENTRIES) * ENTRIES + (b % ENTRIES)
      /\ c = (c \div ENTRIES) * ENTRIES + (c % ENTRIES)
  BY ONLY <1>1
<1>3. b \div ENTRIES = c \div ENTRIES /\ b % ENTRIES = c % ENTRIES
  BY DEF L0_ENTRY, L1_ENTRY
<1> QED BY ONLY <1>2, <1>3

\* The regions of the map follow each other, up to what the tables can hold.
LEMMA RegionFacts ==
  ASSUME BTypes, MapMade, step \notin {"early", "memmap"}, NEW i \in Regions
  PROVE  /\ map[i].start \in Nat /\ map[i].size \in Nat /\ map[i].attr \in Attrs
         /\ map[i].start + map[i].size < ENTRIES * ENTRIES * BLOCK
         /\ \A j \in 1 .. i - 1 : map[j].start + map[j].size <= map[i].start
         /\ map[1].start = 0 /\ map[1].attr = "normal"
<1>1. /\ vc \in Nat /\ vc < MMIO_BASE
  BY Starts DEF BTypes
<1>2. /\ MMIO_BASE \in Nat /\ MemTop \in Nat /\ QA7_BASE \in Nat /\ QA7_SIZE \in Nat
      /\ MMIO_BASE < MemTop /\ MemTop <= QA7_BASE
      /\ QA7_BASE + QA7_SIZE < ENTRIES * ENTRIES * BLOCK
  BY BootAssumption
<1>3. map = MapOf(vc)
  BY DEF MapMade
<1>4. PICK top \in Nat : top = ENTRIES * ENTRIES * BLOCK
  BY ONLY Sizes
<1>5. i = 1 \/ i = 2 \/ i = 3 \/ i = 4
  BY DEF Regions
<1> QED BY ONLY <1>1, <1>2, <1>3, <1>4, <1>5 DEF MapOf, Attrs

\* The loop over a region ends before the tables do, and leaves out no block
\* before the last that it maps.
LEMMA LoopFacts ==
  ASSUME BTypes, MapMade, step \notin {"early", "memmap"}, NEW i \in Regions,
         NEW b \in Nat, InRegion(i, b)
  PROVE  b \in Blocks /\ \A c \in Nat : c <= b => InRegion(i, c)
<1>1. PICK end \in Nat : end = map[i].start + map[i].size /\ end < ENTRIES * ENTRIES * BLOCK
  BY RegionFacts
<1>2. PICK n \in Nat : n = ENTRIES * ENTRIES
  BY ONLY Sizes
<1>3. BLOCK \in Nat /\ BLOCK > 0
  BY Sizes
<1>4. PICK last \in Nat : last = end \div BLOCK /\ last < n
  BY ONLY <1>1, <1>2, <1>3, Quotient, Bounded
<1>5. \A c : InRegion(i, c) <=> c <= last
  BY <1>1, <1>4 DEF InRegion, mem_end
<1> QED BY <1>2, <1>4, <1>5 DEF Blocks

\* What low_map_entry writes: one entry of one second level, which is a new
\* page if the root has none.
LEMMA EntryWritten ==
  ASSUME BTypes, MapMade, Tables, Loops, MapBlock
  PROVE  /\ Tables'
         /\ \A b \in Blocks : Entry(b)' = IF b = at[2] THEN NewEntry(Entry(b), map[at[1]].attr)
                                          ELSE Entry(b)
<1> DEFINE k0 == L0_ENTRY(at[2])
           k1 == L1_ENTRY(at[2])
           attr == map[at[1]].attr
           table == IF l0[k0] = NoTable THEN early_page_curr ELSE l0[k0]
           old == IF table \in DOMAIN l1 THEN l1[table] ELSE Empty(NoBlock)
           value == NewEntry(old[k1], attr)
<1>1. /\ step = "blocks" /\ step' = "blocks" /\ at[1] \in Regions /\ InRegion(at[1], at[2])
      /\ IF table \in DOMAIN l1 THEN UNCHANGED <<early_page_curr, handed>> ELSE EarlyPage(1)
      /\ l0' = [l0 EXCEPT ![k0] = table]
      /\ l1' = [t \in DOMAIN l1 \cup {table} |->
                  IF t = table THEN [old EXCEPT ![k1] = value] ELSE l1[t]]
  BY DEF MapBlock
<1>2. at[2] \in Blocks /\ attr \in Attrs
  BY <1>1, LoopFacts, RegionFacts DEF Loops, Built
<1>3. k0 \in 0 .. ENTRIES - 1 /\ k1 \in 0 .. ENTRIES - 1
  BY <1>2, BlockPlace
<1>4. /\ l0 \in [0 .. ENTRIES - 1 -> {NoTable} \cup DOMAIN l1]
      /\ l1 \in [DOMAIN l1 -> [0 .. ENTRIES - 1 -> Attrs \cup {NoBlock}]]
      /\ \A t \in DOMAIN l1 : t \in Nat /\ 0 < t /\ t < early_page_curr
      /\ \A j, k \in 0 .. ENTRIES - 1 : l0[j] = l0[k] => j = k \/ l0[j] = NoTable
      /\ 0 < early_page_curr /\ early_page_curr \in Nat
  BY <1>1 DEF Tables, Built, BTypes
<1>5. /\ table # NoTable /\ table \in Nat /\ 0 < table
      /\ l0[k0] # NoTable => table = l0[k0] /\ table \in DOMAIN l1
      /\ l0[k0] = NoTable => table = early_page_curr /\ table \notin DOMAIN l1
  BY <1>3, <1>4 DEF NoTable
<1>6. old \in [0 .. ENTRIES - 1 -> Attrs \cup {NoBlock}]
  BY <1>4, <1>5 DEF Empty
<1>7. Entry(at[2]) = old[k1]
  <2>1. CASE l0[k0] = NoTable
    BY <1>3, <1>5, <2>1 DEF Entry, Empty
  <2>2. CASE l0[k0] # NoTable
    BY <1>3, <1>5, <2>2 DEF Entry
  <2> QED BY <2>1, <2>2
<1>8. value \in Attrs \cup {NoBlock}
  BY <1>2, <1>3, <1>6 DEF NewEntry
<1>9. /\ table < early_page_curr' /\ early_page_curr <= early_page_curr' /\ early_page_curr' \in Nat
  <2>1. CASE table \in DOMAIN l1
    BY <1>1, <1>4, <2>1
  <2>2. CASE table \notin DOMAIN l1
    <3>1. early_page_curr' = early_page_curr + PAGE_SIZE
      BY <1>1, <2>2, Sizes DEF EarlyPage
    <3> QED BY <1>4, <1>5, <2>2, <3>1, Sizes
  <2> QED BY <2>1, <2>2
<1> HIDE DEF k0, k1, attr, table, old, value
<1>10. /\ DOMAIN l1' = DOMAIN l1 \cup {table}
       /\ l1'[table] = [old EXCEPT ![k1] = value]
       /\ \A t \in DOMAIN l1 : t # table => l1'[t] = l1[t]
  BY <1>1
<1>11. /\ l0' \in [0 .. ENTRIES - 1 -> {NoTable} \cup DOMAIN l1']
       /\ l0'[k0] = table /\ \A k \in 0 .. ENTRIES - 1 : k # k0 => l0'[k] = l0[k]
  BY <1>1, <1>3, <1>4, <1>10
<1>12. \A k \in 0 .. ENTRIES - 1 : k # k0 => l0[k] # table
  BY <1>3, <1>4, <1>5
<1>13. Tables'
  <2>1. l1' \in [DOMAIN l1' -> [0 .. ENTRIES - 1 -> Attrs \cup {NoBlock}]]
    <3>1. [old EXCEPT ![k1] = value] \in [0 .. ENTRIES - 1 -> Attrs \cup {NoBlock}]
      BY <1>3, <1>6, <1>8
    <3> QED BY <1>1, <1>4, <1>10, <3>1
  <2>2. \A t \in DOMAIN l1' : t \in Nat /\ 0 < t /\ t < early_page_curr'
    BY <1>4, <1>5, <1>9, <1>10
  <2>3. \A j, k \in 0 .. ENTRIES - 1 : l0'[j] = l0'[k] => j = k \/ l0'[j] = NoTable
    BY <1>4, <1>11, <1>12
  <2>4. 0 < early_page_curr'
    BY <1>4, <1>9
  <2> QED BY <1>11, <2>1, <2>2, <2>3, <2>4 DEF Tables
<1>14. ASSUME NEW b \in Blocks
       PROVE  Entry(b)' = IF b = at[2] THEN NewEntry(Entry(b), map[at[1]].attr) ELSE Entry(b)
  <2> DEFINE j0 == L0_ENTRY(b)
             j1 == L1_ENTRY(b)
  <2>1. j0 \in 0 .. ENTRIES - 1 /\ j1 \in 0 .. ENTRIES - 1
    BY BlockPlace
  <2>2. Entry(b)' = IF l0'[j0] = NoTable THEN NoBlock ELSE l1'[l0'[j0]][j1]
    BY DEF Entry
  <2>3. Entry(b) = IF l0[j0] = NoTable THEN NoBlock ELSE l1[l0[j0]][j1]
    BY DEF Entry
  <2>4. b = at[2] <=> j0 = k0 /\ j1 = k1
    BY <1>2, BlockSame DEF k0, k1
  <2> HIDE DEF j0, j1
  <2>5. CASE j0 # k0
    <3>1. l0'[j0] = l0[j0] /\ l0[j0] # table
      BY <1>11, <1>12, <2>1, <2>5
    <3>2. l0[j0] # NoTable => l0[j0] \in DOMAIN l1 /\ l1'[l0[j0]] = l1[l0[j0]]
      BY <1>4, <1>10, <2>1, <3>1
    <3> QED BY <2>2, <2>3, <2>4, <2>5, <3>1, <3>2
  <2>6. CASE j0 = k0 /\ j1 # k1
    <3>1. Entry(b)' = old[j1]
      BY <1>5, <1>6, <1>10, <1>11, <2>1, <2>2, <2>6
    <3>2. Entry(b) = old[j1]
      <4>1. CASE l0[k0] = NoTable
        <5>1. old = Empty(NoBlock)
          BY <1>5, <4>1 DEF old
        <5> QED BY <2>1, <2>3, <2>6, <4>1, <5>1 DEF Empty
      <4>2. CASE l0[k0] # NoTable
        <5>1. old = l1[l0[k0]]
          BY <1>5, <4>2 DEF old
        <5> QED BY <2>3, <2>6, <4>2, <5>1
      <4> QED BY <4>1, <4>2
    <3> QED BY <2>4, <2>6, <3>1, <3>2
  <2>7. CASE j0 = k0 /\ j1 = k1
    <3>1. Entry(b)' = value
      BY <1>3, <1>5, <1>6, <1>10, <1>11, <2>2, <2>7
    <3>2. value = NewEntry(Entry(b), map[at[1]].attr)
      BY <1>7, <2>4, <2>7 DEF value, attr
    <3> QED BY <2>4, <2>7, <3>1, <3>2
  <2> QED BY <2>5, <2>6, <2>7
<1> QED BY <1>13, <1>14

\* The conjuncts that say which block has which attribute, for one block.
FilledAt(b) ==
  /\ (\A i \in Regions : ~Done(i, b)) => Entry(b) = NoBlock
  /\ \A i \in Regions : Done(i, b) /\ (\A j \in 1 .. i - 1 : ~Done(j, b)) => Entry(b) = map[i].attr

\* low_map_entry keeps an entry that is there, so the first region has the block.
LEMMA BlockMapped ==
  ASSUME BTypes, MapMade, TablesInv, MapBlock
  PROVE  TablesInv'
<1> DEFINE r == at[1]
           n == at[2]
<1>1. /\ step = "blocks" /\ step' = "blocks" /\ r \in Regions /\ InRegion(r, n)
      /\ at' = <<r, n + 1>> /\ map' = map
  BY DEF MapBlock
<1>2. n \in Nat /\ FirstBlock(r) <= n
  BY <1>1 DEF TablesInv, Loops, Built
<1>3. /\ Tables'
      /\ \A b \in Blocks : Entry(b)' = IF b = n THEN NewEntry(Entry(b), map[r].attr) ELSE Entry(b)
  BY EntryWritten DEF TablesInv
<1>4. FirstBlock(r) \in Int
  <2>1. PICK s \in Nat : s = map[r].start
    BY <1>1, RegionFacts
  <2> QED BY <2>1, Sizes, Quotient DEF FirstBlock
<1>5. Loops'
  <2>1. FirstBlock(r)' = FirstBlock(r)
    BY <1>1 DEF FirstBlock
  <2> QED BY <1>1, <1>2, <1>4, <2>1 DEF Loops, Built, Mapped, FirstBlock, Regions
<1>6. \A i, b : Reached(i, b)' <=> Reached(i, b)
  BY <1>1 DEF Reached, FirstBlock, InRegion, mem_end
<1>7. ASSUME NEW i \in Regions, NEW b \in Blocks
      PROVE  Done(i, b)' <=> Done(i, b) \/ (i = r /\ b = n)
  <2>1. b \in Int /\ i \in Int /\ r \in Int
    BY <1>1 DEF Blocks, Regions
  <2>2. Reached(r, n)
    BY <1>1, <1>2 DEF Reached
  <2>3. Done(i, b)' <=> Reached(i, b)' /\ (i < at'[1] \/ (i = at'[1] /\ b < at'[2]))
    BY DEF Done
  <2> QED BY <1>1, <1>2, <1>6, <2>1, <2>2, <2>3 DEF Done
<1>8. ASSUME NEW b \in Blocks PROVE FilledAt(b)'
  <2>1. /\ (\A i \in Regions : ~Done(i, b)) => Entry(b) = NoBlock
        /\ \A i \in Regions : Done(i, b) /\ (\A j \in 1 .. i - 1 : ~Done(j, b)) => Entry(b) = map[i].attr
    BY <1>1 DEF TablesInv, Filled, Built
  <2>2. CASE b # n
    <3>1. Entry(b)' = Entry(b) /\ \A i \in Regions : Done(i, b)' <=> Done(i, b)
      BY <1>3, <1>7, <2>2
    <3>2. \A i \in Regions : \A j \in 1 .. i - 1 : j \in Regions
      BY DEF Regions
    <3> QED BY <1>1, <2>1, <3>1, <3>2 DEF FilledAt
  <2>3. CASE b = n
    <3>1. Entry(b)' = NewEntry(Entry(b), map[r].attr)
      BY <1>3, <2>3
    <3>2. Done(r, b)' /\ ~Done(r, b)
      <4>1. ~(r < r) /\ ~(n < n)
        BY <1>1, <1>2 DEF Regions
      <4> QED BY <1>1, <1>7, <2>3, <4>1 DEF Done
    <3>3. ASSUME NEW i \in Regions, Done(i, b)', \A j \in 1 .. i - 1 : ~Done(j, b)'
          PROVE  Entry(b)' = map[i].attr
      <4>1. \A j \in 1 .. i - 1 : j \in Regions
        BY DEF Regions
      <4>2. \A j \in 1 .. i - 1 : ~Done(j, b)
        BY <1>7, <3>3, <4>1
      <4>3. CASE i = r
        <5>1. \A j \in Regions : ~Done(j, b)
          <6> SUFFICES ASSUME NEW j \in Regions PROVE ~Done(j, b)
            OBVIOUS
          <6>1. CASE j < r
            BY <4>2, <4>3, <6>1 DEF Regions
          <6>2. CASE j > r
            BY <1>1, <6>2 DEF Regions, Done
          <6> QED BY <1>1, <3>2, <6>1, <6>2 DEF Regions
        <5> QED BY <2>1, <3>1, <4>3, <5>1 DEF NewEntry
      <4>4. CASE i # r
        <5>1. Done(i, b)
          BY <1>7, <3>3, <4>4
        <5>2. Entry(b) = map[i].attr /\ map[i].attr \in Attrs
          BY <1>1, <2>1, <4>2, <5>1, RegionFacts
        <5> QED BY <3>1, <5>2 DEF NewEntry, NoBlock, Attrs
      <4> QED BY <4>3, <4>4
    <3> QED BY <1>1, <3>2, <3>3 DEF FilledAt
  <2> QED BY <2>2, <2>3
<1>9. Filled'
  <2>1. \A b \in Blocks : FilledAt(b)'
    BY <1>8
  <2> QED BY <2>1 DEF Filled, FilledAt
<1> QED BY <1>3, <1>5, <1>9 DEF TablesInv

\* The loop over a region ends behind all the blocks that it reaches.
LEMMA RegionLeft ==
  ASSUME BTypes, MapMade, TablesInv, NextRegion
  PROVE  TablesInv'
<1> DEFINE r == at[1]
           n == at[2]
<1>1. /\ step = "blocks" /\ step' = "blocks" /\ r \in Regions /\ ~InRegion(r, n)
      /\ at' = IF r = 4 THEN <<5, 0>> ELSE <<r + 1, FirstBlock(r + 1)>>
      /\ UNCHANGED <<map, l0, l1, early_page_curr>>
  BY DEF NextRegion
<1>2. n \in Nat
  BY <1>1 DEF TablesInv, Loops, Built
<1>3. \A i \in Regions : FirstBlock(i) \in Nat
  <2> SUFFICES ASSUME NEW i \in Regions PROVE FirstBlock(i) \in Nat
    OBVIOUS
  <2>1. PICK s \in Nat : s = map[i].start
    BY <1>1, RegionFacts
  <2> QED BY <2>1, Sizes, Quotient DEF FirstBlock
<1>4. \A i, b : Reached(i, b)' <=> Reached(i, b)
  BY <1>1 DEF Reached, FirstBlock, InRegion, mem_end
<1>5. \A b \in Blocks : Reached(r, b) => b < n
  <2> SUFFICES ASSUME NEW b \in Blocks, Reached(r, b), ~(b < n) PROVE FALSE
    OBVIOUS
  <2>1. b \in Nat /\ n <= b
    BY <1>2 DEF Blocks
  <2>2. InRegion(r, b)
    BY DEF Reached
  <2> HIDE DEF r, n
  <2>3. InRegion(r, n)
    BY <1>1, <1>2, <2>1, <2>2, LoopFacts
  <2> QED BY <1>1, <2>3
<1>6. ASSUME NEW i \in Regions, NEW b \in Blocks
      PROVE  Done(i, b)' <=> Done(i, b)
  <2>1. Done(i, b)' <=> Reached(i, b)' /\ (i < at'[1] \/ (i = at'[1] /\ b < at'[2]))
    BY DEF Done
  <2>2. CASE i = r
    BY <1>1, <1>2, <1>4, <1>5, <2>1, <2>2 DEF Done, Regions
  <2>3. CASE i # r /\ i = r + 1
    <3>1. at' = <<r + 1, FirstBlock(r + 1)>> /\ ~(i < r)
      BY <1>1, <2>3 DEF Regions
    <3>2. ~(Reached(i, b) /\ b < FirstBlock(i))
      BY <1>3 DEF Reached, Blocks
    <3> QED BY <1>1, <1>4, <2>1, <2>3, <3>1, <3>2 DEF Done, Regions
  <2>4. CASE i # r /\ i # r + 1
    <3>1. i < at'[1] \/ (i = at'[1] /\ b < at'[2]) <=> i < r
      BY <1>1, <2>4 DEF Regions
    <3> QED BY <1>1, <1>4, <2>1, <2>4, <3>1 DEF Done
  <2> QED BY <2>2, <2>3, <2>4
<1>7. Loops'
  <2>1. at' \in (1 .. 5) \X Nat
    BY <1>1, <1>3 DEF Regions
  <2>2. ASSUME at'[1] \in Regions PROVE FirstBlock(at[1])' <= at'[2]
    <3>1. FirstBlock(at[1])' = map[at'[1]].start \div BLOCK
      BY <1>1 DEF FirstBlock
    <3>2. at'[1] = r + 1 /\ at'[2] = FirstBlock(r + 1) /\ r + 1 \in Regions
      BY <1>1, <2>2 DEF Regions
    <3>3. FirstBlock(r + 1) = map[r + 1].start \div BLOCK
      BY DEF FirstBlock
    <3>4. FirstBlock(r + 1) \in Nat
      BY <1>3, <3>2
    <3> QED BY <3>1, <3>2, <3>3, <3>4
  <2> QED BY <1>1, <2>1, <2>2 DEF Loops, Built, Mapped
<1>8. Tables'
  BY <1>1 DEF TablesInv, Tables, Built
<1>9. Filled'
  <2>1. ASSUME NEW b \in Blocks PROVE FilledAt(b)'
    <3>1. Entry(b)' = Entry(b) /\ \A i \in Regions : \A j \in 1 .. i - 1 : j \in Regions
      BY <1>1 DEF Entry, Regions
    <3>2. FilledAt(b)
      BY <1>1 DEF TablesInv, Filled, FilledAt, Built
    <3> QED BY <1>1, <1>6, <3>1, <3>2 DEF FilledAt
  <2> QED BY <2>1 DEF Filled, FilledAt
<1> QED BY <1>7, <1>8, <1>9 DEF TablesInv

\* early_mmu_init begins with one second level and no block.
LEMMA RootMade ==
  ASSUME BTypes, MapMade, TablesInv, Root
  PROVE  TablesInv'
<1> DEFINE table == early_page_curr + PAGE_SIZE
<1>1. /\ step = "root" /\ step' = "blocks" /\ at' = <<1, 0>> /\ map' = map
      /\ l0' = [Empty(NoTable) EXCEPT ![0] = table]
      /\ l1' = [t \in {table} |-> Empty(NoBlock)]
  BY DEF Root, TablesInv, Loops
<1>2. table \in Nat /\ 0 < table /\ table < early_page_curr'
  <2>1. early_page_curr' = early_page_curr + 2 * PAGE_SIZE
    BY <1>1 DEF Root, EarlyPage
  <2> QED BY <2>1, Sizes DEF BTypes
<1> HIDE DEF table
<1>3. ENTRIES \in Nat /\ 0 \in 0 .. ENTRIES - 1
  BY Sizes
<1>4. /\ l0' \in [0 .. ENTRIES - 1 -> {NoTable} \cup {table}] /\ DOMAIN l1' = {table}
      /\ l1'[table] = Empty(NoBlock)
      /\ \A k \in 0 .. ENTRIES - 1 : l0'[k] = IF k = 0 THEN table ELSE NoTable
  BY <1>1, <1>3 DEF Empty
<1>5. Empty(NoBlock) \in [0 .. ENTRIES - 1 -> Attrs \cup {NoBlock}]
  BY DEF Empty
<1>6. Tables'
  <2>1. l1' \in [{table} -> [0 .. ENTRIES - 1 -> Attrs \cup {NoBlock}]]
    BY <1>1, <1>5
  <2>2. \A j, k \in 0 .. ENTRIES - 1 : l0'[j] = l0'[k] => j = k \/ l0'[j] = NoTable
    BY <1>4
  <2>3. 0 < early_page_curr'
    <3>1. early_page_curr' = early_page_curr + 2 * PAGE_SIZE
      BY <1>1 DEF Root, EarlyPage
    <3> QED BY <3>1, Sizes DEF BTypes
  <2> QED BY <1>2, <1>4, <2>1, <2>2, <2>3 DEF Tables
<1>7. Loops'
  <2>1. map'[1].start = 0
    BY <1>1, RegionFacts DEF Regions
  <2>2. FirstBlock(1)' = 0
    <3>1. 0 \div BLOCK = 0
      BY ONLY Sizes
    <3> QED BY <2>1, <3>1 DEF FirstBlock
  <2> QED BY <1>1, <2>2 DEF Loops, Built, Mapped, FirstBlock
<1>8. Filled'
  <2>1. ASSUME NEW b \in Blocks PROVE FilledAt(b)'
    <3>1. L0_ENTRY(b) \in 0 .. ENTRIES - 1 /\ L1_ENTRY(b) \in 0 .. ENTRIES - 1
      BY BlockPlace
    <3>2. Entry(b)' = NoBlock
      BY <1>4, <3>1 DEF Entry, Empty
    <3>3. \A i \in Regions : ~Done(i, b)'
      <4> SUFFICES ASSUME NEW i \in Regions PROVE ~Done(i, b)'
        OBVIOUS
      <4>1. Done(i, b)' => i < at'[1] \/ (i = at'[1] /\ b < at'[2])
        BY DEF Done
      <4> QED BY <1>1, <4>1 DEF Regions, Blocks
    <3> QED BY <3>2, <3>3 DEF FilledAt
  <2> QED BY <2>1 DEF Filled, FilledAt
<1> QED BY <1>6, <1>7, <1>8 DEF TablesInv

LEMMA TablesInvariance == BSpec => [](BTypes /\ MapMade /\ TablesInv)
<1>1. BInit => TablesInv
  <2> SUFFICES ASSUME BInit PROVE TablesInv
    OBVIOUS
  <2>1. step = "early" /\ at = <<1, 0>> /\ ~Built
    BY DEF BInit, Built, Mapped
  <2> QED BY <2>1 DEF TablesInv, Tables, Loops, Filled, Built
<1>2. ASSUME BTypes, MapMade, TablesInv, [BNext]_bvars PROVE TablesInv'
  <2>1. CASE MmEarlyInit \/ MemMap
    <3>1. step' \in {"memmap", "root"} /\ at' = <<1, 0>> /\ ~Built'
      BY <1>2, <2>1 DEF MmEarlyInit, MemMap, layout, TablesInv, Loops, Built, Mapped
    <3> QED BY <3>1 DEF TablesInv, Tables, Loops, Filled, Built
  <2>2. CASE /\ UNCHANGED <<layout, early_page_curr>> /\ Built' = Built
             /\ (Mapped' => Mapped \/ at[1] = 5)
             /\ (step' \in {"early", "memmap", "root"} => step \in {"early", "memmap", "root"})
    <3>1. UNCHANGED <<map, l0, l1, at, early_page_curr>>
      BY <2>2 DEF layout
    <3>2. Tables'
      BY <1>2, <2>2, <3>1 DEF TablesInv, Tables
    <3>3. Loops'
      BY <1>2, <2>2, <3>1 DEF TablesInv, Loops, FirstBlock
    <3>4. Filled'
      BY <1>2, <2>2, <3>1
         DEF TablesInv, Filled, Done, Reached, FirstBlock, InRegion, mem_end, Entry
    <3> QED BY <3>2, <3>3, <3>4 DEF TablesInv
  <2>3. CASE EnableMmu \/ InitPages \/ InitAreas \/ InitBuddies
    BY <2>2, <2>3 DEF EnableMmu, InitPages, InitAreas, InitBuddies, Built, Mapped
  <2>4. CASE ReserveLow \/ LowDone \/ ReserveHigh \/ HighDone
    BY <2>2, <2>4 DEF ReserveLow, LowDone, ReserveHigh, HighDone, Reserve, Built, Mapped
  <2>5. CASE UNCHANGED bvars
    BY <2>2, <2>5 DEF bvars, layout, Built, Mapped
  <2> QED BY <1>2, <2>1, <2>3, <2>4, <2>5, BlockMapped, RegionLeft, RootMade DEF BNext
<1>3. BootInv => BTypes /\ MapMade
  BY DEF BootInv
<1> QED BY <1>1, <1>2, <1>3, BootInvariance, PTL DEF BSpec

\* Once translation is on, each block that the loops over the regions reach has
\* the attribute of the first region that reaches it, and no other is mapped
\* (early_mmu_init and low_map_entry).
TablesExact ==
  Mapped => \A b \in Blocks :
              /\ (\A i \in Regions : ~Reached(i, b)) => MapEntry(b * BLOCK) = NoBlock
              /\ \A i \in Regions :
                   Reached(i, b) /\ (\A j \in 1 .. i - 1 : ~Reached(j, b)) =>
                     MapEntry(b * BLOCK) = map[i].attr

\* What early_init.c builds is what its loops reach.
THEOREM TablesBuilt == BSpec => []TablesExact
<1>1. ASSUME BTypes, MapMade, TablesInv PROVE TablesExact
  <2> SUFFICES ASSUME Mapped, NEW b \in Blocks
               PROVE  /\ (\A i \in Regions : ~Reached(i, b)) => MapEntry(b * BLOCK) = NoBlock
                      /\ \A i \in Regions :
                           Reached(i, b) /\ (\A j \in 1 .. i - 1 : ~Reached(j, b)) =>
                             MapEntry(b * BLOCK) = map[i].attr
    BY DEF TablesExact
  <2>1. MapEntry(b * BLOCK) = Entry(b)
    <3>1. (b * BLOCK) \div BLOCK = b
      BY Sizes, Multiple DEF Blocks
    <3> QED BY <3>1 DEF MapEntry, Entry
  <2>2. at[1] = 5
    BY <1>1 DEF TablesInv, Loops
  <2>3. \A i \in Regions : Done(i, b) <=> Reached(i, b)
    BY <2>2 DEF Done, Regions
  <2>4. \A i \in Regions : \A j \in 1 .. i - 1 : j \in Regions
    BY DEF Regions
  <2> QED BY <1>1, <2>1, <2>3, <2>4 DEF TablesInv, Filled, Built
<1>2. BTypes /\ MapMade /\ TablesInv => TablesExact
  BY <1>1
<1> QED BY <1>2, TablesInvariance, PTL

\* A multiple of s up to p is one up to the quotient.
LEMMA UpToQuotient ==
  ASSUME NEW p \in Nat, NEW s \in Nat, s > 0, NEW b \in Nat
  PROVE  b * s <= p <=> b <= p \div s
<1>1. PICK q \in Nat : q = p \div s /\ q * s <= p /\ p < q * s + s
  BY Quotient
<1>2. (q + 1) * s = q * s + s /\ q * s \in Nat /\ b * s \in Nat
  BY ONLY s \in Nat, s > 0, b \in Nat, q \in Nat, Ordered
<1>3. CASE b <= q
  <2>1. b * s <= q * s
    BY ONLY <1>3, s \in Nat, s > 0, b \in Nat, q \in Nat, Ordered
  <2> QED BY <1>1, <1>2, <1>3, <2>1
<1>4. CASE q + 1 <= b
  <2>1. (q + 1) * s <= b * s
    BY ONLY <1>4, q + 1 \in Nat, s \in Nat, s > 0, b \in Nat, Ordered
  <2> QED BY <1>1, <1>2, <1>4, <2>1
<1> QED BY <1>1, <1>3, <1>4

\* Wherever the memory of the video core starts, all of the RAM is mapped as
\* normal memory, a block inside a region has its attribute but for the one that
\* the loop over the region before goes on to, and nothing else is mapped
\* (early_mmu_init, early_mmu_get_map_entry).
THEOREM TablesCovered == BSpec => []TablesCover
<1>1. ASSUME BTypes, MapMade, TablesExact PROVE TablesCover
  <2> SUFFICES ASSUME Mapped, NEW b \in Blocks
               PROVE  /\ b * BLOCK < map[1].size => MapEntry(b * BLOCK) = "normal"
                      /\ \A i \in Regions :
                           InsideRegion(b, i) /\ (i = 1 \/ b # mem_end(i - 1)) => MapEntry(b * BLOCK) = map[i].attr
                      /\ (\A i \in Regions : b \notin FirstBlock(i) .. mem_end(i)) => MapEntry(b * BLOCK) = NoBlock
    BY DEF TablesCover, Blocks
  <2>0. step \notin {"early", "memmap"} /\ b \in Nat
    BY Sizes DEF Mapped, Blocks
  <2>1. \A i \in Regions :
           /\ map[i].start \in Nat /\ map[i].size \in Nat
           /\ \A j \in 1 .. i - 1 : map[j].start + map[j].size <= map[i].start
           /\ map[1].start = 0 /\ map[1].attr = "normal"
    BY <1>1, <2>0, RegionFacts
  <2>2. PICK x \in Nat : x = b * BLOCK /\ (b + 1) * BLOCK = x + BLOCK
    BY ONLY <2>0, Sizes, Ordered
  <2>3. ASSUME NEW i \in Regions
        PROVE  /\ FirstBlock(i) \in Nat /\ (map[i].start <= x => FirstBlock(i) <= b)
               /\ mem_end(i) \in Nat /\ (b <= mem_end(i) <=> x <= map[i].start + map[i].size)
    <3>1. PICK s \in Nat, e \in Nat : s = map[i].start /\ e = map[i].start + map[i].size
      BY <2>1
    <3>2. s \div BLOCK \in Nat /\ e \div BLOCK \in Nat /\ (x <= e <=> b <= e \div BLOCK)
      BY ONLY <2>0, <2>2, Sizes, Quotient, UpToQuotient, s \in Nat, e \in Nat
    <3>3. s <= x => s \div BLOCK <= b
      <4>1. PICK q \in Nat : q = s \div BLOCK /\ q * BLOCK <= s
        BY ONLY Sizes, Quotient, s \in Nat
      <4>2. q * BLOCK \in Nat /\ (q <= b <=> q * BLOCK <= x)
        BY ONLY <2>0, <2>2, Sizes, Ordered, q \in Nat
      <4> QED BY <4>1, <4>2
    <3> QED BY <3>1, <3>2, <3>3 DEF FirstBlock, mem_end
  <2>4. \A k \in Regions : InRegion(k, b) <=> x <= map[k].start + map[k].size
    BY <2>3 DEF InRegion
  <2>5. ASSUME NEW i \in Regions, map[i].start <= x, x <= map[i].start + map[i].size,
               \A j \in 1 .. i - 1 : map[j].start + map[j].size < x
        PROVE  MapEntry(b * BLOCK) = map[i].attr
    <3>1. Reached(i, b)
      BY <2>3, <2>4, <2>5 DEF Reached
    <3>2. ASSUME NEW j \in 1 .. i - 1 PROVE ~Reached(j, b)
      <4>1. j \in Regions
        BY DEF Regions
      <4> QED BY <2>1, <2>4, <2>5, <4>1 DEF Reached
    <3> QED BY <1>1, <2>5, <3>1, <3>2 DEF TablesExact
  <2>6. b * BLOCK < map[1].size => MapEntry(b * BLOCK) = "normal"
    <3>1. 1 \in Regions
      BY DEF Regions
    <3> QED BY <2>1, <2>2, <2>5, <3>1
  <2>7. ASSUME NEW i \in Regions, InsideRegion(b, i), i = 1 \/ b # mem_end(i - 1)
        PROVE  MapEntry(b * BLOCK) = map[i].attr
    <3>1. map[i].start <= x /\ x + BLOCK <= map[i].start + map[i].size
      BY <2>2, <2>7 DEF InsideRegion
    <3>2. ASSUME NEW j \in 1 .. i - 1 PROVE map[j].start + map[j].size < x
      <4>1. j \in Regions /\ i - 1 \in Regions /\ i # 1
        BY DEF Regions
      <4>2. map[i - 1].start + map[i - 1].size <= map[i].start
        BY <2>1, <4>1 DEF Regions
      <4>3. map[i - 1].start + map[i - 1].size < x
        <5>1. PICK e \in Nat : e = map[i - 1].start + map[i - 1].size
          BY <2>1, <4>1
        <5>2. PICK q \in Nat : q = mem_end(i - 1) /\ q = e \div BLOCK /\ q # b
          BY <2>3, <2>7, <4>1, <5>1 DEF mem_end
        <5>3. e < x
          <6>1. ASSUME e = x PROVE FALSE
            <7>1. (b * BLOCK) \div BLOCK = b
              BY ONLY <2>0, Sizes, Multiple
            <7> QED BY <2>2, <5>2, <6>1, <7>1
          <6> QED BY <3>1, <4>2, <5>1, <6>1, <2>1
        <5> QED BY <5>1, <5>3
      <4>4. j = i - 1 \/ j \in 1 .. (i - 1) - 1
        BY DEF Regions
      <4>5. j = i - 1 \/ map[j].start + map[j].size <= map[i - 1].start
        BY <2>1, <4>1, <4>4
      <4> QED BY <2>1, <4>1, <4>3, <4>5
    <3> QED BY <2>1, <2>5, <3>1, <3>2, Sizes
  <2>8. (\A i \in Regions : b \notin FirstBlock(i) .. mem_end(i)) => MapEntry(b * BLOCK) = NoBlock
    <3>1. \A i \in Regions : b \notin FirstBlock(i) .. mem_end(i) => ~Reached(i, b)
      BY <2>0, <2>3 DEF Reached, InRegion
    <3> QED BY <1>1, <3>1 DEF TablesExact
  <2> QED BY <2>6, <2>7, <2>8
<1>2. BTypes /\ MapMade /\ TablesInv /\ TablesExact => TablesCover
  BY <1>1
<1> QED BY <1>2, TablesInvariance, TablesBuilt, PTL

\* The first block of the devices never has their attribute: the loop over the
\* video core's memory maps it first (early_mmu_init's <=).
THEOREM FirstDeviceBlock == BSpec => [](Mapped => MapEntry(MMIO_BASE) = "uncached")
<1>1. ASSUME BTypes, MapMade, TablesExact, Mapped PROVE MapEntry(MMIO_BASE) = "uncached"
  <2>0. step \notin {"early", "memmap"}
    BY <1>1 DEF Mapped
  <2>1. PICK top \in Nat : top = MMIO_BASE /\ top % BLOCK = 0
    BY BootAssumption
  <2>2. PICK b \in Nat : b = top \div BLOCK /\ top = b * BLOCK
    BY ONLY <2>1, Sizes, Divided
  <2>3. vc \in Nat /\ vc < top
    BY <1>1, <2>0, <2>1, Starts DEF BTypes
  <2>4. PICK v \in Nat : v = vc \div BLOCK /\ v < b
    <3>1. vc \div BLOCK \in Nat /\ vc \div BLOCK < b
      BY ONLY <2>2, <2>3, Sizes, Quotient, Bounded
    <3> QED BY <3>1
  <2>5. /\ map[1].start + map[1].size = vc /\ map[2].start = vc
        /\ map[2].start + map[2].size = top /\ map[2].attr = "uncached"
    BY <1>1, <2>0, <2>1, <2>3 DEF MapMade, MapOf
  <2>6. InRegion(2, b) /\ ~InRegion(1, b)
    BY <2>2, <2>4, <2>5 DEF InRegion, mem_end
  <2>7. Reached(2, b) /\ \A j \in 1 .. 2 - 1 : ~Reached(j, b)
    BY <2>4, <2>5, <2>6 DEF Reached, FirstBlock
  <2>8. b \in Blocks
    <3>1. 2 \in Regions
      BY DEF Regions
    <3> QED BY <1>1, <2>0, <2>6, <3>1, LoopFacts
  <2> QED BY <1>1, <2>1, <2>2, <2>5, <2>7, <2>8 DEF TablesExact, Regions
<1>2. BTypes /\ MapMade /\ TablesInv /\ TablesExact => (Mapped => MapEntry(MMIO_BASE) = "uncached")
  BY <1>1
<1> QED BY <1>2, TablesInvariance, TablesBuilt, PTL

---------------------------------------------------------------------------
(* The bitmaps of the helpers. *)

\* Words are sets of the bits of a word, and the bits are those of the indices
\* that were set and not freed since.
BitmapInv ==
  /\ width \in Widths
  /\ words \in [0 .. BitWords - 1 -> SUBSET (0 .. width - 1)]
  /\ \A x \in Indices : BitIndex(x) \in words[BitmapIndex(x)] <=> x \in ones

\* An index is of one bit of one word.
LEMMA BitPlace ==
  ASSUME NEW x \in Indices, width \in Widths
  PROVE  /\ width \in Nat \ {0} /\ x \in Nat
         /\ BitmapIndex(x) \in 0 .. BitWords - 1 /\ BitIndex(x) \in 0 .. width - 1
         /\ x = BitmapIndex(x) * width + BitIndex(x)
<1>1. width \in Nat \ {0} /\ BitWords \in Nat \ {0}
  BY HelpersAssumption
<1>2. PICK n \in Nat : n = BitWords * width
  BY <1>1
<1>3. x \in Nat /\ x < BitWords * width
  BY <1>2 DEF Indices
<1>4. x \div width \in Nat /\ x \div width < BitWords
  BY <1>1, <1>3, Bounded, Quotient
<1>5. x % width \in 0 .. width - 1
  BY <1>1, <1>3
<1>6. x = (x \div width) * width + (x % width)
  BY <1>1, <1>3
<1> QED BY <1>1, <1>3, <1>4, <1>5, <1>6 DEF BitmapIndex, BitIndex

\* The mask of one bit is that bit.
LEMMA OneBit ==
  ASSUME width \in Nat, NEW i \in 0 .. width - 1
  PROVE  Mask(i, 1) = {i}
BY DEF Mask

\* A bitmap is right at the start,
LEMMA BitmapStarts == UInit => BitmapInv
<1> SUFFICES ASSUME UInit PROVE BitmapInv
  OBVIOUS
<1>1. width \in Widths /\ words = [k \in 0 .. BitWords - 1 |-> {}] /\ ones = {}
  BY DEF UInit
<1>2. ASSUME NEW x \in Indices PROVE words[BitmapIndex(x)] = {}
  <2>1. BitmapIndex(x) \in 0 .. BitWords - 1
    BY <1>1, BitPlace
  <2> QED BY <1>1, <2>1
<1>3. words \in [0 .. BitWords - 1 -> SUBSET (0 .. width - 1)]
  BY <1>1
<1> QED BY <1>1, <1>2, <1>3 DEF BitmapInv

\* and each call keeps it so.
LEMMA BitmapStep == BitmapInv /\ [BitmapCall]_uvars => BitmapInv'
<1> SUFFICES ASSUME BitmapInv, [BitmapCall]_uvars PROVE BitmapInv'
  OBVIOUS
<1>1. /\ width \in Widths
      /\ words \in [0 .. BitWords - 1 -> SUBSET (0 .. width - 1)]
      /\ \A x \in Indices : BitIndex(x) \in words[BitmapIndex(x)] <=> x \in ones
  BY DEF BitmapInv
<1>2. CASE UNCHANGED uvars
  BY <1>1, <1>2 DEF uvars, bitvars, BitmapInv, Indices, BitIndex, BitmapIndex
<1>3. CASE BitmapCall
  <2>1. width' = width
    BY <1>3 DEF BitmapCall
  <2>2. PICK x \in Indices : BitmapSet(x) \/ BitmapFree(x) \/ BitmapFlip(x)
    BY <1>3 DEF BitmapCall
  <2>3. PICK k, i : k = BitmapIndex(x) /\ i = BitIndex(x)
    OBVIOUS
  <2>4. /\ width \in Nat \ {0} /\ k \in 0 .. BitWords - 1 /\ i \in 0 .. width - 1
        /\ x = k * width + i
    BY <1>1, <2>3, BitPlace
  <2>5. Mask(i, 1) = {i}
    BY <2>4, OneBit
  <2>6. PICK w : /\ words' = [words EXCEPT ![k] = w]
                 /\ w \in SUBSET (0 .. width - 1)
                 /\ \A j \in 0 .. width - 1 : j # i => (j \in w <=> j \in words[k])
                 /\ i \in w <=> x \in ones'
                 /\ \A y : y # x => (y \in ones' <=> y \in ones)
    <3>1. words[k] \in SUBSET (0 .. width - 1) /\ (i \in words[k] <=> x \in ones)
      BY <1>1, <2>3, <2>4
    <3>2. CASE BitmapSet(x)
      <4>1. words' = [words EXCEPT ![k] = words[k] \cup {i}] /\ ones' = ones \cup {x}
        BY <2>3, <2>5, <3>2 DEF BitmapSet, BitsSet
      <4> WITNESS words[k] \cup {i}
      <4> QED BY <2>4, <3>1, <4>1
    <3>3. CASE BitmapFree(x)
      <4>1. words' = [words EXCEPT ![k] = words[k] \ {i}] /\ ones' = ones \ {x}
        BY <2>3, <2>5, <3>3 DEF BitmapFree, BitsFree
      <4> WITNESS words[k] \ {i}
      <4> QED BY <2>4, <3>1, <4>1
    <3>4. CASE BitmapFlip(x)
      <4>1. /\ words' = [words EXCEPT ![k] = (words[k] \ {i}) \cup ({i} \ words[k])]
            /\ ones' = IF x \in ones THEN ones \ {x} ELSE ones \cup {x}
        BY <2>3, <2>5, <3>4 DEF BitmapFlip, BitsFlip
      <4> WITNESS (words[k] \ {i}) \cup ({i} \ words[k])
      <4> QED BY <2>4, <3>1, <4>1
    <3> QED BY <2>2, <3>2, <3>3, <3>4
  <2>7. words' \in [0 .. BitWords - 1 -> SUBSET (0 .. width - 1)]
    BY <1>1, <2>6
  <2>8. ASSUME NEW y \in Indices PROVE BitIndex(y) \in words'[BitmapIndex(y)] <=> y \in ones'
    <3>1. /\ BitmapIndex(y) \in 0 .. BitWords - 1 /\ BitIndex(y) \in 0 .. width - 1
          /\ y = BitmapIndex(y) * width + BitIndex(y)
      BY <1>1, BitPlace
    <3>2. BitIndex(y) \in words[BitmapIndex(y)] <=> y \in ones
      BY <1>1
    <3>3. CASE BitmapIndex(y) # k
      <4>1. y # x
        BY <2>3, <3>3
      <4>2. words'[BitmapIndex(y)] = words[BitmapIndex(y)]
        BY <1>1, <2>6, <3>1, <3>3
      <4> QED BY <2>6, <3>2, <4>1, <4>2
    <3>4. CASE BitmapIndex(y) = k /\ BitIndex(y) # i
      <4>1. y # x
        BY <2>3, <3>4
      <4>2. words'[BitmapIndex(y)] = w
        BY <1>1, <2>4, <2>6, <3>4
      <4> QED BY <2>6, <3>1, <3>2, <3>4, <4>1, <4>2
    <3>5. CASE BitmapIndex(y) = k /\ BitIndex(y) = i
      <4>1. y = x
        BY <2>4, <3>1, <3>5
      <4>2. words'[BitmapIndex(y)] = w
        BY <1>1, <2>4, <2>6, <3>5
      <4> QED BY <2>6, <3>5, <4>1, <4>2
    <3> QED BY <3>3, <3>4, <3>5
  <2> QED BY <1>1, <2>1, <2>7, <2>8 DEF BitmapInv, Indices, BitIndex, BitmapIndex
<1> QED BY <1>2, <1>3

\* The invariant says of the bitmap what BitmapRight does.
LEMMA BitmapFollows ==
  ASSUME BitmapInv
  PROVE  BitmapRight
<1> SUFFICES ASSUME NEW x \in Indices
             PROVE  BitmapGet(x) = IF x \in ones THEN {0} ELSE {}
  BY DEF BitmapRight
<1>1. PICK k, i : k = BitmapIndex(x) /\ i = BitIndex(x)
  OBVIOUS
<1>2. width \in Nat \ {0} /\ i \in 0 .. width - 1 /\ (i \in words[k] <=> x \in ones)
  BY <1>1, BitPlace DEF BitmapInv
<1>3. Mask(i, 1) = {i}
  BY <1>2, OneBit
<1>4. BitmapGet(x) = {b - i : b \in words[k] \cap {i}}
  BY <1>1, <1>3 DEF BitmapGet, BitsGet
<1>5. i - i = 0
  BY <1>2
<1>6. CASE x \in ones
  <2>1. words[k] \cap {i} = {i}
    BY <1>2, <1>6
  <2> QED BY <1>4, <1>5, <1>6, <2>1
<1>7. CASE x \notin ones
  <2>1. words[k] \cap {i} = {}
    BY <1>2, <1>7
  <2> QED BY <1>4, <1>7, <2>1
<1> QED BY <1>6, <1>7

\* A bitmap has the bits that were set since they were last freed, for words of
\* any width and any number of them.
THEOREM BitmapSafe == BitmapSpec => []BitmapRight
  BY BitmapStarts, BitmapStep, BitmapFollows, PTL DEF BitmapSpec

---------------------------------------------------------------------------
(* The copies and fills. *)

\* What has been written so far, and what belongs there.
Written == CASE copy.op = "memmove" /\ ~Upwards -> Region(copy.dst + copy.i, copy.size - copy.i)
             [] copy.op = "memcmp" -> {}
             [] OTHER -> Region(copy.dst, copy.i)

Belongs(a) == IF copy.op \in Fills THEN 0 ELSE before[copy.src + (a - copy.dst)]

CopyInv ==
  /\ copy \in [op : Ops \cup {"none"}, dst : Nat, src : Nat, size : Nat, i : Nat,
               step : {"idle", "loop", "returned"}]
  /\ copy.step # "idle" =>
       /\ copy.op \in Ops /\ Callable(copy.op, copy.dst, copy.src, copy.size)
       /\ copy.i <= copy.size
       /\ copy.op = "memset_64" => copy.i % WordBytes = 0
       /\ \A a \in Addrs : mem[a] = IF a \in Written THEN Belongs(a) ELSE before[a]
  /\ copy.step = "returned" => LoopOver

\* A turn that writes W of what belongs there.
LEMMA TurnKeeps ==
  ASSUME CopyInv, copy.step = "loop", before' = before, NEW j \in Nat,
         copy' = [copy EXCEPT !.i = j], j <= copy.size,
         copy.op = "memset_64" => j % WordBytes = 0,
         NEW W, \A a \in Addrs : mem'[a] = IF a \in W THEN Belongs(a) ELSE mem[a],
         Written' = Written \cup W
  PROVE  CopyInv'
<1>1. copy \in [op : Ops \cup {"none"}, dst : Nat, src : Nat, size : Nat, i : Nat,
                step : {"idle", "loop", "returned"}]
  BY DEF CopyInv
<1>2. /\ copy'.op = copy.op /\ copy'.dst = copy.dst /\ copy'.src = copy.src
      /\ copy'.size = copy.size /\ copy'.step = "loop" /\ copy'.i = j
      /\ copy' \in [op : Ops \cup {"none"}, dst : Nat, src : Nat, size : Nat, i : Nat,
                    step : {"idle", "loop", "returned"}]
  BY <1>1
<1>3. /\ copy.op \in Ops /\ Callable(copy.op, copy.dst, copy.src, copy.size)
      /\ \A a \in Addrs : mem[a] = IF a \in Written THEN Belongs(a) ELSE before[a]
  BY DEF CopyInv
<1>4. \A a : Belongs(a)' = Belongs(a)
  BY <1>2 DEF Belongs
<1>5. \A a \in Addrs : mem'[a] = IF a \in Written' THEN Belongs(a)' ELSE before'[a]
  BY <1>3, <1>4
<1>6. Callable(copy.op, copy.dst, copy.src, copy.size)'
  BY <1>2, <1>3 DEF Callable
<1> QED BY <1>2, <1>3, <1>5, <1>6 DEF CopyInv

\* What every turn starts from.
LEMMA TurnFacts ==
  ASSUME CopyInv, copy.step = "loop"
  PROVE  /\ copy.dst \in Nat /\ copy.src \in Nat /\ copy.size \in Nat /\ copy.i \in 0 .. copy.size
         /\ \A k \in 0 .. copy.size - 1 : copy.dst + k \in Addrs /\ copy.src + k \in Addrs
         /\ \A a \in Addrs : mem[a] = IF a \in Written THEN Belongs(a) ELSE before[a]
<1>1. /\ copy.dst \in Nat /\ copy.src \in Nat /\ copy.size \in Nat /\ copy.i \in Nat
      /\ copy.i <= copy.size /\ Callable(copy.op, copy.dst, copy.src, copy.size)
      /\ \A a \in Addrs : mem[a] = IF a \in Written THEN Belongs(a) ELSE before[a]
  BY DEF CopyInv
<1>2. ASSUME NEW k \in 0 .. copy.size - 1 PROVE copy.dst + k \in Addrs /\ copy.src + k \in Addrs
  BY <1>1 DEF Callable, Region
<1> QED BY <1>1, <1>2

\* A turn that copies the byte at index k, the next one of the loop, which has
\* not been written over.
LEMMA CopyTurn ==
  ASSUME CopyInv, copy.step = "loop", before' = before, copy.op \in {"memmove", "memcpy"},
         NEW k \in 0 .. copy.size - 1, NEW j \in Nat, j <= copy.size,
         copy' = [copy EXCEPT !.i = j],
         \A a \in Addrs : mem'[a] = IF a \in {copy.dst + k} THEN mem[copy.src + k] ELSE mem[a],
         copy.src + k \notin Written, Written' = Written \cup {copy.dst + k}
  PROVE  CopyInv'
<1>1. /\ copy.dst \in Nat /\ copy.src \in Nat /\ copy.size \in Nat
      /\ copy.src + k \in Addrs
      /\ \A a \in Addrs : mem[a] = IF a \in Written THEN Belongs(a) ELSE before[a]
  BY TurnFacts
<1>2. mem[copy.src + k] = before[copy.src + k]
  BY <1>1
<1>3. Belongs(copy.dst + k) = before[copy.src + k]
  <2>1. copy.src + ((copy.dst + k) - copy.dst) = copy.src + k
    BY <1>1
  <2> QED BY <2>1 DEF Belongs, Fills
<1>4. \A a \in Addrs : mem'[a] = IF a \in {copy.dst + k} THEN Belongs(a) ELSE mem[a]
  BY <1>2, <1>3
<1>5. copy.op # "memset_64"
  OBVIOUS
<1> QED BY <1>4, <1>5, TurnKeeps

\* A region grows by a byte at either end.
LEMMA OneMoreByte ==
  ASSUME NEW a \in Int, NEW n \in Nat
  PROVE  /\ Region(a, n + 1) = Region(a, n) \cup {a + n}
         /\ Region(a - 1, n + 1) = Region(a, n) \cup {a - 1}
<1>1. \A x : x \in Region(a, n + 1) <=> x \in Region(a, n) \/ x = a + n
  BY DEF Region
<1>2. \A x : x \in Region(a - 1, n + 1) <=> x \in Region(a, n) \/ x = a - 1
  BY DEF Region
<1> QED BY <1>1, <1>2

\* What leaves a call alone keeps its invariant,
LEMMA CopyLeft ==
  ASSUME CopyInv, mem' = mem, before' = before, copy' = copy
  PROVE  CopyInv'
<1>1. /\ (\A a : Belongs(a)' = Belongs(a)) /\ Written' = Written /\ LoopOver' = LoopOver
  BY DEF Belongs, Written, Upwards, LoopOver, SizeUp, Same
<1>2. Callable(copy.op, copy.dst, copy.src, copy.size)' = Callable(copy.op, copy.dst, copy.src, copy.size)
  OBVIOUS
<1> QED BY <1>1, <1>2 DEF CopyInv

\* and so does each step of it.
LEMMA CopyStep == CopyInv /\ [CopyNext]_uvars => CopyInv'
<1> SUFFICES ASSUME CopyInv, [CopyNext]_uvars PROVE CopyInv'
  OBVIOUS
<1> DEFINE d == copy.dst
           s == copy.src
           n == copy.size
           i == copy.i
<1>1. CASE UNCHANGED uvars
  BY <1>1, CopyLeft DEF uvars
<1>2. ASSUME NEW op \in Ops, NEW x \in Addrs, NEW y \in Addrs, NEW z \in 0 .. MemSize,
             CopyCall(op, x, y, z)
      PROVE  CopyInv'
  <2>1. PICK e : e = IF op = "memmove" /\ ~(x < y) THEN z ELSE 0
    OBVIOUS
  <2>2. /\ copy' = [op |-> op, dst |-> x, src |-> y, size |-> z, step |-> "loop", i |-> e]
        /\ before' = mem /\ mem' = mem /\ Callable(op, x, y, z)
    BY <1>2, <2>1 DEF CopyCall
  <2>3. x \in Nat /\ y \in Nat /\ z \in Nat /\ e \in {0, z} /\ WordBytes \in Nat \ {0}
    BY <2>1, HelpersAssumption DEF Addrs
  <2>4. Written' = {}
    <3>1. Written' = CASE op = "memmove" /\ ~(x < y) -> Region(x + e, z - e)
                       [] op = "memcmp" -> {}
                       [] OTHER -> Region(x, e)
      BY <2>2 DEF Written, Upwards
    <3> QED BY <2>1, <2>3, <3>1 DEF Region
  <2>5. op = "memset_64" => e % WordBytes = 0
    <3>1. SUFFICES ASSUME op = "memset_64" PROVE e % WordBytes = 0
      OBVIOUS
    <3>2. e = 0
      BY <2>1, <3>1
    <3> QED BY <2>3, <3>2
  <2>6. copy' \in [op : Ops \cup {"none"}, dst : Nat, src : Nat, size : Nat, i : Nat,
                   step : {"idle", "loop", "returned"}]
    BY <2>2, <2>3
  <2>7. Callable(copy.op, copy.dst, copy.src, copy.size)'
    BY <2>2 DEF Callable
  <2> QED BY <2>2, <2>3, <2>4, <2>5, <2>6, <2>7 DEF CopyInv
<1>3. CASE MoveUp
  <2>1. /\ copy.step = "loop" /\ copy.op = "memmove" /\ d < s /\ i < n /\ before' = before
        /\ copy' = [copy EXCEPT !.i = i + 1]
        /\ mem' = [a \in Addrs |-> IF a \in {d + i} THEN mem[s + i] ELSE mem[a]]
    BY <1>3 DEF MoveUp, Loop, Turn, Upwards
  <2>2. d \in Nat /\ s \in Nat /\ n \in Nat /\ i \in 0 .. n - 1
    BY <2>1, TurnFacts
  <2>3. Written = Region(d, i)
    BY <2>1 DEF Written, Upwards
  <2>4. Written' = Region(d, i + 1)
    <3>1. copy'.op = "memmove" /\ copy'.dst = d /\ copy'.src = s /\ copy'.i = i + 1
      BY <2>1 DEF CopyInv
    <3> QED BY <2>1, <3>1 DEF Written, Upwards
  <2>5. Written' = Written \cup {d + i} /\ s + i \notin Written
    <3>1. Region(d, i + 1) = Region(d, i) \cup {d + i}
      <4>1. d \in Int /\ i \in Nat
        BY <2>2
      <4> QED BY ONLY <4>1, OneMoreByte
    <3>2. s + i \notin Region(d, i)
      BY <2>1, <2>2 DEF Region
    <3> QED BY <2>3, <2>4, <3>1, <3>2
  <2>6. i + 1 \in Nat /\ i + 1 <= n
    BY <2>2
  <2> QED BY <2>1, <2>2, <2>5, <2>6, CopyTurn
<1>4. CASE MoveDown
  <2>1. /\ copy.step = "loop" /\ copy.op = "memmove" /\ ~(d < s) /\ i # 0 /\ before' = before
        /\ copy' = [copy EXCEPT !.i = i - 1]
        /\ mem' = [a \in Addrs |-> IF a \in {d + i - 1} THEN mem[s + i - 1] ELSE mem[a]]
    BY <1>4 DEF MoveDown, Loop, Turn, Upwards
  <2>2. d \in Nat /\ s \in Nat /\ n \in Nat /\ i \in 1 .. n
    BY <2>1, TurnFacts
  <2>3. Written = Region(d + i, n - i)
    BY <2>1 DEF Written, Upwards
  <2>4. Written' = Region(d + (i - 1), n - (i - 1))
    <3>1. copy'.op = "memmove" /\ copy'.dst = d /\ copy'.src = s /\ copy'.i = i - 1 /\ copy'.size = n
      BY <2>1 DEF CopyInv
    <3> QED BY <2>1, <3>1 DEF Written, Upwards
  <2>5. Written' = Written \cup {d + (i - 1)} /\ s + (i - 1) \notin Written
    <3>1. Region((d + i) - 1, (n - i) + 1) = Region(d + i, n - i) \cup {(d + i) - 1}
      BY <2>2, OneMoreByte
    <3>2. (d + i) - 1 = d + (i - 1) /\ (n - i) + 1 = n - (i - 1)
      BY <2>2
    <3>3. s + (i - 1) \notin Region(d + i, n - i)
      BY <2>1, <2>2 DEF Region
    <3> QED BY <2>3, <2>4, <3>1, <3>2, <3>3
  <2>6. i - 1 \in 0 .. n - 1 /\ i - 1 \in Nat /\ i - 1 <= n
        /\ d + i - 1 = d + (i - 1) /\ s + i - 1 = s + (i - 1)
    BY <2>2
  <2>7. \A a \in Addrs : mem'[a] = IF a \in {d + (i - 1)} THEN mem[s + (i - 1)] ELSE mem[a]
    BY <2>1, <2>6
  <2> QED BY <2>1, <2>5, <2>6, <2>7, CopyTurn
<1>5. CASE CopyByte
  <2>1. /\ copy.step = "loop" /\ copy.op = "memcpy" /\ i < n /\ before' = before
        /\ copy' = [copy EXCEPT !.i = i + 1]
        /\ mem' = [a \in Addrs |-> IF a \in {d + i} THEN mem[s + i] ELSE mem[a]]
    BY <1>5 DEF CopyByte, Loop, Turn
  <2>2. d \in Nat /\ s \in Nat /\ n \in Nat /\ i \in 0 .. n - 1
    BY <2>1, TurnFacts
  <2>3. Written = Region(d, i)
    BY <2>1 DEF Written
  <2>4. Written' = Region(d, i + 1)
    <3>1. copy'.op = "memcpy" /\ copy'.dst = d /\ copy'.i = i + 1
      BY <2>1 DEF CopyInv
    <3> QED BY <3>1 DEF Written
  <2>5. Region(d, n) \cap Region(s, n) = {}
    BY <2>1 DEF CopyInv, Callable
  <2>6. s + i \in Region(s, n) /\ Written \subseteq Region(d, n)
    BY <2>2, <2>3 DEF Region
  <2>7. Written' = Written \cup {d + i}
    <3>1. d \in Int /\ i \in Nat
      BY <2>2
    <3>2. Region(d, i + 1) = Region(d, i) \cup {d + i}
      BY ONLY <3>1, OneMoreByte
    <3> QED BY <2>3, <2>4, <3>2
  <2>8. s + i \notin Written /\ i + 1 \in Nat /\ i + 1 <= n
    BY <2>2, <2>5, <2>6
  <2> QED BY <2>1, <2>2, <2>7, <2>8, CopyTurn
<1>6. CASE SetByte
  <2>1. /\ copy.step = "loop" /\ copy.op = "memset" /\ i < n /\ before' = before
        /\ copy' = [copy EXCEPT !.i = i + 1]
        /\ mem' = [a \in Addrs |-> IF a \in {d + i} THEN 0 ELSE mem[a]]
    BY <1>6 DEF SetByte, Loop, Turn
  <2>2. d \in Nat /\ n \in Nat /\ i \in 0 .. n - 1
    BY <2>1, TurnFacts
  <2>3. Written = Region(d, i)
    BY <2>1 DEF Written
  <2>4. Written' = Region(d, i + 1)
    <3>1. copy'.op = "memset" /\ copy'.dst = d /\ copy'.i = i + 1
      BY <2>1 DEF CopyInv
    <3> QED BY <3>1 DEF Written
  <2>5. Written' = Written \cup {d + i} /\ i + 1 \in Nat /\ i + 1 <= n
    <3>1. d \in Int /\ i \in Nat
      BY <2>2
    <3>2. Region(d, i + 1) = Region(d, i) \cup {d + i}
      BY ONLY <3>1, OneMoreByte
    <3> QED BY <2>2, <2>3, <2>4, <3>2
  <2>6. \A a \in Addrs : mem'[a] = IF a \in {d + i} THEN Belongs(a) ELSE mem[a]
    BY <2>1 DEF Belongs, Fills
  <2>7. copy.op # "memset_64"
    BY <2>1
  <2> QED BY <2>1, <2>5, <2>6, <2>7, TurnKeeps
<1>7. CASE SetWord
  <2>1. /\ copy.step = "loop" /\ copy.op = "memset_64" /\ i < n + (n % WordBytes)
        /\ before' = before /\ copy' = [copy EXCEPT !.i = i + WordBytes]
        /\ mem' = [a \in Addrs |-> IF a \in Region(d + i, WordBytes) THEN 0 ELSE mem[a]]
    BY <1>7 DEF SetWord, Loop, Turn, SizeUp
  <2>2. /\ d \in Nat /\ n \in Nat /\ i \in Nat /\ WordBytes \in Nat /\ WordBytes > 0
    BY <2>1, TurnFacts, HelpersAssumption
  <2>3. n % WordBytes = 0 /\ i % WordBytes = 0
    BY <2>1 DEF CopyInv, Callable
  <2>4. i < n
    BY <2>1, <2>2, <2>3
  <2>5. i + WordBytes <= n
    BY <2>2, <2>3, <2>4, NextMultiple
  <2>6. (i + WordBytes) % WordBytes = 0
    <3>1. PICK q \in Nat : i = q * WordBytes
      BY <2>2, <2>3, Divided
    <3>2. i + WordBytes = (q + 1) * WordBytes
      BY <2>2, <3>1
    <3> QED BY <2>2, <3>2, Multiple
  <2>7. Written = Region(d, i)
    BY <2>1 DEF Written
  <2>8. Written' = Region(d, i + WordBytes)
    <3>1. copy'.op = "memset_64" /\ copy'.dst = d /\ copy'.i = i + WordBytes
      BY <2>1 DEF CopyInv
    <3> QED BY <3>1 DEF Written
  <2>9. Written' = Written \cup Region(d + i, WordBytes) /\ i + WordBytes \in Nat
    BY <2>2, <2>7, <2>8 DEF Region
  <2>10. \A a \in Addrs : mem'[a] = IF a \in Region(d + i, WordBytes) THEN Belongs(a) ELSE mem[a]
    BY <2>1 DEF Belongs, Fills
  <2> QED BY <2>1, <2>5, <2>6, <2>9, <2>10, TurnKeeps
<1>8. CASE CompareByte
  <2>1. /\ copy.step = "loop" /\ copy.op = "memcmp" /\ i < n /\ before' = before
        /\ copy' = [copy EXCEPT !.i = i + 1]
        /\ mem' = [a \in Addrs |-> IF a \in {} THEN 0 ELSE mem[a]]
    BY <1>8 DEF CompareByte, Loop, Turn
  <2>2. n \in Nat /\ i \in 0 .. n - 1
    BY <2>1, TurnFacts
  <2>3. Written = {}
    BY <2>1 DEF Written
  <2>4. Written' = {}
    <3>1. copy'.op = "memcmp"
      BY <2>1 DEF CopyInv
    <3> QED BY <3>1 DEF Written
  <2>5. PICK W : W = {}
    OBVIOUS
  <2>6. /\ \A a \in Addrs : mem'[a] = IF a \in W THEN Belongs(a) ELSE mem[a]
        /\ Written' = Written \cup W
    BY <2>1, <2>3, <2>4, <2>5
  <2>7. i + 1 \in Nat /\ i + 1 <= n /\ copy.op # "memset_64"
    BY <2>1, <2>2
  <2> QED BY <2>1, <2>5, <2>6, <2>7, TurnKeeps
<1>9. CASE CopyReturns
  <2>1. /\ copy.step = "loop" /\ LoopOver /\ copy' = [copy EXCEPT !.step = "returned"]
        /\ mem' = mem /\ before' = before
    BY <1>9 DEF CopyReturns
  <2>2. /\ copy \in [op : Ops \cup {"none"}, dst : Nat, src : Nat, size : Nat, i : Nat,
                     step : {"idle", "loop", "returned"}]
    BY DEF CopyInv
  <2>3. /\ copy'.op = copy.op /\ copy'.dst = d /\ copy'.src = s /\ copy'.size = n /\ copy'.i = i
        /\ copy' \in [op : Ops \cup {"none"}, dst : Nat, src : Nat, size : Nat, i : Nat,
                      step : {"idle", "loop", "returned"}]
    BY <2>1, <2>2
  <2>4. /\ (\A a : Belongs(a)' = Belongs(a)) /\ Written' = Written /\ LoopOver'
    BY <2>1, <2>3 DEF Belongs, Written, Upwards, LoopOver, SizeUp, Same
  <2>5. Callable(copy.op, copy.dst, copy.src, copy.size)'
    BY <2>1, <2>3 DEF CopyInv, Callable
  <2> QED BY <2>1, <2>3, <2>4, <2>5 DEF CopyInv
<1> QED BY <1>1, <1>2, <1>3, <1>4, <1>5, <1>6, <1>7, <1>8, <1>9 DEF CopyNext

\* The invariant says of a call that has returned what CopiesRight does.
LEMMA CopiesFollow ==
  ASSUME CopyInv
  PROVE  CopiesRight
<1> SUFFICES ASSUME copy.step = "returned", NEW a \in Addrs
             PROVE  mem[a] = IF copy.op = "memcmp" \/ a \notin Region(copy.dst, copy.size)
                             THEN before[a]
                             ELSE IF copy.op \in Fills THEN 0
                             ELSE before[copy.src + (a - copy.dst)]
  BY DEF CopiesRight
<1>1. /\ copy.dst \in Nat /\ copy.size \in Nat /\ copy.i \in Nat /\ copy.i <= copy.size
      /\ copy.op \in Ops /\ LoopOver
      /\ mem[a] = IF a \in Written THEN Belongs(a) ELSE before[a]
      /\ copy.op = "memset_64" => copy.size % WordBytes = 0
  BY DEF CopyInv, Callable
<1>2. CASE copy.op = "memcmp"
  BY <1>1, <1>2 DEF Written
<1>3. CASE copy.op = "memmove" /\ ~Upwards
  <2>1. copy.i = 0
    BY <1>1, <1>3 DEF LoopOver
  <2>2. Written = Region(copy.dst, copy.size)
    BY <1>1, <1>3, <2>1 DEF Written, Region
  <2> QED BY <1>1, <1>3, <2>2 DEF Belongs
<1>4. CASE copy.op # "memcmp" /\ ~(copy.op = "memmove" /\ ~Upwards)
  <2>1. copy.i = copy.size
    <3>1. copy.op = "memset_64" => SizeUp = copy.size
      BY <1>1 DEF SizeUp
    <3> QED BY <1>1, <1>4, <3>1 DEF LoopOver, Ops
  <2>2. Written = Region(copy.dst, copy.size)
    BY <1>4, <2>1 DEF Written
  <2> QED BY <1>1, <1>4, <2>2 DEF Belongs
<1> QED BY <1>2, <1>3, <1>4

\* memmove, memcpy and the fills do what CopiesRight says of them, for any
\* regions of a memory of any size, though those of memmove overlap.
THEOREM CopiesSafe == CopySpec => []CopiesRight
<1>1. UInit => CopyInv
  BY DEF UInit, CopyInv, NoCopy
<1> QED BY <1>1, CopyStep, CopiesFollow, PTL DEF CopySpec

---------------------------------------------------------------------------
(* The linked lists: rows of nodes, as predicates of the type t of the     *)
(* heads, a head's first a, final z and count c, and of the links S and P. *)

\* The i-th node of q, Null outside of it.
Nth(q, i) == IF i \in 1 .. Len(q) THEN q[i] ELSE Null

RowOf(q, t, a, z, c, S, P) ==
  /\ q \in Seq(Nodes) /\ c = Len(q)
  /\ \A i, j \in 1 .. Len(q) : q[i] = q[j] => i = j
  /\ a = Nth(q, 1) /\ z = Nth(q, Len(q))
  /\ \A i \in 1 .. Len(q) : S[q[i]] = Nth(q, i + 1) /\ (t = "DLL" => P[q[i]] = Nth(q, i - 1))

LinkTypes(A, Z, C, S, P) ==
  /\ A \in [Lists -> Nodes \cup {Null}] /\ Z \in [Lists -> Nodes \cup {Null}]
  /\ C \in [Lists -> Nat]
  /\ S \in [Nodes -> Nodes \cup {Null}] /\ P \in [Nodes -> Nodes \cup {Null}]

\* F gives each list its row; a node is in one list.
Rows(F, t, A, Z, C, S, P) ==
  /\ F \in [Lists -> Seq(Nodes)]
  /\ LinkTypes(A, Z, C, S, P)
  /\ \A h \in Lists : RowOf(F[h], t, A[h], Z[h], C[h], S, P)
  /\ \A g, h \in Lists : g # h =>
       \A i \in 1 .. Len(F[g]), j \in 1 .. Len(F[h]) : F[g][i] # F[h][j]

\* Chain, of a head's first and the links.
ChainOf(a, S) ==
  LET node[i \in 1 .. Cardinality(Nodes) + 1] ==
        IF i = 1 THEN a
        ELSE IF node[i - 1] = Null THEN Null ELSE S[node[i - 1]]
  IN [i \in {j \in 1 .. Cardinality(Nodes) : node[j] # Null} |-> node[i]]

\* A row has no more nodes than there are.
LEMMA RowLength ==
  ASSUME NEW q \in Seq(Nodes), \A i, j \in 1 .. Len(q) : q[i] = q[j] => i = j
  PROVE  Cardinality(Nodes) \in Nat /\ Len(q) <= Cardinality(Nodes)
<1>1. IsFiniteSet(Nodes)
  BY ListAssumption
<1>2. Cardinality(Nodes) \in Nat
  BY <1>1, FS_CardinalityType
<1>3. Len(q) \in Nat /\ q \in [1 .. Len(q) -> Nodes]
  BY LenProperties, ElementOfSeq
<1>4. q \in Injection(1 .. Len(q), Nodes)
  BY <1>3 DEF Injection, IsInjective
<1>5. Cardinality(1 .. Len(q)) <= Cardinality(Nodes)
  BY <1>1, <1>4, FS_Injection
<1>6. Cardinality(1 .. Len(q)) = Len(q)
  <2>1. 1 \in Int /\ Len(q) \in Int
    BY <1>3
  <2>2. Cardinality(1 .. Len(q)) = IF 1 > Len(q) THEN 0 ELSE Len(q) - 1 + 1
    BY ONLY <2>1, FS_Interval
  <2> QED BY <1>3, <2>2
<1> QED BY <1>2, <1>5, <1>6

\* A walk along the links of a row gives the row.
LEMMA RowChain ==
  ASSUME NEW q, NEW t, NEW a, NEW z, NEW c, NEW S, NEW P, RowOf(q, t, a, z, c, S, P)
  PROVE  ChainOf(a, S) = q
<1>1. /\ q \in Seq(Nodes) /\ a = Nth(q, 1)
      /\ \A i, j \in 1 .. Len(q) : q[i] = q[j] => i = j
      /\ \A i \in 1 .. Len(q) : S[q[i]] = Nth(q, i + 1)
  BY DEF RowOf
<1>2. PICK n : n = Cardinality(Nodes)
  OBVIOUS
<1>3. n \in Nat /\ Len(q) \in Nat /\ Len(q) <= n
  BY <1>1, <1>2, RowLength, LenProperties
<1>4. \A i \in 1 .. Len(q) : q[i] \in Nodes /\ q[i] # Null
  BY <1>1, ElementOfSeq, ListAssumption
<1> DEFINE Along(f) == f = [i \in 1 .. n + 1 |->
                              IF i = 1 THEN a
                              ELSE IF f[i - 1] = Null THEN Null ELSE S[f[i - 1]]]
           node == CHOOSE f : Along(f)
           w == [i \in 1 .. n + 1 |-> Nth(q, i)]
<1>5. ChainOf(a, S) = [i \in {j \in 1 .. n : node[j] # Null} |-> node[i]]
  BY <1>2 DEF ChainOf
<1>6. ASSUME NEW i \in 1 .. n + 1
      PROVE  Nth(q, i) = IF i = 1 THEN a
                         ELSE IF Nth(q, i - 1) = Null THEN Null ELSE S[Nth(q, i - 1)]
  <2>1. CASE i = 1
    BY <1>1, <2>1
  <2>2. CASE i # 1 /\ i - 1 \in 1 .. Len(q)
    <3>1. Nth(q, i - 1) = q[i - 1] /\ q[i - 1] # Null
      BY <1>4, <2>2 DEF Nth
    <3>2. S[q[i - 1]] = Nth(q, (i - 1) + 1) /\ (i - 1) + 1 = i
      BY <1>1, <1>3, <2>2
    <3> QED BY <2>2, <3>1, <3>2
  <2>3. CASE i # 1 /\ i - 1 \notin 1 .. Len(q)
    <3>1. i \notin 1 .. Len(q)
      BY <1>3, <2>3
    <3> QED BY <2>3, <3>1 DEF Nth
  <2> QED BY <2>1, <2>2, <2>3
<1>7. Along(w)
  <2>1. \A i \in 1 .. n + 1 : i # 1 => i - 1 \in 1 .. n + 1
    BY <1>3
  <2>2. w = [i \in 1 .. n + 1 |-> IF i = 1 THEN a
                                  ELSE IF w[i - 1] = Null THEN Null ELSE S[w[i - 1]]]
    BY <1>6, <2>1
  <2> QED BY <2>2
<1>8. Along(node)
  BY <1>7
<1>9. ASSUME NEW f, Along(f) PROVE \A i \in 1 .. n + 1 : f[i] = Nth(q, i)
  <2>1. \A i \in 1 .. n + 1 : f[i] = IF i = 1 THEN a
                                     ELSE IF f[i - 1] = Null THEN Null ELSE S[f[i - 1]]
    BY <1>9
  <2> HIDE DEF Along
  <2> DEFINE W == {i \in 1 .. n + 1 : f[i] # Nth(q, i)}
  <2>2. SUFFICES ASSUME W # {} PROVE FALSE
    OBVIOUS
  <2>3. W \in SUBSET Nat
    BY <1>3
  <2>4. PICK i \in W : \A j \in W : i <= j
    BY <2>2, <2>3, Least
  <2>5. i \in 1 .. n + 1 /\ f[i] # Nth(q, i)
    BY <2>4
  <2>6. i # 1
    BY <1>6, <2>1, <2>5
  <2>7. i - 1 \in 1 .. n + 1 /\ i - 1 \notin W
    BY <1>3, <2>4, <2>5, <2>6
  <2>8. f[i - 1] = Nth(q, i - 1)
    BY <2>7
  <2> QED BY <1>6, <2>1, <2>5, <2>6, <2>8
<1> HIDE DEF Along, node, w
<1>10. \A i \in 1 .. n + 1 : node[i] = Nth(q, i)
  BY <1>8, <1>9
<1>11. {j \in 1 .. n : node[j] # Null} = 1 .. Len(q)
  <2>1. ASSUME NEW j \in 1 .. n PROVE node[j] # Null <=> j \in 1 .. Len(q)
    BY <1>3, <1>4, <1>10 DEF Nth
  <2>2. 1 .. Len(q) \subseteq 1 .. n
    BY <1>3
  <2> QED BY <2>1, <2>2
<1>12. \A i \in 1 .. Len(q) : node[i] = q[i]
  BY <1>3, <1>10 DEF Nth
<1>13. q = [i \in 1 .. Len(q) |-> q[i]]
  BY <1>1, LenProperties
<1> QED BY <1>5, <1>11, <1>12, <1>13

\* So the rows are the chains.
LEMMA RowsAre ==
  ASSUME NEW F, NEW t, NEW A, NEW Z, NEW C, NEW S, NEW P, Rows(F, t, A, Z, C, S, P)
  PROVE  F = [h \in Lists |-> ChainOf(A[h], S)]
<1>1. F \in [Lists -> Seq(Nodes)]
  BY DEF Rows
<1>2. \A h \in Lists : ChainOf(A[h], S) = F[h]
  BY RowChain DEF Rows
<1> QED BY <1>1, <1>2

\* q with n behind its k-th node, and without its k-th node.
Put(q, k, n) == [i \in 1 .. Len(q) + 1 |-> IF i <= k THEN q[i] ELSE IF i = k + 1 THEN n ELSE q[i - 1]]
Cut(q, k) == [i \in 1 .. Len(q) - 1 |-> IF i < k THEN q[i] ELSE q[i + 1]]

\* What Put does to the length, the places and the neighbours.
LEMMA PutFacts ==
  ASSUME NEW q \in Seq(Nodes), NEW k \in 0 .. Len(q), NEW n \in Nodes
  PROVE  /\ Put(q, k, n) \in Seq(Nodes) /\ Len(Put(q, k, n)) = Len(q) + 1
         /\ \A i \in 1 .. Len(q) + 1 :
              Put(q, k, n)[i] = IF i <= k THEN q[i] ELSE IF i = k + 1 THEN n ELSE q[i - 1]
         /\ \A i \in Int : Nth(Put(q, k, n), i) =
              IF i <= k THEN Nth(q, i) ELSE IF i = k + 1 THEN n ELSE Nth(q, i - 1)
<1>1. Len(q) \in Nat /\ \A i \in 1 .. Len(q) : q[i] \in Nodes
  BY ElementOfSeq, LenProperties
<1> DEFINE p == Put(q, k, n)
<1>2. /\ p \in [1 .. Len(q) + 1 -> Nodes]
      /\ \A i \in 1 .. Len(q) + 1 : p[i] = IF i <= k THEN q[i] ELSE IF i = k + 1 THEN n ELSE q[i - 1]
  <2>1. ASSUME NEW i \in 1 .. Len(q) + 1
        PROVE  (IF i <= k THEN q[i] ELSE IF i = k + 1 THEN n ELSE q[i - 1]) \in Nodes
    <3>1. CASE i <= k
      BY <1>1, <3>1
    <3>2. CASE i = k + 1
      BY <1>1, <3>2
    <3>3. CASE i > k + 1
      <4>1. i - 1 \in 1 .. Len(q)
        BY <1>1, <3>3
      <4> QED BY <1>1, <3>3, <4>1
    <3> QED BY <1>1, <3>1, <3>2, <3>3
  <2> QED BY <2>1 DEF Put
<1> HIDE DEF p
<1>3. p \in Seq(Nodes)
  <2>1. Len(q) + 1 \in Nat
    BY <1>1
  <2> QED BY <1>2, <2>1, SeqDef
<1>4. Len(p) = Len(q) + 1
  <2>1. Len(p) \in Nat /\ DOMAIN p = 1 .. Len(p) /\ DOMAIN p = 1 .. Len(q) + 1
    BY <1>2, <1>3, LenProperties
  <2>2. Len(q) + 1 \in 1 .. Len(p)
    BY <1>1, <2>1
  <2>3. Len(p) \in 1 .. Len(q) + 1
    BY <2>1, <2>2
  <2> QED BY <1>1, <2>2, <2>3
<1>5. ASSUME NEW i \in Int
      PROVE  Nth(p, i) = IF i <= k THEN Nth(q, i) ELSE IF i = k + 1 THEN n ELSE Nth(q, i - 1)
  BY <1>1, <1>2, <1>4 DEF Nth
<1> QED BY <1>2, <1>3, <1>4, <1>5 DEF p

\* What Cut does to them.
LEMMA CutFacts ==
  ASSUME NEW q \in Seq(Nodes), NEW k \in 1 .. Len(q)
  PROVE  /\ Cut(q, k) \in Seq(Nodes) /\ Len(Cut(q, k)) = Len(q) - 1
         /\ \A i \in 1 .. Len(q) - 1 : Cut(q, k)[i] = IF i < k THEN q[i] ELSE q[i + 1]
         /\ \A i \in Int : Nth(Cut(q, k), i) = IF i < k THEN Nth(q, i) ELSE Nth(q, i + 1)
<1>1. Len(q) \in Nat /\ \A i \in 1 .. Len(q) : q[i] \in Nodes
  BY ElementOfSeq, LenProperties
<1> DEFINE p == Cut(q, k)
<1>2. /\ p \in [1 .. Len(q) - 1 -> Nodes]
      /\ \A i \in 1 .. Len(q) - 1 : p[i] = IF i < k THEN q[i] ELSE q[i + 1]
  <2>1. ASSUME NEW i \in 1 .. Len(q) - 1 PROVE (IF i < k THEN q[i] ELSE q[i + 1]) \in Nodes
    <3>1. i \in 1 .. Len(q) /\ i + 1 \in 1 .. Len(q)
      BY <1>1
    <3> QED BY <1>1, <3>1
  <2> QED BY <2>1 DEF Cut
<1> HIDE DEF p
<1>3. p \in Seq(Nodes)
  <2>1. Len(q) - 1 \in Nat
    BY <1>1
  <2> QED BY <1>2, <2>1, SeqDef
<1>4. Len(p) = Len(q) - 1
  <2>1. Len(p) \in Nat /\ DOMAIN p = 1 .. Len(p) /\ DOMAIN p = 1 .. Len(q) - 1 /\ Len(q) - 1 \in Nat
    BY <1>1, <1>2, <1>3, LenProperties
  <2> QED BY <1>1, <2>1
<1>5. ASSUME NEW i \in Int PROVE Nth(p, i) = IF i < k THEN Nth(q, i) ELSE Nth(q, i + 1)
  BY <1>1, <1>2, <1>4 DEF Nth
<1> QED BY <1>2, <1>3, <1>4, <1>5 DEF p

\* They are what SeqAbs says of sequences.
LEMMA PutIs ==
  ASSUME NEW q \in Seq(Nodes), NEW k \in 0 .. Len(q), NEW n \in Nodes
  PROVE  /\ Put(q, k, n) = SubSeq(q, 1, k) \o <<n>> \o SubSeq(q, k + 1, Len(q))
         /\ k = 0 => Put(q, k, n) = <<n>> \o q
         /\ k = Len(q) => Put(q, k, n) = Append(q, n)
<1>1. Len(q) \in Nat /\ \A i \in 1 .. Len(q) : q[i] \in Nodes
  BY ElementOfSeq, LenProperties
<1>2. /\ Put(q, k, n) \in Seq(Nodes) /\ Len(Put(q, k, n)) = Len(q) + 1
      /\ \A i \in 1 .. Len(q) + 1 :
           Put(q, k, n)[i] = IF i <= k THEN q[i] ELSE IF i = k + 1 THEN n ELSE q[i - 1]
  BY PutFacts
<1> DEFINE a == SubSeq(q, 1, k)
           o == <<n>>
           b == SubSeq(q, k + 1, Len(q))
<1>3. a \in Seq(Nodes) /\ Len(a) = k /\ \A j \in 1 .. k : a[j] = q[j]
  BY <1>1, SubSeqProperties
<1>4. b \in Seq(Nodes) /\ Len(b) = Len(q) - k /\ \A j \in 1 .. Len(q) - k : b[j] = q[k + j]
  BY <1>1, SubSeqProperties
<1>5. o \in Seq(Nodes) /\ Len(o) = 1 /\ o[1] = n
  OBVIOUS
<1> HIDE DEF a, b, o
<1>6. PICK p : p = Put(q, k, n)
  OBVIOUS
<1>7. /\ a \o o \in Seq(Nodes) /\ Len(a \o o) = k + 1
      /\ \A j \in 1 .. k + 1 : (a \o o)[j] = IF j <= k THEN q[j] ELSE n
  <2>1. /\ a \o o \in Seq(Nodes) /\ Len(a \o o) = Len(a) + Len(o)
        /\ \A j \in 1 .. Len(a) + Len(o) : (a \o o)[j] = IF j <= Len(a) THEN a[j] ELSE o[j - Len(a)]
    BY <1>3, <1>5, ConcatProperties
  <2> QED BY <1>1, <1>3, <1>5, <2>1
<1>8. PICK c : c = a \o o
  OBVIOUS
<1>12. /\ c \in Seq(Nodes) /\ Len(c) = k + 1
       /\ \A j \in 1 .. k + 1 : c[j] = IF j <= k THEN q[j] ELSE n
  BY <1>7, <1>8
<1>9. p = c \o b
  <2>1. /\ c \o b \in Seq(Nodes) /\ Len(c \o b) = Len(c) + Len(b)
        /\ \A j \in 1 .. Len(c) + Len(b) : (c \o b)[j] = IF j <= Len(c) THEN c[j] ELSE b[j - Len(c)]
    BY ONLY <1>4, <1>12, ConcatProperties
  <2>2. Len(c) + Len(b) = Len(q) + 1
    BY <1>1, <1>4, <1>12
  <2>3. ASSUME NEW j \in 1 .. Len(q) + 1 PROVE p[j] = (c \o b)[j]
    <3>1. CASE j <= k + 1
      BY <1>1, <1>2, <1>6, <1>12, <2>1, <2>2, <3>1
    <3>2. CASE j > k + 1
      <4>1. j - (k + 1) \in 1 .. Len(q) - k /\ k + (j - (k + 1)) = j - 1
        BY <1>1, <3>2
      <4>2. (c \o b)[j] = b[j - (k + 1)]
        BY <1>1, <1>12, <2>1, <2>2, <3>2
      <4>3. b[j - (k + 1)] = q[j - 1]
        BY <1>4, <4>1
      <4>4. p[j] = q[j - 1]
        BY <1>1, <1>2, <1>6, <3>2
      <4> QED BY <4>2, <4>3, <4>4
    <3>3. j <= k + 1 \/ j > k + 1
      BY <1>1
    <3> QED BY <3>1, <3>2, <3>3
  <2> QED BY <1>2, <1>6, <2>1, <2>2, <2>3, SeqEqual
<1>10. ASSUME k = 0 PROVE p = o \o q
  <2>1. /\ o \o q \in Seq(Nodes) /\ Len(o \o q) = Len(o) + Len(q)
        /\ \A j \in 1 .. Len(o) + Len(q) : (o \o q)[j] = IF j <= Len(o) THEN o[j] ELSE q[j - Len(o)]
    BY <1>5, ConcatProperties
  <2>2. \A j \in 1 .. Len(q) + 1 : p[j] = (o \o q)[j]
    BY <1>1, <1>2, <1>5, <1>6, <1>10, <2>1
  <2>3. Len(o \o q) = Len(p)
    BY <1>1, <1>2, <1>5, <1>6, <2>1
  <2> QED BY <1>2, <1>6, <2>1, <2>2, <2>3, SeqEqual
<1>11. ASSUME k = Len(q) PROVE p = Append(q, n)
  <2>1. /\ Append(q, n) \in Seq(Nodes) /\ Len(Append(q, n)) = Len(q) + 1
        /\ \A i \in 1 .. Len(q) : Append(q, n)[i] = q[i]
        /\ Append(q, n)[Len(q) + 1] = n
    BY AppendProperties
  <2>2. \A j \in 1 .. Len(q) + 1 : p[j] = Append(q, n)[j]
    BY <1>1, <1>2, <1>6, <1>11, <2>1
  <2> QED BY <1>2, <1>6, <2>1, <2>2, SeqEqual
<1> QED BY <1>6, <1>8, <1>9, <1>10, <1>11 DEF a, b, o

\* And of Cut.
LEMMA CutIs ==
  ASSUME NEW q \in Seq(Nodes), NEW k \in 1 .. Len(q)
  PROVE  Cut(q, k) = LAbs!Without(q, k)
<1>1. LAbs!Without(q, k) = RemoveAt(q, k)
  BY DEF LAbs!Without, RemoveAt
<1>2. /\ Cut(q, k) \in Seq(Nodes) /\ Len(Cut(q, k)) = Len(q) - 1
      /\ \A i \in 1 .. Len(q) - 1 : Cut(q, k)[i] = IF i < k THEN q[i] ELSE q[i + 1]
  BY CutFacts
<1>3. /\ RemoveAt(q, k) \in Seq(Nodes) /\ Len(RemoveAt(q, k)) = Len(q) - 1
      /\ \A j \in 1 .. Len(q) - 1 : RemoveAt(q, k)[j] = IF j < k THEN q[j] ELSE q[j + 1]
  BY RemoveAtFacts
<1>4. PICK c, d : c = Cut(q, k) /\ d = RemoveAt(q, k)
  OBVIOUS
<1>5. Len(c) = Len(d) /\ \A i \in 1 .. Len(c) : c[i] = d[i]
  BY <1>2, <1>3, <1>4
<1>6. c = d
  BY <1>2, <1>3, <1>4, <1>5, SeqEqual
<1> QED BY <1>1, <1>4, <1>6

\* They keep the nodes of a row apart.
LEMMA PutApart ==
  ASSUME NEW q \in Seq(Nodes), NEW k \in 0 .. Len(q), NEW n \in Nodes,
         \A i \in 1 .. Len(q) : q[i] # n,
         \A i, j \in 1 .. Len(q) : q[i] = q[j] => i = j
  PROVE  \A i, j \in 1 .. Len(q) + 1 : Put(q, k, n)[i] = Put(q, k, n)[j] => i = j
<1>1. Len(q) \in Nat /\ \A i \in 1 .. Len(q) + 1 :
        Put(q, k, n)[i] = IF i <= k THEN q[i] ELSE IF i = k + 1 THEN n ELSE q[i - 1]
  BY PutFacts, LenProperties
<1>2. PICK p, l : p = Put(q, k, n) /\ l = Len(q)
  OBVIOUS
<1> SUFFICES ASSUME NEW i \in 1 .. l + 1, NEW j \in 1 .. l + 1, p[i] = p[j] PROVE i = j
  BY <1>2
<1>3. l \in Nat /\ k \in 0 .. l /\ i \in Int /\ j \in Int
  BY <1>1, <1>2
<1>4. /\ i <= k => i \in 1 .. l
      /\ i > k + 1 => i - 1 \in 1 .. l
      /\ j <= k => j \in 1 .. l
      /\ j > k + 1 => j - 1 \in 1 .. l
  BY <1>3
<1>5. /\ p[i] = IF i <= k THEN q[i] ELSE IF i = k + 1 THEN n ELSE q[i - 1]
      /\ p[j] = IF j <= k THEN q[j] ELSE IF j = k + 1 THEN n ELSE q[j - 1]
  BY <1>1, <1>2
<1>6. CASE i <= k
  <2>1. CASE j <= k
    BY <1>2, <1>3, <1>4, <1>5, <1>6, <2>1
  <2>2. CASE j = k + 1
    BY <1>2, <1>3, <1>4, <1>5, <1>6, <2>2
  <2>3. CASE j > k + 1
    BY <1>2, <1>3, <1>4, <1>5, <1>6, <2>3
  <2> QED BY <1>3, <2>1, <2>2, <2>3
<1>7. CASE i = k + 1
  <2>1. CASE j <= k
    BY <1>2, <1>3, <1>4, <1>5, <1>7, <2>1
  <2>2. CASE j = k + 1
    BY <1>7, <2>2
  <2>3. CASE j > k + 1
    BY <1>2, <1>3, <1>4, <1>5, <1>7, <2>3
  <2> QED BY <1>3, <2>1, <2>2, <2>3
<1>8. CASE i > k + 1
  <2>1. CASE j <= k
    BY <1>2, <1>3, <1>4, <1>5, <1>8, <2>1
  <2>2. CASE j = k + 1
    BY <1>2, <1>3, <1>4, <1>5, <1>8, <2>2
  <2>3. CASE j > k + 1
    <3>3. ~(i <= k) /\ i # k + 1 /\ ~(j <= k) /\ j # k + 1
      BY <1>3, <1>8, <2>3
    <3>1. p[i] = q[i - 1] /\ p[j] = q[j - 1]
      BY <1>5, <3>3
    <3>2. i - 1 = j - 1
      BY <1>2, <1>4, <1>8, <2>3, <3>1
    <3> QED BY <1>3, <3>2
  <2> QED BY <1>3, <2>1, <2>2, <2>3
<1> QED BY <1>3, <1>6, <1>7, <1>8

\* And so does Cut.
LEMMA CutApart ==
  ASSUME NEW q \in Seq(Nodes), NEW k \in 1 .. Len(q),
         \A i, j \in 1 .. Len(q) : q[i] = q[j] => i = j
  PROVE  \A i, j \in 1 .. Len(q) - 1 : Cut(q, k)[i] = Cut(q, k)[j] => i = j
<1>1. Len(q) \in Nat /\ \A i \in 1 .. Len(q) - 1 : Cut(q, k)[i] = IF i < k THEN q[i] ELSE q[i + 1]
  BY CutFacts, LenProperties
<1>2. PICK p, l : p = Cut(q, k) /\ l = Len(q)
  OBVIOUS
<1> SUFFICES ASSUME NEW i \in 1 .. l - 1, NEW j \in 1 .. l - 1, p[i] = p[j] PROVE i = j
  BY <1>2
<1>3. l \in Nat /\ k \in 1 .. l
  BY <1>1, <1>2
<1>4. /\ i \in Int /\ i \in 1 .. l /\ i + 1 \in 1 .. l
      /\ j \in Int /\ j \in 1 .. l /\ j + 1 \in 1 .. l
  BY <1>3
<1>5. /\ p[i] = IF i < k THEN q[i] ELSE q[i + 1]
      /\ p[j] = IF j < k THEN q[j] ELSE q[j + 1]
  BY <1>1, <1>2
<1>6. CASE i < k /\ j < k
  BY <1>2, <1>4, <1>5, <1>6
<1>7. CASE i < k /\ ~(j < k)
  <2>1. i = j + 1
    BY <1>2, <1>4, <1>5, <1>7
  <2> QED BY <1>3, <1>4, <1>7, <2>1
<1>8. CASE ~(i < k) /\ j < k
  <2>1. i + 1 = j
    BY <1>2, <1>4, <1>5, <1>8
  <2> QED BY <1>3, <1>4, <1>8, <2>1
<1>9. CASE ~(i < k) /\ ~(j < k)
  <2>1. i + 1 = j + 1
    BY <1>2, <1>4, <1>5, <1>9
  <2> QED BY <1>4, <2>1
<1> QED BY <1>6, <1>7, <1>8, <1>9

\* The links T and R of a row that gets n behind its k-th node, from S and P, and the
\* head's first, final and count.
PutLinks(q, t, a, z, c, S, P, k, n, b, y, d, T, R) ==
  /\ k \in 0 .. Len(q) /\ n \in Nodes /\ \A i \in 1 .. Len(q) : q[i] # n
  /\ T[n] = Nth(q, k + 1)
  /\ \A i \in 1 .. Len(q) : T[q[i]] = IF i = k THEN n ELSE S[q[i]]
  /\ t = "DLL" => /\ R[n] = Nth(q, k)
                  /\ \A i \in 1 .. Len(q) : R[q[i]] = IF i = k + 1 THEN n ELSE P[q[i]]
  /\ b = IF k = 0 THEN n ELSE a
  /\ y = IF k = Len(q) THEN n ELSE z
  /\ d = c + 1

LEMMA RowPut ==
  ASSUME NEW q, NEW t, NEW a, NEW z, NEW c, NEW S, NEW P, RowOf(q, t, a, z, c, S, P),
         NEW k, NEW n, NEW b, NEW y, NEW d, NEW T, NEW R,
         PutLinks(q, t, a, z, c, S, P, k, n, b, y, d, T, R)
  PROVE  RowOf(Put(q, k, n), t, b, y, d, T, R)
<1>0. /\ k \in 0 .. Len(q) /\ n \in Nodes /\ \A i \in 1 .. Len(q) : q[i] # n
      /\ T[n] = Nth(q, k + 1)
      /\ \A i \in 1 .. Len(q) : T[q[i]] = IF i = k THEN n ELSE S[q[i]]
      /\ t = "DLL" => /\ R[n] = Nth(q, k)
                      /\ \A i \in 1 .. Len(q) : R[q[i]] = IF i = k + 1 THEN n ELSE P[q[i]]
      /\ b = IF k = 0 THEN n ELSE a
      /\ y = IF k = Len(q) THEN n ELSE z
      /\ d = c + 1
  BY DEF PutLinks
<1> USE <1>0
<1>1. /\ q \in Seq(Nodes) /\ c = Len(q)
      /\ \A i, j \in 1 .. Len(q) : q[i] = q[j] => i = j
      /\ a = Nth(q, 1) /\ z = Nth(q, Len(q))
      /\ \A i \in 1 .. Len(q) : S[q[i]] = Nth(q, i + 1)
      /\ t = "DLL" => \A i \in 1 .. Len(q) : P[q[i]] = Nth(q, i - 1)
  BY DEF RowOf
<1>2. Len(q) \in Nat
  BY <1>1, LenProperties
<1>3. PICK p, l : p = Put(q, k, n) /\ l = Len(q)
  OBVIOUS
<1>4. /\ p \in Seq(Nodes) /\ Len(p) = l + 1 /\ l \in Nat /\ k \in 0 .. l
      /\ \A i \in 1 .. l + 1 : p[i] = IF i <= k THEN q[i] ELSE IF i = k + 1 THEN n ELSE q[i - 1]
      /\ \A i \in Int : Nth(p, i) = IF i <= k THEN Nth(q, i) ELSE IF i = k + 1 THEN n ELSE Nth(q, i - 1)
  <2>1. /\ Put(q, k, n) \in Seq(Nodes) /\ Len(Put(q, k, n)) = Len(q) + 1
        /\ \A i \in 1 .. Len(q) + 1 :
             Put(q, k, n)[i] = IF i <= k THEN q[i] ELSE IF i = k + 1 THEN n ELSE q[i - 1]
        /\ \A i \in Int : Nth(Put(q, k, n), i) =
             IF i <= k THEN Nth(q, i) ELSE IF i = k + 1 THEN n ELSE Nth(q, i - 1)
    BY <1>1, PutFacts
  <2> QED BY <1>2, <1>3, <2>1
<1>5. \A i, j \in 1 .. l + 1 : p[i] = p[j] => i = j
  <2>1. \A i, j \in 1 .. Len(q) + 1 : Put(q, k, n)[i] = Put(q, k, n)[j] => i = j
    BY <1>1, PutApart
  <2> QED BY <1>3, <2>1
<1>6. b = Nth(p, 1)
  <2>1. Nth(p, 1) = IF 1 <= k THEN Nth(q, 1) ELSE IF 1 = k + 1 THEN n ELSE Nth(q, 1 - 1)
    BY <1>4
  <2> QED BY <1>1, <1>4, <2>1
<1>7. y = Nth(p, Len(p))
  <2>1. l + 1 \in Int /\ l + 1 > k /\ (l + 1 = k + 1 <=> k = l) /\ (l + 1) - 1 = l
    BY <1>4
  <2>2. Nth(p, l + 1) = IF l + 1 = k + 1 THEN n ELSE Nth(q, (l + 1) - 1)
    BY <1>4, <2>1
  <2> QED BY <1>1, <1>3, <1>4, <2>1, <2>2
<1>8. ASSUME NEW i \in 1 .. l + 1 PROVE T[p[i]] = Nth(p, i + 1)
  <2>1. i \in Int /\ i + 1 \in Int /\ (i + 1) - 1 = i
    BY <1>4
  <2>2. Nth(p, i + 1) = IF i + 1 <= k THEN Nth(q, i + 1)
                        ELSE IF i + 1 = k + 1 THEN n ELSE Nth(q, i)
    BY <1>4, <2>1
  <2>3. CASE i <= k
    <3>1. p[i] = q[i] /\ i \in 1 .. l
      BY <1>4, <2>3
    <3>2. T[q[i]] = (IF i = k THEN n ELSE S[q[i]]) /\ S[q[i]] = Nth(q, i + 1)
      BY <1>1, <1>3, <3>1
    <3> QED BY <1>4, <2>2, <2>3, <3>1, <3>2
  <2>4. CASE i = k + 1
    <3>1. p[i] = n
      BY <1>4, <2>4
    <3> QED BY <1>4, <2>2, <2>4, <3>1
  <2>5. CASE i > k + 1
    <3>1. p[i] = q[i - 1] /\ i - 1 \in 1 .. l /\ (i - 1) + 1 = i /\ i - 1 # k
      BY <1>4, <2>5
    <3>2. T[q[i - 1]] = S[q[i - 1]] /\ S[q[i - 1]] = Nth(q, (i - 1) + 1)
      BY <1>1, <1>3, <3>1
    <3> QED BY <1>4, <2>2, <2>5, <3>1, <3>2
  <2> QED BY <1>4, <2>3, <2>4, <2>5
<1>9. ASSUME NEW i \in 1 .. l + 1, t = "DLL" PROVE R[p[i]] = Nth(p, i - 1)
  <2>1. i \in Int /\ i - 1 \in Int /\ k + 1 \in Int
    BY <1>4
  <2>2. Nth(p, i - 1) = IF i - 1 <= k THEN Nth(q, i - 1)
                        ELSE IF i - 1 = k + 1 THEN n ELSE Nth(q, (i - 1) - 1)
    BY <1>4, <2>1
  <2>3. CASE i <= k
    <3>1. p[i] = q[i] /\ i \in 1 .. l /\ i # k + 1
      BY <1>4, <2>3
    <3>2. R[q[i]] = P[q[i]] /\ P[q[i]] = Nth(q, i - 1)
      BY <1>1, <1>3, <1>9, <3>1
    <3> QED BY <1>4, <2>2, <2>3, <3>1, <3>2
  <2>4. CASE i = k + 1
    <3>1. p[i] = n /\ i - 1 = k
      BY <1>4, <2>4
    <3> QED BY <1>4, <1>9, <2>2, <2>4, <3>1
  <2>5. CASE i > k + 1
    <3>1. p[i] = q[i - 1] /\ i - 1 \in 1 .. l /\ i - 1 > k
      BY <1>4, <2>5
    <3>2. R[q[i - 1]] = (IF i - 1 = k + 1 THEN n ELSE P[q[i - 1]]) /\ P[q[i - 1]] = Nth(q, (i - 1) - 1)
      BY <1>1, <1>3, <1>9, <3>1
    <3> QED BY <1>4, <2>2, <2>5, <3>1, <3>2
  <2> QED BY <1>4, <2>3, <2>4, <2>5
<1>10. d = Len(p)
  BY <1>1, <1>3, <1>4
<1>11. RowOf(p, t, b, y, d, T, R)
  BY <1>4, <1>5, <1>6, <1>7, <1>8, <1>9, <1>10 DEF RowOf
<1> QED BY <1>3, <1>11

\* And of a row that loses its k-th node.
CutLinks(q, t, a, z, c, S, P, k, b, y, d, T, R) ==
  /\ k \in 1 .. Len(q)
  /\ \A i \in 1 .. Len(q) : i # k => T[q[i]] = IF i = k - 1 THEN Nth(q, k + 1) ELSE S[q[i]]
  /\ t = "DLL" => \A i \in 1 .. Len(q) : i # k =>
                    R[q[i]] = IF i = k + 1 THEN Nth(q, k - 1) ELSE P[q[i]]
  /\ b = IF k = 1 THEN Nth(q, 2) ELSE a
  /\ y = IF k = Len(q) THEN Nth(q, Len(q) - 1) ELSE z
  /\ d = c - 1

LEMMA RowCut ==
  ASSUME NEW q, NEW t, NEW a, NEW z, NEW c, NEW S, NEW P, RowOf(q, t, a, z, c, S, P),
         NEW k, NEW b, NEW y, NEW d, NEW T, NEW R,
         CutLinks(q, t, a, z, c, S, P, k, b, y, d, T, R)
  PROVE  RowOf(Cut(q, k), t, b, y, d, T, R)
<1>0. /\ k \in 1 .. Len(q)
      /\ \A i \in 1 .. Len(q) : i # k => T[q[i]] = IF i = k - 1 THEN Nth(q, k + 1) ELSE S[q[i]]
      /\ t = "DLL" => \A i \in 1 .. Len(q) : i # k =>
                        R[q[i]] = IF i = k + 1 THEN Nth(q, k - 1) ELSE P[q[i]]
      /\ b = IF k = 1 THEN Nth(q, 2) ELSE a
      /\ y = IF k = Len(q) THEN Nth(q, Len(q) - 1) ELSE z
      /\ d = c - 1
  BY DEF CutLinks
<1> USE <1>0
<1>1. /\ q \in Seq(Nodes) /\ c = Len(q)
      /\ \A i, j \in 1 .. Len(q) : q[i] = q[j] => i = j
      /\ a = Nth(q, 1) /\ z = Nth(q, Len(q))
      /\ \A i \in 1 .. Len(q) : S[q[i]] = Nth(q, i + 1)
      /\ t = "DLL" => \A i \in 1 .. Len(q) : P[q[i]] = Nth(q, i - 1)
  BY DEF RowOf
<1>2. Len(q) \in Nat
  BY <1>1, LenProperties
<1>3. PICK p, l : p = Cut(q, k) /\ l = Len(q)
  OBVIOUS
<1>4. /\ p \in Seq(Nodes) /\ Len(p) = l - 1 /\ l \in Nat /\ k \in 1 .. l
      /\ \A i \in 1 .. l - 1 : p[i] = IF i < k THEN q[i] ELSE q[i + 1]
      /\ \A i \in Int : Nth(p, i) = IF i < k THEN Nth(q, i) ELSE Nth(q, i + 1)
  BY <1>1, <1>2, <1>3, CutFacts
<1>12. l \in Nat /\ k \in Int /\ 1 <= k /\ k <= l
  BY <1>4
<1>13. ASSUME NEW i \in 1 .. l - 1 PROVE i \in Int /\ i \in 1 .. l /\ i + 1 \in 1 .. l
  BY <1>12
<1>5. \A i, j \in 1 .. l - 1 : p[i] = p[j] => i = j
  <2>1. \A i, j \in 1 .. Len(q) - 1 : Cut(q, k)[i] = Cut(q, k)[j] => i = j
    BY <1>1, CutApart
  <2> QED BY <1>3, <2>1
<1>6. b = Nth(p, 1)
  <2>2. Nth(p, 1) = IF 1 < k THEN Nth(q, 1) ELSE Nth(q, 1 + 1)
    BY <1>4
  <2>3. 1 + 1 = 2 /\ (1 < k <=> k # 1)
    BY <1>12
  <2>1. Nth(p, 1) = IF k # 1 THEN Nth(q, 1) ELSE Nth(q, 2)
    BY <2>2, <2>3
  <2> QED BY <1>1, <1>12, <2>1
<1>7. y = Nth(p, Len(p))
  <2>1. l - 1 \in Int /\ (l - 1 < k <=> k = l) /\ (l - 1) + 1 = l
    BY <1>4
  <2>2. Nth(p, l - 1) = IF l - 1 < k THEN Nth(q, l - 1) ELSE Nth(q, (l - 1) + 1)
    BY <1>4, <2>1
  <2> QED BY <1>1, <1>3, <1>4, <2>1, <2>2
<1>8. ASSUME NEW i \in 1 .. l - 1 PROVE T[p[i]] = Nth(p, i + 1)
  <2>1. i \in Int /\ i + 1 \in Int /\ i \in 1 .. l /\ i + 1 \in 1 .. l
    BY <1>4
  <2>2. Nth(p, i + 1) = IF i + 1 < k THEN Nth(q, i + 1) ELSE Nth(q, (i + 1) + 1)
    BY <1>4, <2>1
  <2>3. CASE i < k
    <3>4. i # k /\ (i + 1 < k <=> i # k - 1)
      BY <1>12, <2>1, <2>3
    <3>1. p[i] = q[i] /\ i # k /\ (i + 1 < k <=> i # k - 1)
      BY <1>4, <2>3, <3>4
    <3>2. T[q[i]] = (IF i = k - 1 THEN Nth(q, k + 1) ELSE S[q[i]]) /\ S[q[i]] = Nth(q, i + 1)
      BY <1>1, <1>3, <2>1, <3>1
    <3>3. i = k - 1 => (i + 1) + 1 = k + 1
      BY <1>4
    <3> QED BY <2>2, <3>1, <3>2, <3>3
  <2>4. CASE i >= k
    <3>4. i + 1 # k /\ i + 1 # k - 1 /\ ~(i + 1 < k) /\ ~(i < k)
      BY <1>12, <2>1, <2>4
    <3>1. p[i] = q[i + 1] /\ i + 1 # k /\ i + 1 # k - 1 /\ ~(i + 1 < k)
      BY <1>4, <3>4
    <3>2. T[q[i + 1]] = S[q[i + 1]] /\ S[q[i + 1]] = Nth(q, (i + 1) + 1)
      BY <1>1, <1>3, <2>1, <3>1
    <3> QED BY <2>2, <3>1, <3>2
  <2> QED BY <1>4, <2>3, <2>4
<1>9. ASSUME NEW i \in 1 .. l - 1, t = "DLL" PROVE R[p[i]] = Nth(p, i - 1)
  <2>1. i \in Int /\ i - 1 \in Int /\ i \in 1 .. l /\ i + 1 \in 1 .. l /\ (i - 1) + 1 = i
    BY <1>4
  <2>2. Nth(p, i - 1) = IF i - 1 < k THEN Nth(q, i - 1) ELSE Nth(q, (i - 1) + 1)
    BY <1>4, <2>1
  <2>3. CASE i < k
    <3>4. i # k /\ i - 1 < k /\ i # k + 1
      BY <1>12, <2>1, <2>3
    <3>1. p[i] = q[i] /\ i # k /\ i - 1 < k /\ i # k + 1
      BY <1>4, <2>3, <3>4
    <3>2. R[q[i]] = P[q[i]] /\ P[q[i]] = Nth(q, i - 1)
      BY <1>1, <1>3, <1>9, <2>1, <3>1
    <3> QED BY <2>2, <3>1, <3>2
  <2>4. CASE i >= k
    <3>4. i + 1 # k /\ (i + 1 = k + 1 <=> i = k) /\ (i - 1 < k <=> i = k) /\ ~(i < k)
      BY <1>12, <2>1, <2>4
    <3>1. p[i] = q[i + 1] /\ i + 1 # k /\ (i + 1 = k + 1 <=> i = k) /\ (i - 1 < k <=> i = k)
      BY <1>4, <3>4
    <3>2. /\ R[q[i + 1]] = IF i + 1 = k + 1 THEN Nth(q, k - 1) ELSE P[q[i + 1]]
          /\ P[q[i + 1]] = Nth(q, (i + 1) - 1) /\ (i + 1) - 1 = i
      BY <1>1, <1>3, <1>9, <2>1, <3>1
    <3> QED BY <2>1, <2>2, <3>1, <3>2
  <2> QED BY <1>4, <2>3, <2>4
<1>10. d = Len(p)
  BY <1>1, <1>3, <1>4
<1>11. RowOf(p, t, b, y, d, T, R)
  BY <1>4, <1>5, <1>6, <1>7, <1>8, <1>9, <1>10 DEF RowOf
<1> QED BY <1>3, <1>11

\* A row whose links are what they were is what it was.
LEMMA RowSame ==
  ASSUME NEW q, NEW t, NEW a, NEW z, NEW c, NEW S, NEW P, RowOf(q, t, a, z, c, S, P),
         NEW T, NEW R, \A i \in 1 .. Len(q) : T[q[i]] = S[q[i]] /\ (t = "DLL" => R[q[i]] = P[q[i]])
  PROVE  RowOf(q, t, a, z, c, T, R)
BY DEF RowOf

\* What _ll_append_node writes when n joins h's row q behind the k-th node.
LEMMA AppendLinks ==
  ASSUME NEW h \in Lists, NEW q, RowOf(q, type, first[h], final[h], count[h], succ, pred),
         LinkTypes(first, final, count, succ, pred),
         NEW k \in 0 .. Len(q), NEW n \in Nodes, \A i \in 1 .. Len(q) : q[i] # n,
         Len(q) = 0 => succ[n] = Null /\ pred[n] = Null,
         AppendNode(h, n, Nth(q, k))
  PROVE  /\ first' = [first EXCEPT ![h] = IF k = 0 THEN n ELSE first[h]]
         /\ final' = [final EXCEPT ![h] = IF k = Len(q) THEN n ELSE final[h]]
         /\ succ' \in [Nodes -> Nodes \cup {Null}] /\ pred' \in [Nodes -> Nodes \cup {Null}]
         /\ succ'[n] = Nth(q, k + 1)
         /\ \A i \in 1 .. Len(q) : succ'[q[i]] = IF i = k THEN n ELSE succ[q[i]]
         /\ HasLast => /\ pred'[n] = Nth(q, k)
                       /\ \A i \in 1 .. Len(q) : pred'[q[i]] = IF i = k + 1 THEN n ELSE pred[q[i]]
         /\ \A m \in Nodes : m # n /\ (\A i \in 1 .. Len(q) : q[i] # m) =>
              succ'[m] = succ[m] /\ (HasLast => pred'[m] = pred[m])
<1>1. /\ q \in Seq(Nodes) /\ \A i, j \in 1 .. Len(q) : q[i] = q[j] => i = j
      /\ first[h] = Nth(q, 1) /\ final[h] = Nth(q, Len(q))
      /\ \A i \in 1 .. Len(q) : succ[q[i]] = Nth(q, i + 1)
  BY DEF RowOf
<1>2. PICK l, last, after : l = Len(q) /\ last = Nth(q, k) /\ after = Nth(q, k + 1)
  OBVIOUS
<1>3. /\ l \in Nat /\ k \in 0 .. l
      /\ \A i \in 1 .. l : q[i] \in Nodes /\ q[i] # Null /\ q[i] # n
      /\ \A i, j \in 1 .. l : q[i] = q[j] => i = j
  BY <1>1, <1>2, ElementOfSeq, LenProperties, ListAssumption
<1>4. n # Null /\ Null \notin Nodes
  BY ListAssumption
<1>5. /\ first \in [Lists -> Nodes \cup {Null}] /\ final \in [Lists -> Nodes \cup {Null}]
      /\ succ \in [Nodes -> Nodes \cup {Null}] /\ pred \in [Nodes -> Nodes \cup {Null}]
  BY DEF LinkTypes
<1>6. /\ k = 0 => last = Null
      /\ k # 0 => k \in 1 .. l /\ last = q[k] /\ last \in Nodes /\ last # Null /\ last # n
  <2>1. k # 0 => k \in 1 .. l
    BY <1>3
  <2>2. 0 \notin 1 .. l
    BY <1>3
  <2> QED BY <1>2, <1>3, <2>1, <2>2 DEF Nth
<1>7. /\ k = l => after = Null
      /\ k # l => k + 1 \in 1 .. l /\ after = q[k + 1] /\ after \in Nodes /\ after # n
  <2>1. (k # l => k + 1 \in 1 .. l) /\ (k = l => k + 1 \notin 1 .. l)
    BY <1>3
  <2> QED BY <1>2, <1>3, <2>1 DEF Nth
<1>8. last \in {Null, n} <=> k = 0
  BY <1>4, <1>6
<1>9. after = IF k = 0 THEN first[h] ELSE succ[last]
  <2>1. k = 0 => k + 1 = 1
    OBVIOUS
  <2> QED BY <1>1, <1>2, <1>6, <2>1
<1>10. first[h] = Null <=> l = 0
  <2>1. (l # 0 => 1 \in 1 .. l) /\ (l = 0 => 1 \notin 1 .. l)
    BY <1>3
  <2> QED BY <1>1, <1>2, <1>3, <2>1 DEF Nth
<1>11. l # 0 => (final[h] = last <=> k = l)
  <2>1. l # 0 => l \in 1 .. l
    BY <1>3
  <2>2. l # 0 => final[h] = q[l] /\ final[h] # Null
    BY <1>1, <1>2, <1>3, <2>1 DEF Nth
  <2> QED BY <1>3, <1>6, <2>1, <2>2
<1>12. AppendNode(h, n, last)
  BY <1>2
<1>13. CASE l = 0
  <2>1. /\ first' = [first EXCEPT ![h] = n] /\ final' = [final EXCEPT ![h] = n]
        /\ succ' = succ /\ pred' = pred
    BY <1>10, <1>12, <1>13 DEF AppendNode
  <2>2. k = 0 /\ k = Len(q) /\ after = Null /\ last = Null
    BY <1>2, <1>3, <1>6, <1>7, <1>13
  <2>3. succ[n] = Null /\ pred[n] = Null
    BY <1>2, <1>13
  <2>4. 1 .. Len(q) = {}
    BY <1>2, <1>13
  <2> QED BY <1>2, <1>5, <2>1, <2>2, <2>3, <2>4
<1>14. CASE l # 0
  <2>1. /\ first' = IF k = 0 THEN [first EXCEPT ![h] = n] ELSE first
        /\ succ' = IF k = 0 THEN [succ EXCEPT ![n] = after]
                   ELSE [succ EXCEPT ![last] = n, ![n] = after]
        /\ pred' = [m \in Nodes |-> CASE ~HasLast -> pred[m]
                                        [] HasLast /\ m = n -> last
                                        [] HasLast /\ m = after -> n
                                        [] OTHER -> pred[m]]
        /\ final' = [final EXCEPT ![h] = IF final[h] = last THEN n ELSE final[h]]
    BY <1>8, <1>9, <1>10, <1>12, <1>14 DEF AppendNode, FinalAfter
  <2>2. first' = [first EXCEPT ![h] = IF k = 0 THEN n ELSE first[h]]
    BY <1>5, <2>1
  <2>3. final' = [final EXCEPT ![h] = IF k = Len(q) THEN n ELSE final[h]]
    BY <1>2, <1>11, <1>14, <2>1
  <2>4. after \in Nodes \cup {Null} /\ last \in Nodes \cup {Null}
    BY <1>6, <1>7
  <2>5. \A m \in Nodes : succ'[m] = IF m = n THEN after ELSE IF k # 0 /\ m = last THEN n ELSE succ[m]
    BY <1>5, <1>6, <2>1
  <2>6. succ' \in [Nodes -> Nodes \cup {Null}]
    BY <1>5, <2>1, <2>4
  <2>7. HasLast => \A m \in Nodes : pred'[m] = IF m = n THEN last ELSE IF m = after THEN n ELSE pred[m]
    <3> SUFFICES ASSUME HasLast, NEW m \in Nodes
                 PROVE  pred'[m] = IF m = n THEN last ELSE IF m = after THEN n ELSE pred[m]
      OBVIOUS
    <3>1. pred'[m] = CASE ~HasLast -> pred[m]
                       [] HasLast /\ m = n -> last
                       [] HasLast /\ m = after -> n
                       [] OTHER -> pred[m]
      BY <2>1
    <3>2. n # after
      BY <1>4, <1>7
    <3>3. CASE m = n
      BY <3>1, <3>2, <3>3
    <3>4. CASE m = after
      BY <3>1, <3>2, <3>4
    <3>5. CASE m # n /\ m # after
      BY <3>1, <3>5
    <3> QED BY <3>2, <3>3, <3>4, <3>5
  <2>8. pred' \in [Nodes -> Nodes \cup {Null}]
    BY <1>5, <2>1, <2>4
  <2>9. ASSUME NEW i \in 1 .. Len(q)
        PROVE  /\ succ'[q[i]] = IF i = k THEN n ELSE succ[q[i]]
               /\ HasLast => pred'[q[i]] = IF i = k + 1 THEN n ELSE pred[q[i]]
    <3>1. q[i] \in Nodes /\ q[i] # n /\ q[i] # Null /\ i \in 1 .. l
      BY <1>2, <1>3
    <3>2. k # 0 /\ q[i] = last <=> i = k
      BY <1>3, <1>6, <3>1
    <3>3. q[i] = after <=> i = k + 1
      BY <1>3, <1>7, <3>1
    <3> QED BY <2>5, <2>7, <3>1, <3>2, <3>3
  <2>10. ASSUME NEW m \in Nodes, m # n, \A i \in 1 .. Len(q) : q[i] # m
         PROVE  succ'[m] = succ[m] /\ (HasLast => pred'[m] = pred[m])
    <3>1. ~(k # 0 /\ m = last) /\ m # after
      BY <1>2, <1>4, <1>6, <1>7, <2>10
    <3> QED BY <2>5, <2>7, <2>10, <3>1
  <2> QED BY <1>2, <2>2, <2>3, <2>5, <2>6, <2>7, <2>8, <2>9, <2>10
<1> QED BY <1>13, <1>14

\* What _ll_delete_node writes when the k-th node of h's row leaves it.
LEMMA DeleteLinks ==
  ASSUME NEW h \in Lists, NEW q, RowOf(q, type, first[h], final[h], count[h], succ, pred),
         LinkTypes(first, final, count, succ, pred),
         NEW k \in 1 .. Len(q), DeleteNode(h, q[k], Nth(q, k - 1))
  PROVE  /\ first' = [first EXCEPT ![h] = IF k = 1 THEN Nth(q, 2) ELSE first[h]]
         /\ final' = [final EXCEPT ![h] = IF k = Len(q) THEN Nth(q, Len(q) - 1) ELSE final[h]]
         /\ succ' \in [Nodes -> Nodes \cup {Null}] /\ pred' \in [Nodes -> Nodes \cup {Null}]
         /\ \A i \in 1 .. Len(q) : i # k => succ'[q[i]] = IF i = k - 1 THEN Nth(q, k + 1) ELSE succ[q[i]]
         /\ HasLast => \A i \in 1 .. Len(q) : i # k =>
              pred'[q[i]] = IF i = k + 1 THEN Nth(q, k - 1) ELSE pred[q[i]]
         /\ \A m \in Nodes : (\A i \in 1 .. Len(q) : q[i] # m) =>
              succ'[m] = succ[m] /\ pred'[m] = pred[m]
<1>1. /\ q \in Seq(Nodes) /\ \A i, j \in 1 .. Len(q) : q[i] = q[j] => i = j
      /\ first[h] = Nth(q, 1) /\ final[h] = Nth(q, Len(q)) /\ count[h] = Len(q)
      /\ succ[q[k]] = Nth(q, k + 1) /\ (HasLast => pred[q[k]] = Nth(q, k - 1))
  BY DEF RowOf, HasLast
<1>2. PICK l, n, last, after : l = Len(q) /\ n = q[k] /\ last = Nth(q, k - 1) /\ after = Nth(q, k + 1)
  OBVIOUS
<1>3. /\ l \in Nat /\ k \in 1 .. l
      /\ \A i \in 1 .. l : q[i] \in Nodes /\ q[i] # Null
      /\ \A i, j \in 1 .. l : q[i] = q[j] => i = j
  BY <1>1, <1>2, ElementOfSeq, LenProperties, ListAssumption
<1>4. Null \notin Nodes
  BY ListAssumption
<1>5. /\ first \in [Lists -> Nodes \cup {Null}] /\ final \in [Lists -> Nodes \cup {Null}]
      /\ succ \in [Nodes -> Nodes \cup {Null}] /\ pred \in [Nodes -> Nodes \cup {Null}]
  BY DEF LinkTypes
<1>6. /\ k = 1 => last = Null
      /\ k # 1 => k - 1 \in 1 .. l /\ last = q[k - 1] /\ last \in Nodes
  <2>1. (k # 1 => k - 1 \in 1 .. l) /\ (k = 1 => k - 1 \notin 1 .. l)
    BY <1>3
  <2> QED BY <1>2, <1>3, <2>1 DEF Nth
<1>7. /\ k = l => after = Null
      /\ k # l => k + 1 \in 1 .. l /\ after = q[k + 1] /\ after \in Nodes
  <2>1. (k # l => k + 1 \in 1 .. l) /\ (k = l => k + 1 \notin 1 .. l)
    BY <1>3
  <2> QED BY <1>2, <1>3, <2>1 DEF Nth
<1>8. last = Null <=> k = 1
  BY <1>4, <1>6
<1>9. succ[n] = after /\ (HasLast => pred[n] = last)
  BY <1>1, <1>2
<1>10. final[h] = n <=> k = l
  <2>1. l \in 1 .. l
    BY <1>3
  <2> QED BY <1>1, <1>2, <1>3, <2>1 DEF Nth
<1>11. DeleteNode(h, n, last)
  BY <1>2
<1>12. count[h] = 1 <=> l = 1
  BY <1>1, <1>2
<1>13. (k = 1 => after = Nth(q, 2)) /\ (k = l => last = Nth(q, Len(q) - 1))
  <2>1. k = 1 => k + 1 = 2
    OBVIOUS
  <2> QED BY <1>2, <2>1
<1>14. CASE l = 1
  <2>1. /\ first' = [first EXCEPT ![h] = Null] /\ final' = [final EXCEPT ![h] = Null]
        /\ succ' = succ /\ pred' = pred
    BY <1>11, <1>12, <1>14 DEF DeleteNode
  <2>2. k = 1 /\ k = Len(q) /\ after = Null /\ last = Null
    BY <1>2, <1>3, <1>6, <1>7, <1>14
  <2>3. \A i \in 1 .. Len(q) : i = k
    BY <1>2, <1>3, <1>14
  <2> QED BY <1>5, <1>13, <1>2, <2>1, <2>2, <2>3
<1>15. CASE l # 1
  <2>1. /\ first' = IF k = 1 THEN [first EXCEPT ![h] = after] ELSE first
        /\ succ' = IF k = 1 THEN succ ELSE [succ EXCEPT ![last] = after]
        /\ pred' = IF HasLast /\ after # Null THEN [pred EXCEPT ![after] = last] ELSE pred
        /\ final' = IF k = l THEN [final EXCEPT ![h] = last] ELSE final
    BY <1>8, <1>9, <1>10, <1>11, <1>12, <1>15 DEF DeleteNode
  <2>2. first' = [first EXCEPT ![h] = IF k = 1 THEN Nth(q, 2) ELSE first[h]]
    BY <1>5, <1>13, <2>1
  <2>3. final' = [final EXCEPT ![h] = IF k = Len(q) THEN Nth(q, Len(q) - 1) ELSE final[h]]
    BY <1>2, <1>5, <1>13, <2>1
  <2>4. after \in Nodes \cup {Null} /\ last \in Nodes \cup {Null}
    BY <1>6, <1>7
  <2>5. \A m \in Nodes : succ'[m] = IF k # 1 /\ m = last THEN after ELSE succ[m]
    BY <1>5, <1>6, <2>1
  <2>6. succ' \in [Nodes -> Nodes \cup {Null}]
    BY <1>5, <2>1, <2>4
  <2>7. \A m \in Nodes : pred'[m] = IF HasLast /\ m = after THEN last ELSE pred[m]
    BY <1>4, <1>5, <1>7, <2>1
  <2>8. pred' \in [Nodes -> Nodes \cup {Null}]
    BY <1>5, <2>1, <2>4
  <2>9. ASSUME NEW i \in 1 .. Len(q), i # k
        PROVE  /\ succ'[q[i]] = IF i = k - 1 THEN after ELSE succ[q[i]]
               /\ HasLast => pred'[q[i]] = IF i = k + 1 THEN last ELSE pred[q[i]]
    <3>1. q[i] \in Nodes /\ q[i] # Null /\ i \in 1 .. l
      BY <1>2, <1>3
    <3>2. k # 1 /\ q[i] = last <=> i = k - 1
      BY <1>3, <1>6, <3>1
    <3>3. q[i] = after <=> i = k + 1
      BY <1>3, <1>7, <3>1
    <3> QED BY <2>5, <2>7, <3>1, <3>2, <3>3
  <2>10. ASSUME NEW m \in Nodes, \A i \in 1 .. Len(q) : q[i] # m
         PROVE  succ'[m] = succ[m] /\ pred'[m] = pred[m]
    <3>1. ~(k # 1 /\ m = last) /\ m # after
      BY <1>2, <1>4, <1>6, <1>7, <2>10
    <3> QED BY <2>5, <2>7, <3>1
  <2> QED BY <1>2, <2>2, <2>3, <2>5, <2>6, <2>7, <2>8, <2>9, <2>10
<1> QED BY <1>14, <1>15

\* T and R are what S and P were at the nodes of the rows but h's, and p has none of those.
Aside(F, t, h, p, S, P, T, R) ==
  /\ T \in [Nodes -> Nodes \cup {Null}] /\ R \in [Nodes -> Nodes \cup {Null}]
  /\ \A g \in Lists : g # h => \A i \in 1 .. Len(F[g]) :
       /\ T[F[g][i]] = S[F[g][i]] /\ (t = "DLL" => R[F[g][i]] = P[F[g][i]])
       /\ \A j \in 1 .. Len(p) : F[g][i] # p[j]

\* The rows when h's has become p.
LEMMA RowsChange ==
  ASSUME NEW F, NEW t, NEW A, NEW Z, NEW C, NEW S, NEW P, Rows(F, t, A, Z, C, S, P),
         NEW h \in Lists, NEW p, NEW b, NEW y, NEW d, NEW T, NEW R,
         RowOf(p, t, b, y, d, T, R), Aside(F, t, h, p, S, P, T, R)
  PROVE  Rows([F EXCEPT ![h] = p], t, [A EXCEPT ![h] = b], [Z EXCEPT ![h] = y],
              [C EXCEPT ![h] = d], T, R)
<1>0. /\ T \in [Nodes -> Nodes \cup {Null}] /\ R \in [Nodes -> Nodes \cup {Null}]
      /\ \A g \in Lists : g # h => \A i \in 1 .. Len(F[g]) :
           /\ T[F[g][i]] = S[F[g][i]] /\ (t = "DLL" => R[F[g][i]] = P[F[g][i]])
           /\ \A j \in 1 .. Len(p) : F[g][i] # p[j]
  BY DEF Aside
<1> USE <1>0
<1>1. /\ F \in [Lists -> Seq(Nodes)] /\ LinkTypes(A, Z, C, S, P)
      /\ \A g \in Lists : RowOf(F[g], t, A[g], Z[g], C[g], S, P)
      /\ \A g, e \in Lists : g # e =>
           \A i \in 1 .. Len(F[g]), j \in 1 .. Len(F[e]) : F[g][i] # F[e][j]
  BY DEF Rows
<1>2. /\ A \in [Lists -> Nodes \cup {Null}] /\ Z \in [Lists -> Nodes \cup {Null}]
      /\ C \in [Lists -> Nat]
  BY <1>1 DEF LinkTypes
<1>3. p \in Seq(Nodes) /\ d = Len(p) /\ b = Nth(p, 1) /\ y = Nth(p, Len(p))
  BY DEF RowOf
<1>4. b \in Nodes \cup {Null} /\ y \in Nodes \cup {Null} /\ d \in Nat
  BY <1>3, ElementOfSeq, LenProperties DEF Nth
<1> DEFINE G == [F EXCEPT ![h] = p]
<1>5. G \in [Lists -> Seq(Nodes)] /\ G[h] = p /\ \A g \in Lists : g # h => G[g] = F[g]
  BY <1>1, <1>3
<1>6. LinkTypes([A EXCEPT ![h] = b], [Z EXCEPT ![h] = y], [C EXCEPT ![h] = d], T, R)
  BY <1>2, <1>4 DEF LinkTypes
<1> HIDE DEF G
<1>7. ASSUME NEW g \in Lists
      PROVE  RowOf(G[g], t, [A EXCEPT ![h] = b][g], [Z EXCEPT ![h] = y][g],
                   [C EXCEPT ![h] = d][g], T, R)
  <2>1. CASE g = h
    <3>1. [A EXCEPT ![h] = b][g] = b /\ [Z EXCEPT ![h] = y][g] = y /\ [C EXCEPT ![h] = d][g] = d
      BY <1>2, <2>1
    <3> QED BY <1>5, <2>1, <3>1
  <2>2. CASE g # h
    <3>1. /\ [A EXCEPT ![h] = b][g] = A[g] /\ [Z EXCEPT ![h] = y][g] = Z[g]
          /\ [C EXCEPT ![h] = d][g] = C[g] /\ G[g] = F[g]
      BY <1>2, <1>5, <2>2
    <3>2. RowOf(F[g], t, A[g], Z[g], C[g], S, P)
      BY <1>1
    <3>3. PICK q, a, z, c : q = F[g] /\ a = A[g] /\ z = Z[g] /\ c = C[g]
      OBVIOUS
    <3>4. \A i \in 1 .. Len(q) : T[q[i]] = S[q[i]] /\ (t = "DLL" => R[q[i]] = P[q[i]])
      BY <2>2, <3>3
    <3>5. RowOf(q, t, a, z, c, S, P)
      BY <3>2, <3>3
    <3>6. RowOf(q, t, a, z, c, T, R)
      BY ONLY <3>4, <3>5, RowSame
    <3> QED BY <3>1, <3>3, <3>6
  <2> QED BY <2>1, <2>2
<1>8. ASSUME NEW g \in Lists, NEW e \in Lists, g # e,
             NEW i \in 1 .. Len(G[g]), NEW j \in 1 .. Len(G[e])
      PROVE  G[g][i] # G[e][j]
  <2>1. CASE g = h
    BY <1>5, <1>8, <2>1
  <2>2. CASE e = h
    BY <1>5, <1>8, <2>2
  <2>3. CASE g # h /\ e # h
    BY <1>1, <1>5, <1>8, <2>3
  <2> QED BY <2>1, <2>2, <2>3
<1>9. Rows(G, t, [A EXCEPT ![h] = b], [Z EXCEPT ![h] = y], [C EXCEPT ![h] = d], T, R)
  BY <1>5, <1>6, <1>7, <1>8 DEF Rows
<1> QED BY <1>9 DEF G

\* The state of the lists when F are their rows, the invariant, and a node that is in none.
State(F) == Rows(F, type, first, final, count, succ, pred)
LInv == State([h \in Lists |-> Chain(h)])
Outside(F, n) == \A g \in Lists : \A i \in 1 .. Len(F[g]) : F[g][i] # n

\* A node joins h behind the k-th.
LEMMA JoinRows ==
  ASSUME NEW F, State(F), NEW h \in Lists, NEW k \in 0 .. Len(F[h]), NEW n \in Nodes,
         Outside(F, n), Len(F[h]) = 0 => succ[n] = Null /\ pred[n] = Null,
         AppendNode(h, n, Nth(F[h], k)), Grow(h)
  PROVE  State([F EXCEPT ![h] = Put(@, k, n)])'
<1>1. /\ F \in [Lists -> Seq(Nodes)] /\ LinkTypes(first, final, count, succ, pred)
      /\ \A g \in Lists : RowOf(F[g], type, first[g], final[g], count[g], succ, pred)
      /\ \A g, e \in Lists : g # e =>
           \A i \in 1 .. Len(F[g]), j \in 1 .. Len(F[e]) : F[g][i] # F[e][j]
      /\ Rows(F, type, first, final, count, succ, pred)
  BY DEF State, Rows
<1>2. PICK q, p : q = F[h] /\ p = Put(q, k, n)
  OBVIOUS
<1>3. RowOf(q, type, first[h], final[h], count[h], succ, pred) /\ q \in Seq(Nodes) /\ k \in 0 .. Len(q)
  BY <1>1, <1>2
<1>4. (\A i \in 1 .. Len(q) : q[i] # n) /\ (Len(q) = 0 => succ[n] = Null /\ pred[n] = Null)
  BY <1>2 DEF Outside
<1>5. AppendNode(h, n, Nth(q, k))
  BY <1>2
<1>6. /\ first' = [first EXCEPT ![h] = IF k = 0 THEN n ELSE first[h]]
      /\ final' = [final EXCEPT ![h] = IF k = Len(q) THEN n ELSE final[h]]
      /\ succ' \in [Nodes -> Nodes \cup {Null}] /\ pred' \in [Nodes -> Nodes \cup {Null}]
      /\ succ'[n] = Nth(q, k + 1)
      /\ \A i \in 1 .. Len(q) : succ'[q[i]] = IF i = k THEN n ELSE succ[q[i]]
      /\ HasLast => /\ pred'[n] = Nth(q, k)
                    /\ \A i \in 1 .. Len(q) : pred'[q[i]] = IF i = k + 1 THEN n ELSE pred[q[i]]
      /\ \A m \in Nodes : m # n /\ (\A i \in 1 .. Len(q) : q[i] # m) =>
           succ'[m] = succ[m] /\ (HasLast => pred'[m] = pred[m])
  BY <1>1, <1>3, <1>4, <1>5, AppendLinks
<1>7. type' = type /\ count' = [count EXCEPT ![h] = count[h] + 1]
  BY DEF Grow
<1>8. PICK t, a, z, c, S, P, b, y, d, T, R :
        /\ t = type /\ a = first[h] /\ z = final[h] /\ c = count[h] /\ S = succ /\ P = pred
        /\ b = (IF k = 0 THEN n ELSE a) /\ y = (IF k = Len(q) THEN n ELSE z) /\ d = c + 1
        /\ T = succ' /\ R = pred'
  OBVIOUS
<1>9. RowOf(p, t, b, y, d, T, R)
  <2>1. RowOf(q, t, a, z, c, S, P) /\ (\A i \in 1 .. Len(q) : q[i] # n)
    BY <1>3, <1>4, <1>8
  <2>2. T[n] = Nth(q, k + 1) /\ \A i \in 1 .. Len(q) : T[q[i]] = IF i = k THEN n ELSE S[q[i]]
    BY <1>6, <1>8
  <2>3. t = "DLL" => /\ R[n] = Nth(q, k)
                     /\ \A i \in 1 .. Len(q) : R[q[i]] = IF i = k + 1 THEN n ELSE P[q[i]]
    BY <1>6, <1>8 DEF HasLast
  <2>4. /\ b = (IF k = 0 THEN n ELSE a) /\ y = (IF k = Len(q) THEN n ELSE z) /\ d = c + 1
        /\ k \in 0 .. Len(q) /\ n \in Nodes
    BY <1>3, <1>8
  <2>6. PutLinks(q, t, a, z, c, S, P, k, n, b, y, d, T, R)
    BY ONLY <2>1, <2>2, <2>3, <2>4 DEF PutLinks
  <2>5. RowOf(Put(q, k, n), t, b, y, d, T, R)
    BY ONLY <2>1, <2>6, RowPut
  <2> QED BY <1>2, <2>5
<1>10. ASSUME NEW g \in Lists, g # h, NEW i \in 1 .. Len(F[g])
       PROVE  /\ T[F[g][i]] = S[F[g][i]] /\ (t = "DLL" => R[F[g][i]] = P[F[g][i]])
              /\ \A j \in 1 .. Len(p) : F[g][i] # p[j]
  <2>1. PICK m : m = F[g][i]
    OBVIOUS
  <2>2. m \in Nodes /\ m # n /\ \A j \in 1 .. Len(q) : q[j] # m
    BY <1>1, <1>2, <1>10, <2>1, ElementOfSeq DEF Outside
  <2>3. succ'[m] = succ[m] /\ (HasLast => pred'[m] = pred[m])
    BY <1>6, <2>2
  <2>4. /\ Len(p) = Len(q) + 1 /\ Len(q) \in Nat
        /\ \A j \in 1 .. Len(q) + 1 : p[j] = IF j <= k THEN q[j] ELSE IF j = k + 1 THEN n ELSE q[j - 1]
    <3>1. /\ Len(Put(q, k, n)) = Len(q) + 1
          /\ \A j \in 1 .. Len(q) + 1 :
               Put(q, k, n)[j] = IF j <= k THEN q[j] ELSE IF j = k + 1 THEN n ELSE q[j - 1]
      BY <1>3, PutFacts
    <3> QED BY <1>2, <1>3, <3>1, LenProperties
  <2>5. ASSUME NEW j \in 1 .. Len(p) PROVE m # p[j]
    <3>1. /\ j <= k => j \in 1 .. Len(q)
          /\ ~(j <= k) /\ j # k + 1 => j - 1 \in 1 .. Len(q)
      BY <1>3, <2>4
    <3> QED BY <2>2, <2>4, <3>1
  <2> QED BY <1>8, <2>1, <2>3, <2>5 DEF HasLast
<1>11. PICK A, Z, C, E : A = first /\ Z = final /\ C = count /\ E = [F EXCEPT ![h] = p]
  OBVIOUS
<1>12. Rows(E, t, [A EXCEPT ![h] = b], [Z EXCEPT ![h] = y], [C EXCEPT ![h] = d], T, R)
  <2>1. Rows(F, t, A, Z, C, S, P)
    BY <1>1, <1>8, <1>11
  <2>2. T \in [Nodes -> Nodes \cup {Null}] /\ R \in [Nodes -> Nodes \cup {Null}]
    BY <1>6, <1>8
  <2>3. h \in Lists
    OBVIOUS
  <2>4. \A g \in Lists : g # h => \A i \in 1 .. Len(F[g]) :
          /\ T[F[g][i]] = S[F[g][i]] /\ (t = "DLL" => R[F[g][i]] = P[F[g][i]])
          /\ \A j \in 1 .. Len(p) : F[g][i] # p[j]
    BY <1>10
  <2>6. Aside(F, t, h, p, S, P, T, R)
    BY ONLY <2>2, <2>4 DEF Aside
  <2>5. Rows([F EXCEPT ![h] = p], t, [A EXCEPT ![h] = b], [Z EXCEPT ![h] = y],
             [C EXCEPT ![h] = d], T, R)
    BY ONLY <1>9, <2>1, <2>3, <2>6, RowsChange
  <2> QED BY <1>11, <2>5
<1>13. /\ first' = [A EXCEPT ![h] = b] /\ final' = [Z EXCEPT ![h] = y]
       /\ count' = [C EXCEPT ![h] = d] /\ succ' = T /\ pred' = R /\ type' = t
  BY <1>6, <1>7, <1>8, <1>11
<1>14. Rows(E, type', first', final', count', succ', pred')
  BY <1>12, <1>13
<1>15. E = [F EXCEPT ![h] = Put(@, k, n)]
  BY <1>2, <1>11
<1>16. State(E)'
  BY <1>14 DEF State
<1> QED BY <1>15, <1>16

\* The chains are the rows.
LEMMA ChainsAre ==
  ASSUME NEW F, State(F)
  PROVE  F = [h \in Lists |-> Chain(h)] /\ \A h \in Lists : Chain(h) = F[h]
<1>1. \A h \in Lists : Chain(h) = ChainOf(first[h], succ)
  BY DEF Chain, ChainOf
<1>2. F = [h \in Lists |-> ChainOf(first[h], succ)]
  BY RowsAre DEF State
<1> QED BY <1>1, <1>2

\* The node before the k-th.
LEMMA BeforeIs ==
  ASSUME NEW F, State(F), NEW h \in Lists, NEW k \in 1 .. Len(F[h])
  PROVE  Before(h, F[h][k]) = Nth(F[h], k - 1)
<1>1. PICK q : q = F[h]
  OBVIOUS
<1>2. RowOf(q, type, first[h], final[h], count[h], succ, pred) /\ Chain(h) = q
  BY <1>1, ChainsAre DEF State, Rows
<1>3. /\ q \in Seq(Nodes) /\ \A i, j \in 1 .. Len(q) : q[i] = q[j] => i = j
      /\ first[h] = Nth(q, 1)
      /\ \A i \in 1 .. Len(q) : succ[q[i]] = Nth(q, i + 1)
      /\ HasLast => \A i \in 1 .. Len(q) : pred[q[i]] = Nth(q, i - 1)
  BY <1>2 DEF RowOf, HasLast
<1>4. /\ Len(q) \in Nat /\ k \in 1 .. Len(q) /\ \A i \in 1 .. Len(q) : q[i] \in Nodes /\ q[i] # Null
      /\ DOMAIN q = 1 .. Len(q)
  BY <1>1, <1>3, ElementOfSeq, LenProperties, ListAssumption
<1>5. CASE HasLast
  BY <1>1, <1>3, <1>4, <1>5 DEF Before
<1>6. first[h] = q[k] <=> k = 1
  <2>1. 1 \in 1 .. Len(q)
    BY <1>4
  <2> QED BY <1>3, <1>4, <2>1 DEF Nth
<1>7. CASE ~HasLast /\ k = 1
  <2>1. Before(h, q[k]) = Null
    BY <1>6, <1>7 DEF Before
  <2>2. k - 1 \notin 1 .. Len(q)
    BY <1>7
  <2> QED BY <1>1, <2>1, <2>2 DEF Nth
<1>8. CASE ~HasLast /\ k # 1
  <2>1. Before(h, q[k]) = CHOOSE m \in Range(q) : succ[m] = q[k]
    BY <1>2, <1>6, <1>8 DEF Before
  <2>2. k - 1 \in 1 .. Len(q) /\ (k - 1) + 1 = k
    BY <1>4, <1>8
  <2>3. Range(q) = {q[i] : i \in 1 .. Len(q)}
    BY <1>4 DEF Range
  <2>4. q[k - 1] \in Range(q) /\ succ[q[k - 1]] = q[k]
    BY <1>3, <1>4, <2>2, <2>3 DEF Nth
  <2>5. ASSUME NEW m \in Range(q), succ[m] = q[k] PROVE m = q[k - 1]
    <3>1. PICK i \in 1 .. Len(q) : m = q[i]
      BY <2>3
    <3>2. Nth(q, i + 1) = q[k]
      BY <1>3, <2>5, <3>1
    <3>3. i + 1 \in 1 .. Len(q) /\ q[i + 1] = q[k]
      BY <1>4, <3>2 DEF Nth
    <3>4. i + 1 = k
      BY <1>3, <1>4, <3>3
    <3>5. i = k - 1
      BY <1>4, <3>4
    <3> QED BY <3>1, <3>5
  <2>6. PICK r : r = Range(q)
    OBVIOUS
  <2>7. (CHOOSE m \in r : succ[m] = q[k]) = q[k - 1]
    <3>1. q[k - 1] \in r /\ succ[q[k - 1]] = q[k] /\ \A m \in r : succ[m] = q[k] => m = q[k - 1]
      BY <2>4, <2>5, <2>6
    <3> QED BY ONLY <3>1
  <2>8. Before(h, q[k]) = q[k - 1]
    BY <2>1, <2>6, <2>7
  <2> QED BY <1>1, <2>2, <2>8 DEF Nth
<1> QED BY <1>5, <1>7, <1>8

\* The k-th node of h leaves.
LEMMA LeaveRows ==
  ASSUME NEW F, State(F), NEW h \in Lists, NEW k \in 1 .. Len(F[h]), Shrink(h, F[h][k])
  PROVE  State([F EXCEPT ![h] = Cut(@, k)])'
<1>1. /\ F \in [Lists -> Seq(Nodes)] /\ LinkTypes(first, final, count, succ, pred)
      /\ \A g \in Lists : RowOf(F[g], type, first[g], final[g], count[g], succ, pred)
      /\ \A g, e \in Lists : g # e =>
           \A i \in 1 .. Len(F[g]), j \in 1 .. Len(F[e]) : F[g][i] # F[e][j]
      /\ Rows(F, type, first, final, count, succ, pred)
  BY DEF State, Rows
<1>2. PICK q, p : q = F[h] /\ p = Cut(q, k)
  OBVIOUS
<1>3. RowOf(q, type, first[h], final[h], count[h], succ, pred) /\ q \in Seq(Nodes) /\ k \in 1 .. Len(q)
  BY <1>1, <1>2
<1>4. DeleteNode(h, q[k], Nth(q, k - 1))
  <2>1. DeleteNode(h, F[h][k], Before(h, F[h][k]))
    BY DEF Shrink
  <2> QED BY <1>2, <2>1, BeforeIs
<1>6. /\ first' = [first EXCEPT ![h] = IF k = 1 THEN Nth(q, 2) ELSE first[h]]
      /\ final' = [final EXCEPT ![h] = IF k = Len(q) THEN Nth(q, Len(q) - 1) ELSE final[h]]
      /\ succ' \in [Nodes -> Nodes \cup {Null}] /\ pred' \in [Nodes -> Nodes \cup {Null}]
      /\ \A i \in 1 .. Len(q) : i # k => succ'[q[i]] = IF i = k - 1 THEN Nth(q, k + 1) ELSE succ[q[i]]
      /\ HasLast => \A i \in 1 .. Len(q) : i # k =>
           pred'[q[i]] = IF i = k + 1 THEN Nth(q, k - 1) ELSE pred[q[i]]
      /\ \A m \in Nodes : (\A i \in 1 .. Len(q) : q[i] # m) =>
           succ'[m] = succ[m] /\ pred'[m] = pred[m]
  BY <1>1, <1>3, <1>4, DeleteLinks
<1>7. type' = type /\ count' = [count EXCEPT ![h] = count[h] - 1]
  BY DEF Shrink
<1>8. PICK t, a, z, c, S, P, b, y, d, T, R :
        /\ t = type /\ a = first[h] /\ z = final[h] /\ c = count[h] /\ S = succ /\ P = pred
        /\ b = (IF k = 1 THEN Nth(q, 2) ELSE a)
        /\ y = (IF k = Len(q) THEN Nth(q, Len(q) - 1) ELSE z) /\ d = c - 1
        /\ T = succ' /\ R = pred'
  OBVIOUS
<1>9. RowOf(p, t, b, y, d, T, R)
  <2>1. RowOf(q, t, a, z, c, S, P)
    BY <1>3, <1>8
  <2>2. \A i \in 1 .. Len(q) : i # k => T[q[i]] = IF i = k - 1 THEN Nth(q, k + 1) ELSE S[q[i]]
    BY <1>6, <1>8
  <2>3. t = "DLL" => \A i \in 1 .. Len(q) : i # k =>
          R[q[i]] = IF i = k + 1 THEN Nth(q, k - 1) ELSE P[q[i]]
    BY <1>6, <1>8 DEF HasLast
  <2>4. /\ b = (IF k = 1 THEN Nth(q, 2) ELSE a)
        /\ y = (IF k = Len(q) THEN Nth(q, Len(q) - 1) ELSE z) /\ d = c - 1
        /\ k \in 1 .. Len(q)
    BY <1>3, <1>8
  <2>6. CutLinks(q, t, a, z, c, S, P, k, b, y, d, T, R)
    BY ONLY <2>2, <2>3, <2>4 DEF CutLinks
  <2>5. RowOf(Cut(q, k), t, b, y, d, T, R)
    BY ONLY <2>1, <2>6, RowCut
  <2> QED BY <1>2, <2>5
<1>10. ASSUME NEW g \in Lists, g # h, NEW i \in 1 .. Len(F[g])
       PROVE  /\ T[F[g][i]] = S[F[g][i]] /\ (t = "DLL" => R[F[g][i]] = P[F[g][i]])
              /\ \A j \in 1 .. Len(p) : F[g][i] # p[j]
  <2>1. PICK m : m = F[g][i]
    OBVIOUS
  <2>2. m \in Nodes /\ \A j \in 1 .. Len(q) : q[j] # m
    BY <1>1, <1>2, <1>10, <2>1, ElementOfSeq
  <2>3. succ'[m] = succ[m] /\ pred'[m] = pred[m]
    BY <1>6, <2>2
  <2>4. /\ Len(p) = Len(q) - 1 /\ Len(q) \in Nat
        /\ \A j \in 1 .. Len(q) - 1 : p[j] = IF j < k THEN q[j] ELSE q[j + 1]
    <3>1. /\ Len(Cut(q, k)) = Len(q) - 1
          /\ \A j \in 1 .. Len(q) - 1 : Cut(q, k)[j] = IF j < k THEN q[j] ELSE q[j + 1]
      BY <1>3, CutFacts
    <3> QED BY <1>2, <1>3, <3>1, LenProperties
  <2>5. ASSUME NEW j \in 1 .. Len(p) PROVE m # p[j]
    <3>1. j \in 1 .. Len(q) /\ j + 1 \in 1 .. Len(q)
      BY <2>4
    <3> QED BY <2>2, <2>4, <3>1
  <2> QED BY <1>8, <2>1, <2>3, <2>5
<1>11. PICK A, Z, C, E : A = first /\ Z = final /\ C = count /\ E = [F EXCEPT ![h] = p]
  OBVIOUS
<1>12. Rows(E, t, [A EXCEPT ![h] = b], [Z EXCEPT ![h] = y], [C EXCEPT ![h] = d], T, R)
  <2>1. Rows(F, t, A, Z, C, S, P)
    BY <1>1, <1>8, <1>11
  <2>2. T \in [Nodes -> Nodes \cup {Null}] /\ R \in [Nodes -> Nodes \cup {Null}]
    BY <1>6, <1>8
  <2>3. h \in Lists
    OBVIOUS
  <2>4. \A g \in Lists : g # h => \A i \in 1 .. Len(F[g]) :
          /\ T[F[g][i]] = S[F[g][i]] /\ (t = "DLL" => R[F[g][i]] = P[F[g][i]])
          /\ \A j \in 1 .. Len(p) : F[g][i] # p[j]
    BY <1>10
  <2>6. Aside(F, t, h, p, S, P, T, R)
    BY ONLY <2>2, <2>4 DEF Aside
  <2>5. Rows([F EXCEPT ![h] = p], t, [A EXCEPT ![h] = b], [Z EXCEPT ![h] = y],
             [C EXCEPT ![h] = d], T, R)
    BY ONLY <1>9, <2>1, <2>3, <2>6, RowsChange
  <2> QED BY <1>11, <2>5
<1>13. /\ first' = [A EXCEPT ![h] = b] /\ final' = [Z EXCEPT ![h] = y]
       /\ count' = [C EXCEPT ![h] = d] /\ succ' = T /\ pred' = R /\ type' = t
  BY <1>6, <1>7, <1>8, <1>11
<1>14. Rows(E, type', first', final', count', succ', pred')
  BY <1>12, <1>13
<1>15. E = [F EXCEPT ![h] = Cut(@, k)]
  BY <1>2, <1>11
<1>16. State(E)'
  BY <1>14 DEF State
<1> QED BY <1>15, <1>16

LEMMA ChainsAreNext ==
  ASSUME NEW F, State(F)'
  PROVE  F = [h \in Lists |-> Chain(h)'] /\ \A h \in Lists : Chain(h)' = F[h]
<1>1. \A h \in Lists : Chain(h)' = ChainOf(first'[h], succ')
  BY DEF Chain, ChainOf
<1>2. Rows(F, type', first', final', count', succ', pred')
  BY DEF State
<1>3. F = [h \in Lists |-> ChainOf(first'[h], succ')]
  BY ONLY <1>2, RowsAre
<1> QED BY <1>1, <1>3

\* What the calls' conditions say of the rows.
LEMMA RowFacts ==
  ASSUME NEW F, State(F)
  PROVE  /\ F \in [Lists -> Seq(Nodes)]
         /\ \A h \in Lists :
              /\ count[h] = Len(F[h]) /\ Len(F[h]) \in Nat /\ Chain(h) = F[h]
              /\ first[h] = Nth(F[h], 1) /\ final[h] = Nth(F[h], Len(F[h]))
              /\ Range(F[h]) = {F[h][i] : i \in 1 .. Len(F[h])}
              /\ DOMAIN F[h] = 1 .. Len(F[h])
              /\ \A n \in Nodes : Exists(h, n) <=> \E k \in 1 .. Len(F[h]) : n = F[h][k]
         /\ \A n \in Nodes : InNone(n) => Outside(F, n)
<1>1. F \in [Lists -> Seq(Nodes)]
  BY DEF State, Rows
<1>2. ASSUME NEW h \in Lists
      PROVE  /\ count[h] = Len(F[h]) /\ Len(F[h]) \in Nat /\ Chain(h) = F[h]
             /\ first[h] = Nth(F[h], 1) /\ final[h] = Nth(F[h], Len(F[h]))
             /\ Range(F[h]) = {F[h][i] : i \in 1 .. Len(F[h])}
             /\ DOMAIN F[h] = 1 .. Len(F[h])
             /\ \A n \in Nodes : Exists(h, n) <=> \E k \in 1 .. Len(F[h]) : n = F[h][k]
  <2>1. RowOf(F[h], type, first[h], final[h], count[h], succ, pred) /\ Chain(h) = F[h]
    BY ChainsAre DEF State, Rows
  <2>2. /\ count[h] = Len(F[h]) /\ first[h] = Nth(F[h], 1) /\ final[h] = Nth(F[h], Len(F[h]))
    BY <2>1 DEF RowOf
  <2>3. PICK q : q = F[h] /\ q \in Seq(Nodes)
    BY <1>1
  <2>4. Len(q) \in Nat /\ DOMAIN q = 1 .. Len(q)
    BY <2>3, LenProperties
  <2>5. Range(q) = {q[i] : i \in 1 .. Len(q)}
    BY <2>4 DEF Range
  <2>6. ASSUME NEW n \in Nodes PROVE Exists(h, n) <=> \E k \in 1 .. Len(q) : n = q[k]
    <3>1. Exists(h, n) <=> Len(q) # 0 /\ n \in Range(q)
      BY <2>1, <2>2, <2>3 DEF Exists
    <3>2. (\E k \in 1 .. Len(q) : n = q[k]) => Len(q) # 0
      BY <2>4
    <3> QED BY <2>5, <3>1, <3>2
  <2> QED BY <2>1, <2>2, <2>3, <2>4, <2>5, <2>6
<1>3. ASSUME NEW n \in Nodes, InNone(n) PROVE Outside(F, n)
  BY <1>2, <1>3 DEF InNone, Outside
<1> QED BY <1>1, <1>2, <1>3

\* ll_push_list, ll_queue_list and ll_insert_node.
LEMMA AddRows ==
  ASSUME NEW F, State(F), NEW h \in Lists, NEW n \in Nodes
  PROVE  /\ Push(h, n) => State([F EXCEPT ![h] = Append(@, n)])' /\ Outside(F, n)
         /\ QueueNode(h, n) => State([F EXCEPT ![h] = <<n>> \o @])' /\ Outside(F, n)
         /\ \A k \in 1 .. Len(F[h]) : Insert(h, n, F[h][k]) =>
              /\ State([F EXCEPT ![h] = SubSeq(@, 1, k) \o <<n>> \o SubSeq(@, k + 1, Len(@))])'
              /\ Outside(F, n)
<1>1. /\ F \in [Lists -> Seq(Nodes)] /\ count[h] = Len(F[h]) /\ Len(F[h]) \in Nat
      /\ final[h] = Nth(F[h], Len(F[h])) /\ (InNone(n) => Outside(F, n))
  BY RowFacts
<1>2. ASSUME NEW k \in 0 .. Len(F[h]), Fresh(h, n), AppendNode(h, n, Nth(F[h], k)), Grow(h)
      PROVE  State([F EXCEPT ![h] = Put(@, k, n)])' /\ Outside(F, n)
  <2>1. Outside(F, n) /\ (Len(F[h]) = 0 => succ[n] = Null /\ pred[n] = Null)
    BY <1>1, <1>2 DEF Fresh
  <2> QED BY <1>2, <2>1, JoinRows
<1>3. ASSUME NEW k \in 0 .. Len(F[h])
      PROVE  /\ Put(F[h], k, n) = SubSeq(F[h], 1, k) \o <<n>> \o SubSeq(F[h], k + 1, Len(F[h]))
             /\ k = 0 => Put(F[h], k, n) = <<n>> \o F[h]
             /\ k = Len(F[h]) => Put(F[h], k, n) = Append(F[h], n)
  BY <1>1, PutIs
<1>4. ASSUME Push(h, n) PROVE State([F EXCEPT ![h] = Append(@, n)])' /\ Outside(F, n)
  <2>1. PICK k : k = Len(F[h])
    OBVIOUS
  <2>2. k \in 0 .. Len(F[h]) /\ Fresh(h, n) /\ AppendNode(h, n, Nth(F[h], k)) /\ Grow(h)
    BY <1>1, <1>4, <2>1 DEF Push
  <2>3. State([F EXCEPT ![h] = Put(@, k, n)])' /\ Outside(F, n)
    BY <1>2, <2>2
  <2>4. [F EXCEPT ![h] = Put(@, k, n)] = [F EXCEPT ![h] = Append(@, n)]
    BY <1>3, <2>1, <2>2
  <2> QED BY <2>3, <2>4
<1>5. ASSUME QueueNode(h, n) PROVE State([F EXCEPT ![h] = <<n>> \o @])' /\ Outside(F, n)
  <2>1. Nth(F[h], 0) = Null /\ 0 \in 0 .. Len(F[h])
    BY <1>1 DEF Nth
  <2>2. Fresh(h, n) /\ AppendNode(h, n, Nth(F[h], 0)) /\ Grow(h)
    BY <1>5, <2>1 DEF QueueNode
  <2>3. State([F EXCEPT ![h] = Put(@, 0, n)])' /\ Outside(F, n)
    BY <1>2, <2>1, <2>2
  <2>4. [F EXCEPT ![h] = Put(@, 0, n)] = [F EXCEPT ![h] = <<n>> \o @]
    BY <1>3, <2>1
  <2> QED BY <2>3, <2>4
<1>6. ASSUME NEW k \in 1 .. Len(F[h]), Insert(h, n, F[h][k])
      PROVE  /\ State([F EXCEPT ![h] = SubSeq(@, 1, k) \o <<n>> \o SubSeq(@, k + 1, Len(@))])'
             /\ Outside(F, n)
  <2>1. Nth(F[h], k) = F[h][k] /\ k \in 0 .. Len(F[h])
    BY <1>1 DEF Nth
  <2>2. Fresh(h, n) /\ AppendNode(h, n, Nth(F[h], k)) /\ Grow(h)
    BY <1>6, <2>1 DEF Insert
  <2>3. State([F EXCEPT ![h] = Put(@, k, n)])' /\ Outside(F, n)
    BY <1>2, <2>1, <2>2
  <2>4. [F EXCEPT ![h] = Put(@, k, n)]
          = [F EXCEPT ![h] = SubSeq(@, 1, k) \o <<n>> \o SubSeq(@, k + 1, Len(@))]
    BY <1>3, <2>1
  <2> QED BY <2>3, <2>4
<1> QED BY <1>4, <1>5, <1>6

\* ll_delete_node, ll_pop_list and ll_delete_list_data: the node's place.
LEMMA TakeRows ==
  ASSUME NEW F, State(F), NEW h \in Lists
  PROVE  /\ \A k \in 1 .. Len(F[h]) : Shrink(h, F[h][k]) =>
              State([F EXCEPT ![h] = LAbs!Without(@, k)])' /\ given' = F[h][k]
         /\ \A n \in Nodes : Delete(h, n) =>
              \E k \in 1 .. Len(F[h]) : n = F[h][k] /\ Shrink(h, F[h][k])
         /\ Pop(h) => Len(F[h]) \in 1 .. Len(F[h]) /\ Shrink(h, F[h][Len(F[h])])
         /\ \A d : DeleteData(h, d) =>
              Min(With(h, d)) \in 1 .. Len(F[h]) /\ Shrink(h, F[h][Min(With(h, d))])
<1>1. /\ F \in [Lists -> Seq(Nodes)] /\ count[h] = Len(F[h]) /\ Len(F[h]) \in Nat
      /\ Chain(h) = F[h] /\ DOMAIN F[h] = 1 .. Len(F[h])
      /\ final[h] = Nth(F[h], Len(F[h]))
      /\ \A n \in Nodes : Exists(h, n) <=> \E k \in 1 .. Len(F[h]) : n = F[h][k]
  BY RowFacts
<1>2. ASSUME NEW k \in 1 .. Len(F[h]), Shrink(h, F[h][k])
      PROVE  State([F EXCEPT ![h] = LAbs!Without(@, k)])' /\ given' = F[h][k]
  <2>1. State([F EXCEPT ![h] = Cut(@, k)])'
    BY <1>2, LeaveRows
  <2>2. Cut(F[h], k) = LAbs!Without(F[h], k)
    BY <1>1, CutIs
  <2>3. [F EXCEPT ![h] = Cut(@, k)] = [F EXCEPT ![h] = LAbs!Without(@, k)]
    BY <2>2
  <2>4. given' = F[h][k]
    BY <1>2 DEF Shrink
  <2> QED BY <2>1, <2>3, <2>4
<1>3. ASSUME NEW n \in Nodes, Delete(h, n)
      PROVE  \E k \in 1 .. Len(F[h]) : n = F[h][k] /\ Shrink(h, F[h][k])
  BY <1>1, <1>3 DEF Delete
<1>4. ASSUME Pop(h) PROVE Len(F[h]) \in 1 .. Len(F[h]) /\ Shrink(h, F[h][Len(F[h])])
  <2>1. count[h] # 0 /\ Shrink(h, final[h])
    BY <1>4 DEF Pop, Exists
  <2>2. Len(F[h]) \in 1 .. Len(F[h])
    BY <1>1, <2>1
  <2> QED BY <1>1, <2>1, <2>2 DEF Nth
<1>5. ASSUME NEW d, DeleteData(h, d)
      PROVE  Min(With(h, d)) \in 1 .. Len(F[h]) /\ Shrink(h, F[h][Min(With(h, d))])
  <2>1. With(h, d) # {} /\ Shrink(h, F[h][Min(With(h, d))])
    BY <1>1, <1>5 DEF DeleteData
  <2>2. With(h, d) \subseteq 1 .. Len(F[h])
    BY <1>1 DEF With
  <2>3. PICK w : w = With(h, d)
    OBVIOUS
  <2>4. w \subseteq Nat /\ w # {}
    BY <1>1, <2>1, <2>2, <2>3
  <2>5. \E x \in w : \A y \in w : x <= y
    BY <2>4, Least
  <2>6. Min(w) \in w
    BY <2>5 DEF Min
  <2> QED BY <2>1, <2>2, <2>3, <2>6
<1> QED BY <1>2, <1>3, <1>4, <1>5

\* ll_node_init of a node that is in no list leaves the rows.
LEMMA InitRows ==
  ASSUME NEW F, State(F), NEW n \in Nodes, NEW d, NodeInit(n, d)
  PROVE  State(F)'
<1>1. /\ F \in [Lists -> Seq(Nodes)] /\ LinkTypes(first, final, count, succ, pred)
      /\ \A g \in Lists : RowOf(F[g], type, first[g], final[g], count[g], succ, pred)
      /\ \A g, e \in Lists : g # e =>
           \A i \in 1 .. Len(F[g]), j \in 1 .. Len(F[e]) : F[g][i] # F[e][j]
  BY DEF State, Rows
<1>2. Outside(F, n)
  BY RowFacts DEF NodeInit
<1>3. /\ succ' = [succ EXCEPT ![n] = Null] /\ pred' = [pred EXCEPT ![n] = Null]
      /\ type' = type /\ first' = first /\ final' = final /\ count' = count
  BY DEF NodeInit, heads
<1>4. LinkTypes(first', final', count', succ', pred')
  BY <1>1, <1>3 DEF LinkTypes
<1>5. ASSUME NEW g \in Lists PROVE RowOf(F[g], type', first'[g], final'[g], count'[g], succ', pred')
  <2>1. PICK q, t, a, z, c, S, P, T, R :
          /\ q = F[g] /\ t = type /\ a = first[g] /\ z = final[g] /\ c = count[g]
          /\ S = succ /\ P = pred /\ T = succ' /\ R = pred'
    OBVIOUS
  <2>2. RowOf(q, t, a, z, c, S, P)
    BY <1>1, <2>1
  <2>3. ASSUME NEW i \in 1 .. Len(q) PROVE T[q[i]] = S[q[i]] /\ (t = "DLL" => R[q[i]] = P[q[i]])
    <3>1. q[i] # n /\ q[i] \in Nodes
      BY <1>1, <1>2, <2>1, ElementOfSeq DEF Outside
    <3>2. succ \in [Nodes -> Nodes \cup {Null}] /\ pred \in [Nodes -> Nodes \cup {Null}]
      BY <1>1 DEF LinkTypes
    <3> QED BY <1>3, <2>1, <3>1, <3>2
  <2>4. RowOf(q, t, a, z, c, T, R)
    BY ONLY <2>2, <2>3, RowSame
  <2> QED BY <1>3, <2>1, <2>4
<1>6. Rows(F, type', first', final', count', succ', pred')
  BY <1>1, <1>4, <1>5 DEF Rows
<1> QED BY <1>6 DEF State

\* The calls that only look.
LEMMA LookRows ==
  ASSUME NEW F, State(F), type' = type, first' = first, final' = final, count' = count,
         succ' = succ, pred' = pred
  PROVE  State(F)'
<1>1. Rows(F, type', first', final', count', succ', pred')
  BY DEF State
<1> QED BY <1>1 DEF State

\* Rows there are, are the chains.
LEMMA LInvNow ==
  ASSUME NEW F, State(F)' PROVE LInv'
<1>1. F = [h \in Lists |-> Chain(h)']
  BY ChainsAreNext
<1>2. Rows(F, type', first', final', count', succ', pred')
  BY DEF State
<1>3. Rows([h \in Lists |-> Chain(h)'], type', first', final', count', succ', pred')
  BY <1>1, <1>2
<1> QED BY <1>3 DEF LInv, State

LEMMA LInvInit == LInit => LInv
<1> SUFFICES ASSUME LInit PROVE LInv
  OBVIOUS
<1>1. PICK F : F = [h \in Lists |-> <<>>]
  OBVIOUS
<1>2. /\ first = [h \in Lists |-> Null] /\ final = [h \in Lists |-> Null]
      /\ count = [h \in Lists |-> 0]
      /\ succ = [n \in Nodes |-> Null] /\ pred = [n \in Nodes |-> Null]
  BY DEF LInit
<1>3. <<>> \in Seq(Nodes) /\ Len(<<>>) = 0 /\ 1 .. 0 = {}
  BY EmptySeq
<1>4. F \in [Lists -> Seq(Nodes)] /\ \A h \in Lists : F[h] = <<>>
  BY <1>1, <1>3
<1>5. LinkTypes(first, final, count, succ, pred)
  BY <1>2 DEF LinkTypes
<1>6. ASSUME NEW h \in Lists PROVE RowOf(F[h], type, first[h], final[h], count[h], succ, pred)
  <2>1. F[h] = <<>> /\ first[h] = Null /\ final[h] = Null /\ count[h] = 0
    BY <1>2, <1>4
  <2>2. Nth(<<>>, 1) = Null /\ Nth(<<>>, Len(<<>>)) = Null
    BY <1>3 DEF Nth
  <2>3. RowOf(<<>>, type, Null, Null, 0, succ, pred)
    BY <1>3, <2>2 DEF RowOf
  <2> QED BY <2>1, <2>3
<1>7. State(F)
  BY <1>3, <1>4, <1>5, <1>6 DEF State, Rows
<1>8. F = [h \in Lists |-> Chain(h)]
  BY <1>7, ChainsAre
<1> QED BY <1>7, <1>8 DEF LInv

LEMMA LInvStep == LInv /\ [LNext]_lvars => LInv'
<1> SUFFICES ASSUME LInv, [LNext]_lvars PROVE LInv'
  OBVIOUS
<1>1. PICK F : State(F)
  BY DEF LInv
<1>2. F \in [Lists -> Seq(Nodes)] /\ \A h \in Lists : Chain(h) = F[h]
  BY <1>1, RowFacts
<1>3. ASSUME NEW h \in Lists, NEW n \in Nodes, Push(h, n) \/ QueueNode(h, n) PROVE LInv'
  BY <1>1, <1>3, AddRows, LInvNow
<1>4. ASSUME NEW h \in Lists, NEW n \in Nodes, NEW last \in Nodes, Insert(h, n, last) PROVE LInv'
  <2>1. PICK k \in 1 .. Len(F[h]) : last = F[h][k]
    BY <1>1, <1>4, RowFacts DEF Insert
  <2>2. Insert(h, n, F[h][k])
    BY <1>4, <2>1
  <2> QED BY <1>1, <2>2, AddRows, LInvNow
<1>5. ASSUME NEW h \in Lists, NEW k \in 1 .. Len(F[h]), Shrink(h, F[h][k]) PROVE LInv'
  BY <1>1, <1>5, TakeRows, LInvNow
<1>6. ASSUME NEW h \in Lists, NEW n \in Nodes, Delete(h, n) PROVE LInv'
  BY <1>1, <1>5, <1>6, TakeRows
<1>7. ASSUME NEW h \in Lists, Pop(h) PROVE LInv'
  BY <1>1, <1>5, <1>7, TakeRows
<1>8. ASSUME NEW h \in Lists, NEW d \in Data, DeleteData(h, d) PROVE LInv'
  BY <1>1, <1>5, <1>8, TakeRows
<1>9. ASSUME NEW n \in Nodes, NEW d \in Data, NodeInit(n, d) PROVE LInv'
  BY <1>1, <1>9, InitRows, LInvNow
<1>10. ASSUME type' = type, first' = first, final' = final, count' = count,
              succ' = succ, pred' = pred
       PROVE  LInv'
  BY <1>1, <1>10, LookRows, LInvNow
<1>11. ASSUME NEW h \in Lists, NEW d \in Data, SearchData(h, d) PROVE LInv'
  BY <1>10, <1>11 DEF SearchData, heads
<1>12. ASSUME NEW h \in Lists, PopEmpty(h) \/ PeekFirst(h) \/ PeekLast(h) PROVE LInv'
  BY <1>10, <1>12 DEF PopEmpty, PeekFirst, PeekLast, heads
<1>13. CASE UNCHANGED lvars
  BY <1>10, <1>13 DEF lvars, heads
<1> QED BY <1>3, <1>4, <1>6, <1>7, <1>8, <1>9, <1>11, <1>12, <1>13 DEF LNext

\* What ListCalls says of one step.
CallsRight ==
  \A h \in Lists :
    /\ \A n \in Nodes :
         /\ Push(h, n) => LAbs!AddLast(h, n)
         /\ QueueNode(h, n) => LAbs!AddFirst(h, n)
         /\ Delete(h, n) => \E k \in 1 .. Len(Chain(h)) : LAbs!TakeOut(h, k) /\ given' = n
         /\ \A k \in 1 .. Len(Chain(h)) : Insert(h, n, Chain(h)[k]) => LAbs!AddAfter(h, n, k)
         /\ \A d \in Data : NodeInit(n, d) => Chain(h)' = Chain(h)
    /\ Pop(h) => LAbs!TakeOut(h, Len(Chain(h)))
    /\ \A d \in Data : DeleteData(h, d) => LAbs!TakeOut(h, Min(With(h, d)))
    /\ PeekFirst(h) => IF Chain(h) = <<>> THEN LAbs!Nothing(h) ELSE LAbs!Look(h, 1)
    /\ PeekLast(h) => IF Chain(h) = <<>> THEN LAbs!Nothing(h) ELSE LAbs!Look(h, Len(Chain(h)))

LEMMA CallsFollow == LInv => CallsRight
<1> SUFFICES ASSUME LInv, NEW h \in Lists
             PROVE  /\ \A n \in Nodes :
                         /\ Push(h, n) => LAbs!AddLast(h, n)
                         /\ QueueNode(h, n) => LAbs!AddFirst(h, n)
                         /\ Delete(h, n) => \E k \in 1 .. Len(Chain(h)) : LAbs!TakeOut(h, k) /\ given' = n
                         /\ \A k \in 1 .. Len(Chain(h)) :
                              Insert(h, n, Chain(h)[k]) => LAbs!AddAfter(h, n, k)
                         /\ \A d \in Data : NodeInit(n, d) => Chain(h)' = Chain(h)
                    /\ Pop(h) => LAbs!TakeOut(h, Len(Chain(h)))
                    /\ \A d \in Data : DeleteData(h, d) => LAbs!TakeOut(h, Min(With(h, d)))
                    /\ PeekFirst(h) => IF Chain(h) = <<>> THEN LAbs!Nothing(h) ELSE LAbs!Look(h, 1)
                    /\ PeekLast(h) => IF Chain(h) = <<>> THEN LAbs!Nothing(h)
                                      ELSE LAbs!Look(h, Len(Chain(h)))
  BY DEF CallsRight
<1>1. PICK F : State(F) /\ F = [g \in Lists |-> Chain(g)]
  <2>1. State([g \in Lists |-> Chain(g)])
    BY DEF LInv
  <2> QED BY <2>1
<1>2. /\ F \in [Lists -> Seq(Nodes)] /\ Chain(h) = F[h]
      /\ count[h] = Len(F[h]) /\ Len(F[h]) \in Nat
      /\ first[h] = Nth(F[h], 1) /\ final[h] = Nth(F[h], Len(F[h]))
  BY <1>1, RowFacts
<1>3. ASSUME NEW G, State(G)' PROVE [g \in Lists |-> Chain(g)'] = G /\ Chain(h)' = G[h]
  BY <1>3, ChainsAreNext
<1>4. ASSUME NEW n, Outside(F, n) PROVE LAbs!Unlinked(n)
  BY <1>1, <1>4 DEF LAbs!Unlinked, Outside
<1>5. ASSUME NEW k \in 1 .. Len(F[h]), Shrink(h, F[h][k])
      PROVE  LAbs!TakeOut(h, k) /\ given' = F[h][k]
  <2>1. State([F EXCEPT ![h] = LAbs!Without(@, k)])' /\ given' = F[h][k]
    BY <1>1, <1>5, TakeRows
  <2>2. [g \in Lists |-> Chain(g)'] = [F EXCEPT ![h] = LAbs!Without(@, k)]
    BY <1>3, <2>1
  <2> QED BY <1>1, <2>1, <2>2 DEF LAbs!TakeOut
<1>6. ASSUME NEW n \in Nodes, Push(h, n) PROVE LAbs!AddLast(h, n)
  <2>1. State([F EXCEPT ![h] = Append(@, n)])' /\ Outside(F, n)
    BY <1>1, <1>6, AddRows
  <2>2. [g \in Lists |-> Chain(g)'] = [F EXCEPT ![h] = Append(@, n)]
    BY <1>3, <2>1
  <2>3. given' = Null
    BY <1>6 DEF Push, Grow
  <2> QED BY <1>1, <1>4, <2>1, <2>2, <2>3 DEF LAbs!AddLast
<1>7. ASSUME NEW n \in Nodes, QueueNode(h, n) PROVE LAbs!AddFirst(h, n)
  <2>1. State([F EXCEPT ![h] = <<n>> \o @])' /\ Outside(F, n)
    BY <1>1, <1>7, AddRows
  <2>2. [g \in Lists |-> Chain(g)'] = [F EXCEPT ![h] = <<n>> \o @]
    BY <1>3, <2>1
  <2>3. given' = Null
    BY <1>7 DEF QueueNode, Grow
  <2> QED BY <1>1, <1>4, <2>1, <2>2, <2>3 DEF LAbs!AddFirst
<1>8. ASSUME NEW n \in Nodes, NEW k \in 1 .. Len(F[h]), Insert(h, n, F[h][k])
      PROVE  LAbs!AddAfter(h, n, k)
  <2>1. /\ State([F EXCEPT ![h] = SubSeq(@, 1, k) \o <<n>> \o SubSeq(@, k + 1, Len(@))])'
        /\ Outside(F, n)
    BY <1>1, <1>8, AddRows
  <2>2. [g \in Lists |-> Chain(g)']
          = [F EXCEPT ![h] = SubSeq(@, 1, k) \o <<n>> \o SubSeq(@, k + 1, Len(@))]
    BY <1>3, <2>1
  <2>3. given' = Null
    BY <1>8 DEF Insert, Grow
  <2> QED BY <1>1, <1>4, <2>1, <2>2, <2>3 DEF LAbs!AddAfter
<1>9. ASSUME NEW n \in Nodes, Delete(h, n)
      PROVE  \E k \in 1 .. Len(F[h]) : LAbs!TakeOut(h, k) /\ given' = n
  BY <1>1, <1>5, <1>9, TakeRows
<1>10. ASSUME NEW n \in Nodes, NEW d \in Data, NodeInit(n, d) PROVE Chain(h)' = Chain(h)
  BY <1>1, <1>2, <1>3, <1>10, InitRows
<1>11. ASSUME Pop(h) PROVE LAbs!TakeOut(h, Len(F[h]))
  BY <1>1, <1>5, <1>11, TakeRows
<1>12. ASSUME NEW d \in Data, DeleteData(h, d) PROVE LAbs!TakeOut(h, Min(With(h, d)))
  BY <1>1, <1>5, <1>12, TakeRows
<1>13. F[h] = <<>> <=> count[h] = 0
  BY <1>2, EmptySeq
<1>14. ASSUME PeekFirst(h) \/ PeekLast(h) PROVE [g \in Lists |-> Chain(g)'] = F
  <2>1. State(F)'
    BY <1>1, <1>14, LookRows DEF PeekFirst, PeekLast, heads
  <2> QED BY <1>3, <2>1
<1>15. ASSUME PeekFirst(h) \/ PeekLast(h), F[h] = <<>> PROVE LAbs!Nothing(h)
  <2>1. given' = Null
    BY <1>13, <1>15 DEF PeekFirst, PeekLast
  <2> QED BY <1>1, <1>14, <1>15, <2>1 DEF LAbs!Nothing
<1>16. ASSUME PeekFirst(h), F[h] # <<>> PROVE LAbs!Look(h, 1)
  <2>1. 1 \in 1 .. Len(F[h])
    BY <1>2, <1>13, <1>16
  <2>2. given' = F[h][1]
    BY <1>2, <1>13, <1>16, <2>1 DEF PeekFirst, Nth
  <2> QED BY <1>1, <1>14, <1>16, <2>2 DEF LAbs!Look
<1>17. ASSUME PeekLast(h), F[h] # <<>> PROVE LAbs!Look(h, Len(F[h]))
  <2>1. Len(F[h]) \in 1 .. Len(F[h])
    BY <1>2, <1>13, <1>17
  <2>2. given' = F[h][Len(F[h])]
    BY <1>2, <1>13, <1>17, <2>1 DEF PeekLast, Nth
  <2> QED BY <1>1, <1>14, <1>17, <2>2 DEF LAbs!Look
<1>18. Chain(h) = F[h]
  BY <1>2
<1> QED BY <1>6, <1>7, <1>8, <1>9, <1>10, <1>11, <1>12, <1>15, <1>16, <1>17, <1>18

\* In every behaviour each call of linkedlist.c does to its list, and gives back, what
\* SeqAbs says of it, for singly and doubly linked lists alike.
THEOREM ListCallsKept == LSpec => ListCalls
<1>1. LInv => CallsRight
  BY CallsFollow
<1>2. LInit => LInv
  BY LInvInit
<1>3. LInv /\ [LNext]_lvars => LInv'
  BY LInvStep
<1>4. LInv => [CallsRight]_lvars
  BY <1>1
<1> QED BY <1>2, <1>3, <1>4, PTL DEF LSpec, ListCalls, CallsRight

---------------------------------------------------------------------------
(* Functions that go along the turns of a loop. *)

\* What holds at first, and of each number if of the one before, holds of all.
LEMMA Turns ==
  ASSUME NEW n \in Nat, NEW S, 0 \in S, \A k \in 1 .. n : k - 1 \in S => k \in S
  PROVE  \A k \in 0 .. n : k \in S
<1> DEFINE W == {k \in 0 .. n : k \notin S}
<1>1. SUFFICES ASSUME W # {} PROVE FALSE
  OBVIOUS
<1>2. W \in SUBSET Nat
  OBVIOUS
<1>3. PICK k \in W : \A j \in W : k <= j
  BY <1>1, <1>2, Least
<1>4. k \in 1 .. n /\ k \notin S
  BY <1>3
<1>5. k - 1 \in 0 .. n /\ k - 1 \notin W
  BY <1>3, <1>4
<1> QED BY <1>4, <1>5

\* There is a function that begins with z and goes on as G says.
LEMMA Recursion ==
  ASSUME NEW n \in Nat, NEW z \in Nat, NEW G \in [(1 .. n) \X Nat -> Nat]
  PROVE  \E f \in [0 .. n -> Nat] : f[0] = z /\ \A k \in 1 .. n : f[k] = G[<<k, f[k - 1]>>]
<1> DEFINE Along(f, m) == f[0] = z /\ \A k \in 1 .. m : f[k] = G[<<k, f[k - 1]>>]
           S == {m \in 0 .. n : \E f \in [0 .. m -> Nat] : Along(f, m)}
<1>1. 0 \in S
  <2>1. [k \in 0 .. 0 |-> z] \in [0 .. 0 -> Nat] /\ Along([k \in 0 .. 0 |-> z], 0)
    OBVIOUS
  <2> HIDE DEF Along
  <2>2. \E f \in [0 .. 0 -> Nat] : Along(f, 0)
    BY ONLY <2>1
  <2> QED BY <2>2
<1>2. ASSUME NEW m \in 1 .. n, m - 1 \in S PROVE m \in S
  <2>1. PICK f \in [0 .. m - 1 -> Nat] : Along(f, m - 1)
    BY <1>2
  <2>2. m - 1 \in 0 .. m - 1 /\ f[m - 1] \in Nat
    BY <1>2
  <2>3. PICK x \in Nat : x = G[<<m, f[m - 1]>>]
    BY <2>2
  <2>4. PICK g : g = [k \in 0 .. m |-> IF k = m THEN x ELSE f[k]]
    OBVIOUS
  <2>5. \A k \in 0 .. m - 1 : k \in 0 .. m /\ k # m /\ f[k] \in Nat
    BY <1>2
  <2>6. (\A k \in 0 .. m - 1 : g[k] = f[k]) /\ g[m] = x
    BY <2>4, <2>5
  <2>7. g \in [0 .. m -> Nat]
    <3>1. ASSUME NEW k \in 0 .. m PROVE (IF k = m THEN x ELSE f[k]) \in Nat
      <4>1. k # m => k \in 0 .. m - 1
        OBVIOUS
      <4> QED BY <2>3, <2>5, <4>1
    <3> QED BY <2>4, <3>1
  <2>8. g[0] = z
    BY <2>1, <2>6
  <2>9. ASSUME NEW k \in 1 .. m PROVE g[k] = G[<<k, g[k - 1]>>]
    <3>1. k - 1 \in 0 .. m - 1 /\ g[k - 1] = f[k - 1]
      BY <2>6
    <3>2. CASE k = m
      BY <2>3, <2>6, <3>1, <3>2
    <3>3. CASE k # m
      <4>1. k \in 1 .. m - 1 /\ k \in 0 .. m - 1
        BY <3>3
      <4> QED BY <2>1, <2>6, <3>1, <4>1
    <3> QED BY <3>2, <3>3
  <2>10. Along(g, m)
    BY <2>8, <2>9
  <2> HIDE DEF Along
  <2>11. \E h \in [0 .. m -> Nat] : Along(h, m)
    BY ONLY <2>7, <2>10
  <2>12. m \in 0 .. n
    OBVIOUS
  <2> QED BY ONLY <2>11, <2>12, Zenon
<1> HIDE DEF S
<1>3. n \in S
  BY <1>1, <1>2, Turns
<1> QED BY <1>3 DEF S

---------------------------------------------------------------------------
(* Powers of two up to P[n], and sums f of those of the bits of a word w. *)

Powers(P, n) == P \in [0 .. n -> Nat] /\ P[0] = 1 /\ \A k \in 1 .. n : P[k] = 2 * P[k - 1]

Sums(f, w, P, n) ==
  /\ f \in [0 .. n -> Nat] /\ f[0] = 0
  /\ \A k \in 1 .. n : f[k] = f[k - 1] + (IF k - 1 \in w THEN P[k - 1] ELSE 0)

\* Power2 is those powers.
LEMMA PowersAre ==
  ASSUME width \in Nat
  PROVE  Powers(Power2, width)
<1> DEFINE Along(f) == f = [k \in 0 .. width |-> IF k = 0 THEN 1 ELSE 2 * f[k - 1]]
           G == [p \in (1 .. width) \X Nat |-> 2 * p[2]]
<1>1. G \in [(1 .. width) \X Nat -> Nat]
  OBVIOUS
<1>2. \A k \in 1 .. width, x \in Nat : G[<<k, x>>] = 2 * x
  OBVIOUS
<1>3. Power2 = CHOOSE f : Along(f)
  BY DEF Power2
<1> HIDE DEF G
<1>4. PICK f \in [0 .. width -> Nat] : f[0] = 1 /\ \A k \in 1 .. width : f[k] = G[<<k, f[k - 1]>>]
  <2>1. PICK n, z : n = width /\ z = 1
    OBVIOUS
  <2>2. n \in Nat /\ z \in Nat /\ G \in [(1 .. n) \X Nat -> Nat]
    BY <1>1, <2>1
  <2>3. \E f \in [0 .. n -> Nat] : f[0] = z /\ \A k \in 1 .. n : f[k] = G[<<k, f[k - 1]>>]
    BY ONLY <2>2, Recursion
  <2> QED BY <2>1, <2>3
<1>5. \A k \in 1 .. width : k - 1 \in 0 .. width
  OBVIOUS
<1>6. \A k \in 1 .. width : f[k] = 2 * f[k - 1]
  BY <1>2, <1>4, <1>5
<1>7. Along(f)
  <2>1. \A k \in 0 .. width : f[k] = IF k = 0 THEN 1 ELSE 2 * f[k - 1]
    BY <1>4, <1>6
  <2> QED BY <2>1
<1>8. Along(Power2)
  BY <1>3, <1>7
<1>9. PICK P : P = Power2
  OBVIOUS
<1>10. P = [k \in 0 .. width |-> IF k = 0 THEN 1 ELSE 2 * P[k - 1]]
  BY <1>8, <1>9
<1>11. P[0] = 1 /\ \A k \in 1 .. width : P[k] = 2 * P[k - 1]
  BY <1>10
<1>12. \A k \in 0 .. width : P[k] \in Nat
  <2> DEFINE S == {k \in 0 .. width : P[k] \in Nat}
  <2>1. 0 \in S
    BY <1>11
  <2>2. \A k \in 1 .. width : k - 1 \in S => k \in S
    BY <1>11
  <2> HIDE DEF S
  <2>3. \A k \in 0 .. width : k \in S
    BY <2>1, <2>2, Turns
  <2> QED BY <2>3 DEF S
<1>13. P \in [0 .. width -> Nat]
  BY <1>10, <1>12
<1> QED BY <1>9, <1>11, <1>13 DEF Powers

\* They grow,
LEMMA PowersGrow ==
  ASSUME NEW n \in Nat, NEW P, Powers(P, n)
  PROVE  \A k \in 0 .. n : P[k] >= 1 /\ \A j \in 0 .. n : j < k => P[j] < P[k]
<1>1. P[0] = 1 /\ (\A k \in 1 .. n : P[k] = 2 * P[k - 1]) /\ (\A k \in 0 .. n : P[k] \in Nat)
  BY DEF Powers
<1>2. \A k \in 0 .. n : P[k] >= 1
  <2> DEFINE S == {k \in 0 .. n : P[k] >= 1}
  <2>1. 0 \in S
    BY <1>1
  <2>2. ASSUME NEW k \in 1 .. n, k - 1 \in S PROVE k \in S
    <3>1. k - 1 \in 0 .. n /\ P[k - 1] \in Nat /\ P[k] = 2 * P[k - 1] /\ P[k - 1] >= 1
      BY <1>1, <2>2
    <3> QED BY <3>1
  <2> HIDE DEF S
  <2>3. \A k \in 0 .. n : k \in S
    BY <2>1, <2>2, Turns
  <2> QED BY <2>3 DEF S
<1>3. ASSUME NEW j \in 0 .. n PROVE \A k \in 0 .. n : j < k => P[j] < P[k]
  <2> DEFINE S == {k \in 0 .. n : j < k => P[j] < P[k]}
  <2>1. 0 \in S
    OBVIOUS
  <2>2. ASSUME NEW k \in 1 .. n, k - 1 \in S PROVE k \in S
    <3>1. k - 1 \in 0 .. n /\ P[k - 1] \in Nat /\ P[k] = 2 * P[k - 1] /\ P[k - 1] >= 1
      BY <1>1, <1>2
    <3>2. P[j] \in Nat /\ P[k] \in Nat /\ P[k - 1] < P[k]
      BY <1>1, <3>1
    <3>3. CASE j < k - 1
      <4>1. P[j] < P[k - 1]
        BY <2>2, <3>3
      <4> QED BY <3>1, <3>2, <4>1
    <3>4. CASE j = k - 1
      BY <3>2, <3>4
    <3>5. CASE ~(j < k)
      BY <3>5
    <3> QED BY <3>3, <3>4, <3>5
  <2> HIDE DEF S
  <2>3. \A k \in 0 .. n : k \in S
    BY <2>1, <2>2, Turns
  <2> QED BY <2>3 DEF S
<1> QED BY <1>2, <1>3

\* and adding exponents multiplies them.
LEMMA PowersAdd ==
  ASSUME NEW n \in Nat, NEW P, Powers(P, n), NEW i \in 0 .. n
  PROVE  \A k \in 0 .. n - i : P[i + k] = P[i] * P[k]
<1>1. P[0] = 1 /\ (\A k \in 1 .. n : P[k] = 2 * P[k - 1]) /\ (\A k \in 0 .. n : P[k] \in Nat)
  BY DEF Powers
<1>2. PICK m \in Nat : m = n - i
  OBVIOUS
<1> DEFINE S == {k \in 0 .. m : P[i + k] = P[i] * P[k]}
<1>3. 0 \in S
  <2>1. i + 0 = i /\ P[i] \in Nat
    BY <1>1
  <2> QED BY <1>1, <2>1
<1>4. ASSUME NEW k \in 1 .. m, k - 1 \in S PROVE k \in S
  <2>1. P[i + (k - 1)] = P[i] * P[k - 1]
    BY <1>4
  <2>2. k \in 1 .. n /\ i + k \in 1 .. n /\ (i + k) - 1 = i + (k - 1) /\ k - 1 \in 0 .. n
    BY <1>2
  <2>3. P[k] = 2 * P[k - 1] /\ P[i + k] = 2 * P[i + (k - 1)]
    BY <1>1, <2>2
  <2>4. PICK a \in Nat, b \in Nat : a = P[i] /\ b = P[k - 1]
    BY <1>1, <2>2
  <2>5. P[i + k] = 2 * (a * b) /\ P[i] * P[k] = a * (2 * b)
    BY <2>1, <2>3, <2>4
  <2>6. 2 * (a * b) = a * (2 * b)
    BY ONLY <2>4
  <2> QED BY <2>5, <2>6
<1> HIDE DEF S
<1>5. \A k \in 0 .. m : k \in S
  BY <1>3, <1>4, Turns
<1> QED BY <1>2, <1>5 DEF S

\* The sums of a word: each stays below the power it has reached, they do not
\* decrease, and none is less than the power of a bit that it has passed.
LEMMA SumsGrow ==
  ASSUME NEW n \in Nat, NEW P, Powers(P, n), NEW w, NEW f, Sums(f, w, P, n)
  PROVE  /\ \A k \in 0 .. n : f[k] < P[k]
         /\ \A j \in 0 .. n, k \in 0 .. n : j <= k => f[j] <= f[k]
         /\ \A b \in 0 .. n - 1 : b \in w => P[b] <= f[n]
<1>1. P[0] = 1 /\ (\A k \in 1 .. n : P[k] = 2 * P[k - 1]) /\ (\A k \in 0 .. n : P[k] \in Nat)
  BY DEF Powers
<1>2. /\ f[0] = 0 /\ (\A k \in 0 .. n : f[k] \in Nat)
      /\ \A k \in 1 .. n : f[k] = f[k - 1] + (IF k - 1 \in w THEN P[k - 1] ELSE 0)
  BY DEF Sums
<1>3. \A k \in 0 .. n : f[k] < P[k]
  <2> DEFINE S == {k \in 0 .. n : f[k] < P[k]}
  <2>1. 0 \in S
    BY <1>1, <1>2
  <2>2. ASSUME NEW k \in 1 .. n, k - 1 \in S PROVE k \in S
    <3>1. /\ k - 1 \in 0 .. n /\ P[k - 1] \in Nat /\ P[k] = 2 * P[k - 1] /\ f[k - 1] < P[k - 1]
          /\ f[k - 1] \in Nat /\ f[k] = f[k - 1] + (IF k - 1 \in w THEN P[k - 1] ELSE 0)
      BY <1>1, <1>2, <2>2
    <3>2. f[k] < P[k]
      BY <3>1
    <3> QED BY <3>2
  <2> HIDE DEF S
  <2>3. \A k \in 0 .. n : k \in S
    BY <2>1, <2>2, Turns
  <2> QED BY <2>3 DEF S
<1>4. \A k \in 1 .. n : k - 1 \in 0 .. n /\ f[k - 1] <= f[k]
  <2> TAKE k \in 1 .. n
  <2>1. k - 1 \in 0 .. n /\ f[k - 1] \in Nat /\ P[k - 1] \in Nat
    BY <1>1, <1>2
  <2>2. f[k] = f[k - 1] + (IF k - 1 \in w THEN P[k - 1] ELSE 0)
    BY <1>2
  <2> QED BY <2>1, <2>2
<1>5. ASSUME NEW j \in 0 .. n PROVE \A k \in 0 .. n : j <= k => f[j] <= f[k]
  <2> DEFINE S == {k \in 0 .. n : j <= k => f[j] <= f[k]}
  <2>1. 0 \in S
    BY <1>2
  <2>2. ASSUME NEW k \in 1 .. n, k - 1 \in S PROVE k \in S
    <3>1. k - 1 \in 0 .. n /\ f[k - 1] <= f[k] /\ f[k - 1] \in Nat /\ f[k] \in Nat /\ f[j] \in Nat
      BY <1>2, <1>4
    <3>2. CASE j <= k - 1
      <4>1. f[j] <= f[k - 1]
        BY <2>2, <3>2
      <4> QED BY <3>1, <4>1
    <3>3. CASE j = k
      BY <3>1, <3>3
    <3>4. CASE ~(j <= k)
      BY <3>4
    <3> QED BY <3>2, <3>3, <3>4
  <2> HIDE DEF S
  <2>3. \A k \in 0 .. n : k \in S
    BY <2>1, <2>2, Turns
  <2> QED BY <2>3 DEF S
<1>6. ASSUME NEW b \in 0 .. n - 1, b \in w PROVE P[b] <= f[n]
  <2>1. b + 1 \in 1 .. n /\ (b + 1) - 1 = b /\ b \in 0 .. n /\ b + 1 \in 0 .. n /\ n \in 0 .. n /\ b + 1 <= n
    OBVIOUS
  <2>2. f[b + 1] = f[b] + P[b]
    BY <1>2, <1>6, <2>1
  <2>3. f[b + 1] <= f[n]
    BY <1>5, <2>1
  <2>4. f[b] \in Nat /\ P[b] \in Nat /\ f[n] \in Nat
    BY <1>1, <1>2, <2>1
  <2> QED BY ONLY <2>2, <2>3, <2>4
<1> QED BY <1>3, <1>5, <1>6

\* From where a word has no more bits its sums stay as they are.
LEMMA SumsFlat ==
  ASSUME NEW n \in Nat, NEW P, Powers(P, n), NEW w, NEW f, Sums(f, w, P, n), NEW m \in 0 .. n,
         \A b \in m .. n - 1 : b \notin w
  PROVE  f[n] = f[m]
<1>1. \A k \in 1 .. n : f[k] = f[k - 1] + (IF k - 1 \in w THEN P[k - 1] ELSE 0)
  BY DEF Sums
<1>2. \A k \in 0 .. n : f[k] \in Nat
  BY DEF Sums
<1> DEFINE S == {k \in 0 .. n : m <= k => f[k] = f[m]}
<1>3. 0 \in S
  OBVIOUS
<1>4. ASSUME NEW k \in 1 .. n, k - 1 \in S PROVE k \in S
  <2>1. CASE m <= k - 1
    <3>1. f[k - 1] = f[m]
      BY <1>4, <2>1
    <3>2. k - 1 \notin w
      BY <2>1
    <3>3. f[k] = f[k - 1] + 0
      BY <1>1, <3>2
    <3> QED BY <1>2, <3>1, <3>3
  <2>2. CASE ~(m <= k - 1)
    BY <2>2
  <2> QED BY <2>1, <2>2
<1> HIDE DEF S
<1>5. \A k \in 0 .. n : k \in S
  BY <1>3, <1>4, Turns
<1>6. n \in S
  BY <1>5
<1> QED BY <1>6 DEF S

\* The sum of all bits below m,
LEMMA SumsFull ==
  ASSUME NEW n \in Nat, NEW P, Powers(P, n), NEW m \in 0 .. n, NEW f, Sums(f, 0 .. m - 1, P, n)
  PROVE  f[n] = P[m] - 1
<1>1. P[0] = 1 /\ (\A k \in 1 .. n : P[k] = 2 * P[k - 1]) /\ (\A k \in 0 .. n : P[k] \in Nat)
  BY DEF Powers
<1>2. /\ f[0] = 0 /\ (\A k \in 0 .. n : f[k] \in Nat)
      /\ \A k \in 1 .. n : f[k] = f[k - 1] + (IF k - 1 \in 0 .. m - 1 THEN P[k - 1] ELSE 0)
  BY DEF Sums
<1> DEFINE S == {k \in 0 .. m : f[k] = P[k] - 1}
<1>3. 0 \in S
  BY <1>1, <1>2
<1>4. ASSUME NEW k \in 1 .. m, k - 1 \in S PROVE k \in S
  <2>1. k \in 1 .. n /\ k - 1 \in 0 .. n /\ k - 1 \in 0 .. m - 1
    OBVIOUS
  <2>2. f[k] = f[k - 1] + P[k - 1] /\ f[k - 1] = P[k - 1] - 1 /\ P[k] = 2 * P[k - 1]
    BY <1>1, <1>2, <1>4, <2>1
  <2>3. P[k - 1] \in Nat
    BY <1>1, <2>1
  <2>4. f[k] = P[k] - 1
    BY ONLY <2>2, <2>3
  <2> QED BY <2>4
<1> HIDE DEF S
<1>5. \A k \in 0 .. m : k \in S
  <2>1. m \in Nat
    OBVIOUS
  <2> QED BY ONLY <1>3, <1>4, <2>1, Turns
<1>6. f[m] = P[m] - 1
  <2>1. m \in S
    BY <1>5
  <2> QED BY <2>1 DEF S
<1>7. \A b \in m .. n - 1 : b \notin 0 .. m - 1
  OBVIOUS
<1>8. f[n] = f[m]
  BY <1>7, SumsFlat
<1> QED BY <1>6, <1>8

\* and that of one bit.
LEMMA SumsOne ==
  ASSUME NEW n \in Nat, NEW P, Powers(P, n), NEW b \in 0 .. n - 1, NEW f, Sums(f, {b}, P, n)
  PROVE  f[n] = P[b]
<1>1. \A k \in 0 .. n : P[k] \in Nat
  BY DEF Powers
<1>2. /\ f[0] = 0 /\ (\A k \in 0 .. n : f[k] \in Nat)
      /\ \A k \in 1 .. n : f[k] = f[k - 1] + (IF k - 1 \in {b} THEN P[k - 1] ELSE 0)
  BY DEF Sums
<1> DEFINE S == {k \in 0 .. n : f[k] = IF k <= b THEN 0 ELSE P[b]}
<1>3. 0 \in S
  BY <1>2
<1>4. ASSUME NEW k \in 1 .. n, k - 1 \in S PROVE k \in S
  <2>1. /\ f[k] = f[k - 1] + (IF k - 1 = b THEN P[k - 1] ELSE 0) /\ f[k - 1] \in Nat /\ P[b] \in Nat
        /\ f[k - 1] = IF k - 1 <= b THEN 0 ELSE P[b]
    BY <1>1, <1>2, <1>4
  <2>2. CASE k - 1 = b
    BY <2>1, <2>2
  <2>3. CASE k - 1 < b
    BY <2>1, <2>3
  <2>4. CASE k - 1 > b
    BY <2>1, <2>4
  <2> QED BY <2>2, <2>3, <2>4
<1> HIDE DEF S
<1>5. \A k \in 0 .. n : k \in S
  BY <1>3, <1>4, Turns
<1>6. n \in S /\ ~(n <= b)
  BY <1>5
<1> QED BY <1>6 DEF S

\* The sums of two words that share no bit are those of their union.
LEMMA SumsUnion ==
  ASSUME NEW n \in Nat, NEW P, Powers(P, n), NEW u, NEW v, u \cap v = {},
         NEW f, Sums(f, u, P, n), NEW g, Sums(g, v, P, n), NEW h, Sums(h, u \cup v, P, n)
  PROVE  h[n] = f[n] + g[n]
<1>1. \A k \in 0 .. n : P[k] \in Nat /\ f[k] \in Nat /\ g[k] \in Nat /\ h[k] \in Nat
  BY DEF Powers, Sums
<1>2. f[0] = 0 /\ g[0] = 0 /\ h[0] = 0
  BY DEF Sums
<1> DEFINE S == {k \in 0 .. n : h[k] = f[k] + g[k]}
<1>3. 0 \in S
  BY <1>2
<1>4. ASSUME NEW k \in 1 .. n, k - 1 \in S PROVE k \in S
  <2>1. k - 1 \in 0 .. n /\ P[k - 1] \in Nat /\ f[k - 1] \in Nat /\ g[k - 1] \in Nat
    BY <1>1
  <2>2. /\ f[k] = f[k - 1] + (IF k - 1 \in u THEN P[k - 1] ELSE 0)
        /\ g[k] = g[k - 1] + (IF k - 1 \in v THEN P[k - 1] ELSE 0)
        /\ h[k] = h[k - 1] + (IF k - 1 \in u \cup v THEN P[k - 1] ELSE 0)
    BY DEF Sums
  <2>3. h[k - 1] = f[k - 1] + g[k - 1]
    BY <1>4
  <2>4. CASE k - 1 \in u
    <3>1. k - 1 \notin v
      BY <2>4
    <3> QED BY <2>1, <2>2, <2>3, <2>4, <3>1
  <2>5. CASE k - 1 \in v
    <3>1. k - 1 \notin u
      BY <2>5
    <3> QED BY <2>1, <2>2, <2>3, <2>5, <3>1
  <2>6. CASE k - 1 \notin u \cup v
    BY <2>1, <2>2, <2>3, <2>6
  <2> QED BY <2>4, <2>5, <2>6
<1> HIDE DEF S
<1>5. \A k \in 0 .. n : k \in S
  BY <1>3, <1>4, Turns
<1>6. n \in S
  BY <1>5
<1> QED BY <1>6 DEF S

\* A word whose bits are those of another one, i places up, is the product.
LEMMA SumsShift ==
  ASSUME NEW n \in Nat, NEW P, Powers(P, n), NEW i \in 0 .. n, NEW u, NEW v,
         \A b \in 0 .. n - 1 : b \in u <=> b >= i /\ b - i \in v,
         \A b \in 0 .. n - 1 : b \in v => b + i <= n - 1,
         NEW f, Sums(f, u, P, n), NEW g, Sums(g, v, P, n)
  PROVE  f[n] = P[i] * g[n]
<1>1. \A k \in 0 .. n : P[k] \in Nat /\ f[k] \in Nat /\ g[k] \in Nat
  BY DEF Powers, Sums
<1>2. /\ f[0] = 0 /\ g[0] = 0
      /\ \A k \in 1 .. n : /\ f[k] = f[k - 1] + (IF k - 1 \in u THEN P[k - 1] ELSE 0)
                           /\ g[k] = g[k - 1] + (IF k - 1 \in v THEN P[k - 1] ELSE 0)
  BY DEF Sums
<1>3. f[i] = 0
  <2> DEFINE S == {k \in 0 .. i : f[k] = 0}
  <2>1. 0 \in S
    BY <1>2
  <2>2. ASSUME NEW k \in 1 .. i, k - 1 \in S PROVE k \in S
    <3>1. k \in 1 .. n /\ k - 1 \in 0 .. n - 1 /\ ~(k - 1 >= i)
      OBVIOUS
    <3>2. k - 1 \notin u /\ f[k - 1] = 0
      BY <2>2, <3>1
    <3>3. f[k] = 0
      BY <1>2, <3>1, <3>2
    <3> QED BY <3>3
  <2> HIDE DEF S
  <2>3. \A k \in 0 .. i : k \in S
    BY <2>1, <2>2, Turns
  <2>4. i \in S
    BY <2>3
  <2> QED BY <2>4 DEF S
<1>4. PICK m \in Nat : m = n - i
  OBVIOUS
<1>5. \A k \in 0 .. m : P[i + k] = P[i] * P[k]
  BY <1>4, PowersAdd
<1> DEFINE S == {k \in 0 .. m : f[i + k] = P[i] * g[k]}
<1>6. 0 \in S
  <2>1. i + 0 = i /\ P[i] \in Nat
    BY <1>1
  <2> QED BY <1>2, <1>3, <2>1
<1>7. ASSUME NEW k \in 1 .. m, k - 1 \in S PROVE k \in S
  <2>1. f[i + (k - 1)] = P[i] * g[k - 1]
    BY <1>7
  <2>2. /\ k \in 1 .. n /\ k - 1 \in 0 .. n - 1 /\ k - 1 \in 0 .. m /\ k - 1 \in 0 .. n
        /\ i + k \in 1 .. n /\ (i + k) - 1 = i + (k - 1)
        /\ i + (k - 1) \in 0 .. n - 1 /\ i + (k - 1) >= i /\ (i + (k - 1)) - i = k - 1
    BY <1>4
  <2>3. i + (k - 1) \in u <=> k - 1 \in v
    BY <2>2
  <2>4. /\ f[i + k] = f[i + (k - 1)] + (IF i + (k - 1) \in u THEN P[i + (k - 1)] ELSE 0)
        /\ g[k] = g[k - 1] + (IF k - 1 \in v THEN P[k - 1] ELSE 0)
    BY <1>2, <2>2
  <2>5. PICK a \in Nat, p \in Nat, c \in Nat : a = P[i] /\ p = P[k - 1] /\ c = g[k - 1]
    BY <1>1, <2>2
  <2>6. P[i + (k - 1)] = a * p /\ f[i + (k - 1)] = a * c
    BY <1>5, <2>1, <2>2, <2>5
  <2>7. CASE k - 1 \in v
    <3>1. f[i + k] = a * c + a * p /\ P[i] * g[k] = a * (c + p)
      BY <2>3, <2>4, <2>5, <2>6, <2>7
    <3>2. a * c + a * p = a * (c + p)
      BY ONLY a \in Nat, p \in Nat, c \in Nat
    <3> QED BY <3>1, <3>2
  <2>8. CASE k - 1 \notin v
    <3>1. a * c + 0 = a * c /\ c + 0 = c
      BY ONLY <2>5
    <3>2. f[i + k] = a * c /\ P[i] * g[k] = a * c
      BY <2>3, <2>4, <2>5, <2>6, <2>8, <3>1
    <3> QED BY <3>2
  <2> QED BY <2>7, <2>8
<1> HIDE DEF S
<1>8. \A k \in 0 .. m : k \in S
  BY <1>6, <1>7, Turns
<1>9. f[n] = P[i] * g[m]
  <2>1. m \in S /\ i + m = n
    BY <1>4, <1>8
  <2> QED BY <2>1 DEF S
<1>10. g[n] = g[m]
  <2>1. m \in 0 .. n
    BY <1>4
  <2>2. \A b \in m .. n - 1 : b \notin v
    BY <1>4
  <2> QED BY <2>1, <2>2, SumsFlat
<1> QED BY <1>9, <1>10

\* Value is such a sum,
LEMMA ValueIs ==
  ASSUME width \in Nat, NEW w
  PROVE  \E f : Sums(f, w, Power2, width) /\ Value(w) = f[width]
<1>1. PICK n, P : n = width /\ P = Power2
  OBVIOUS
<1>2. n \in Nat /\ Powers(P, n)
  BY <1>1, PowersAre
<1> DEFINE Along(f) == f = [k \in 0 .. n |->
                              IF k = 0 THEN 0
                              ELSE f[k - 1] + (IF k - 1 \in w THEN P[k - 1] ELSE 0)]
           sum == CHOOSE f : Along(f)
           G == [p \in (1 .. n) \X Nat |-> p[2] + (IF p[1] - 1 \in w THEN P[p[1] - 1] ELSE 0)]
<1>3. Value(w) = sum[n]
  BY <1>1 DEF Value
<1>4. \A k \in 1 .. n : k - 1 \in 0 .. n /\ P[k - 1] \in Nat
  BY <1>2 DEF Powers
<1>5. G \in [(1 .. n) \X Nat -> Nat]
  BY <1>4
<1>6. \A k \in 1 .. n, x \in Nat : G[<<k, x>>] = x + (IF k - 1 \in w THEN P[k - 1] ELSE 0)
  OBVIOUS
<1> HIDE DEF G
<1>7. PICK f \in [0 .. n -> Nat] : f[0] = 0 /\ \A k \in 1 .. n : f[k] = G[<<k, f[k - 1]>>]
  <2>1. PICK z : z = 0
    OBVIOUS
  <2>2. z \in Nat
    BY <2>1
  <2>3. \E f \in [0 .. n -> Nat] : f[0] = z /\ \A k \in 1 .. n : f[k] = G[<<k, f[k - 1]>>]
    BY ONLY <1>2, <1>5, <2>2, Recursion
  <2> QED BY <2>1, <2>3
<1>8. \A k \in 1 .. n : f[k] = f[k - 1] + (IF k - 1 \in w THEN P[k - 1] ELSE 0)
  BY <1>4, <1>6, <1>7
<1>9. Along(f)
  <2>1. \A k \in 0 .. n : f[k] = IF k = 0 THEN 0
                                 ELSE f[k - 1] + (IF k - 1 \in w THEN P[k - 1] ELSE 0)
    BY <1>7, <1>8
  <2> QED BY <2>1
<1>10. PICK g : g = sum
  OBVIOUS
<1>11. Along(g)
  BY <1>9, <1>10
<1>12. g[0] = 0 /\ \A k \in 1 .. n : g[k] = g[k - 1] + (IF k - 1 \in w THEN P[k - 1] ELSE 0)
  BY <1>2, <1>11
<1>13. \A k \in 0 .. n : g[k] \in Nat
  <2> DEFINE S == {k \in 0 .. n : g[k] \in Nat}
  <2>1. 0 \in S
    BY <1>2, <1>12
  <2>2. ASSUME NEW k \in 1 .. n, k - 1 \in S PROVE k \in S
    <3>1. g[k - 1] \in Nat /\ P[k - 1] \in Nat
      BY <1>4, <2>2
    <3>2. g[k] \in Nat
      BY <1>12, <3>1
    <3> QED BY <3>2
  <2> HIDE DEF S
  <2>3. \A k \in 0 .. n : k \in S
    BY <1>2, <2>1, <2>2, Turns
  <2> QED BY <2>3 DEF S
<1>14. g \in [0 .. n -> Nat]
  BY <1>11, <1>13
<1>15. Sums(g, w, P, n)
  BY <1>12, <1>14 DEF Sums
<1>16. Value(w) = g[n]
  BY <1>3, <1>10
<1> QED BY <1>1, <1>15, <1>16

\* and _bits_count counts the bits.
LEMMA CountIs ==
  ASSUME NEW n \in Nat, NEW w \in SUBSET (0 .. n - 1)
  PROVE  BitsCount(w, n) = Cardinality(w)
<1> DEFINE Along(f) == f = [i \in 0 .. n |->
                              IF i = 0 THEN 0 ELSE f[i - 1] + (IF i - 1 \in w THEN 1 ELSE 0)]
           turns == CHOOSE f : Along(f)
           f0 == [i \in 0 .. n |-> Cardinality({b \in w : b < i})]
<1>0. \A b \in w : b \in Int /\ 0 <= b /\ b < n
  OBVIOUS
<1>1. BitsCount(w, n) = turns[n]
  BY DEF BitsCount
<1>2. IsFiniteSet(w)
  <2>1. 0 \in Int /\ n - 1 \in Int
    OBVIOUS
  <2>2. IsFiniteSet(0 .. n - 1)
    BY ONLY <2>1, FS_Interval
  <2> QED BY <2>2, FS_Subset
<1>3. \A i \in 0 .. n : IsFiniteSet({b \in w : b < i}) /\ Cardinality({b \in w : b < i}) \in Nat
  <2> TAKE i \in 0 .. n
  <2>1. IsFiniteSet({b \in w : b < i})
    BY <1>2, FS_Subset
  <2> QED BY <2>1, FS_CardinalityType
<1>4. f0[0] = 0
  <2>1. {b \in w : b < 0} = {}
    <3>1. \A b \in w : ~(b < 0)
      BY ONLY <1>0
    <3> QED BY <3>1, Zenon
  <2> QED BY <2>1, FS_EmptySet
<1>5. ASSUME NEW i \in 1 .. n PROVE f0[i] = f0[i - 1] + (IF i - 1 \in w THEN 1 ELSE 0)
  <2>1. i - 1 \in 0 .. n /\ i \in 0 .. n
    OBVIOUS
  <2>2. PICK A : A = {b \in w : b < i - 1}
    OBVIOUS
  <2>3. f0[i - 1] = Cardinality(A) /\ IsFiniteSet(A) /\ Cardinality(A) \in Nat
    BY <1>3, <2>1, <2>2
  <2>4. f0[i] = Cardinality({b \in w : b < i})
    BY <2>1
  <2>5. CASE i - 1 \in w
    <3>1. {b \in w : b < i} = A \cup {i - 1} /\ i - 1 \notin A
      <4>1. \A b \in w : b < i <=> b < i - 1 \/ b = i - 1
        BY ONLY <1>0, i \in 1 .. n, n \in Nat
      <4>2. ~(i - 1 < i - 1) /\ i - 1 < i
        OBVIOUS
      <4> QED BY ONLY <2>2, <2>5, <4>1, <4>2, Zenon
    <3>2. Cardinality(A \cup {i - 1}) = Cardinality(A) + 1
      BY <2>3, <3>1, FS_AddElement
    <3> QED BY <2>3, <2>4, <2>5, <3>1, <3>2
  <2>6. CASE i - 1 \notin w
    <3>1. {b \in w : b < i} = A
      <4>1. \A b \in w : b < i <=> b < i - 1 \/ b = i - 1
        BY ONLY <1>0, i \in 1 .. n, n \in Nat
      <4> QED BY ONLY <2>2, <2>6, <4>1, Zenon
    <3> QED BY <2>3, <2>4, <2>6, <3>1
  <2> QED BY <2>5, <2>6
<1>6. Along(f0)
  <2>1. PICK h : h = f0
    OBVIOUS
  <2>2. h[0] = 0 /\ \A i \in 1 .. n : h[i] = h[i - 1] + (IF i - 1 \in w THEN 1 ELSE 0)
    BY <1>4, <1>5, <2>1
  <2>3. \A i \in 0 .. n : h[i] = IF i = 0 THEN 0 ELSE h[i - 1] + (IF i - 1 \in w THEN 1 ELSE 0)
    BY ONLY <2>2, n \in Nat
  <2>4. h = [i \in 0 .. n |-> h[i]] /\ \A i \in 0 .. n : h[i] = IF i = 0 THEN 0 ELSE h[i - 1] + (IF i - 1 \in w THEN 1 ELSE 0)
    BY <2>1, <2>3
  <2>5. Along(h)
    BY <2>4
  <2> QED BY <2>1, <2>5
<1>7. Along(turns)
  BY <1>6
<1>8. PICK f, g : f = turns /\ g = f0
  OBVIOUS
<1>9. \A i \in 0 .. n : f[i] = IF i = 0 THEN 0 ELSE f[i - 1] + (IF i - 1 \in w THEN 1 ELSE 0)
  BY <1>7, <1>8
<1>10. g[0] = 0 /\ \A i \in 1 .. n : g[i] = g[i - 1] + (IF i - 1 \in w THEN 1 ELSE 0)
  BY <1>4, <1>5, <1>8
<1>11. g[n] = Cardinality(w)
  <2>1. {b \in w : b < n} = w
    BY <1>0, Zenon
  <2>2. n \in 0 .. n
    OBVIOUS
  <2> QED BY <1>8, <2>1, <2>2
<1> HIDE DEF f0, turns, Along
<1>12. f[n] = g[n]
  <2> DEFINE S == {i \in 0 .. n : f[i] = g[i]}
  <2>1. 0 \in S
    BY <1>9, <1>10
  <2>2. ASSUME NEW i \in 1 .. n, i - 1 \in S PROVE i \in S
    BY <1>9, <1>10, <2>2
  <2> HIDE DEF S
  <2>3. \A i \in 0 .. n : i \in S
    BY <2>1, <2>2, Turns
  <2>4. n \in S
    BY <2>3
  <2> QED BY <2>4 DEF S
<1> QED BY <1>1, <1>8, <1>11, <1>12

---------------------------------------------------------------------------
(* The calls for the bits of a word. *)

\* Min is the least element.
LEMMA MinIs ==
  ASSUME NEW S \in SUBSET Nat, S # {}
  PROVE  Min(S) \in S /\ Min(S) \in Nat /\ \A y \in S : Min(S) <= y
BY Least DEF Min

\* The value of a word, from the facts about sums.
LEMMA ValueFacts ==
  ASSUME width \in Nat, NEW w
  PROVE  /\ Value(w) \in Nat
         /\ \A k \in 0 .. width : Power2[k] \in Nat /\ Power2[k] >= 1
         /\ \A j, k \in 0 .. width : j < k => Power2[j] < Power2[k]
         /\ \A m \in 0 .. width : (\A b \in m .. width - 1 : b \notin w) => Value(w) < Power2[m]
         /\ \A b \in 0 .. width - 1 : b \in w => Power2[b] <= Value(w)
<1>1. PICK n, P : n = width /\ P = Power2
  OBVIOUS
<1>2. n \in Nat /\ Powers(P, n)
  BY <1>1, PowersAre
<1>3. PICK f : Sums(f, w, P, n) /\ Value(w) = f[n]
  BY <1>1, ValueIs
<1>4. /\ \A k \in 0 .. n : f[k] < P[k]
      /\ \A b \in 0 .. n - 1 : b \in w => P[b] <= f[n]
  BY <1>2, <1>3, SumsGrow
<1>5. \A k \in 0 .. n : P[k] \in Nat /\ P[k] >= 1 /\ \A j \in 0 .. n : j < k => P[j] < P[k]
  BY <1>2, PowersGrow DEF Powers
<1>6. ASSUME NEW m \in 0 .. n, \A b \in m .. n - 1 : b \notin w PROVE Value(w) < P[m]
  <2>1. f[n] = f[m]
    BY <1>2, <1>3, <1>6, SumsFlat
  <2> QED BY <1>3, <1>4, <2>1
<1>7. Value(w) \in Nat
  <2>1. n \in 0 .. n
    BY <1>2
  <2> QED BY <1>3, <2>1 DEF Sums
<1> QED BY <1>1, <1>3, <1>4, <1>5, <1>6, <1>7

\* bits_msb_index is the bit length, up to the last index.
LEMMA MsbRight ==
  ASSUME width \in Nat \ {0}, NEW w \in SUBSET (0 .. width - 1),
         NEW m, m = BitsMsbIndex(w), m < width - 1
  PROVE  Value(w) < Power2[m] /\ (m > 0 => Power2[m - 1] <= Value(w))
<1> DEFINE S == {i \in 0 .. width - 2 : w \subseteq 0 .. i - 1} \cup {width - 1}
<1>1. S \in SUBSET Nat /\ S # {}
  OBVIOUS
<1>2. m \in S /\ m \in Nat /\ \A y \in S : m <= y
  <2>1. m = Min(S)
    BY DEF BitsMsbIndex
  <2> HIDE DEF S
  <2> QED BY <1>1, <2>1, MinIs
<1>3. m \in 0 .. width - 2 /\ w \subseteq 0 .. m - 1
  BY <1>2
<1>4. \A b \in m .. width - 1 : b \notin w
  BY <1>3
<1>5. m \in 0 .. width /\ width \in Nat
  BY <1>3
<1>6. Value(w) < Power2[m]
  BY <1>4, <1>5, ValueFacts
<1>7. CASE m > 0
  <2>1. m - 1 \in 0 .. width - 2 /\ m - 1 \notin S
    BY <1>2, <1>3, <1>7
  <2>2. ~(w \subseteq 0 .. (m - 1) - 1)
    BY <2>1
  <2>3. PICK b \in w : b \notin 0 .. (m - 1) - 1
    BY <2>2
  <2>4. b \in 0 .. m - 1
    BY <1>3
  <2>5. b = m - 1 /\ m - 1 \in 0 .. width - 1
    BY <1>2, <2>1, <2>3, <2>4
  <2> QED BY <1>5, <1>6, <2>3, <2>5, ValueFacts
<1> QED BY <1>6, <1>7

\* math_log2_64 finds the highest bit,
LEMMA LogIs ==
  ASSUME width \in Nat \ {0}, NEW w \in SUBSET (0 .. width - 1), w # {},
         NEW r, r = MathLog2(w)
  PROVE  r \in w /\ r \in 0 .. width - 1 /\ \A b \in w : b <= r
<1> DEFINE S == {k \in 0 .. width : ShiftRight(w, k) \subseteq {0}}
<1>1. \A b \in w : b \in Nat /\ b <= width - 1
  OBVIOUS
<1>2. \A k \in 0 .. width : k \in S <=> \A b \in w : b >= k => b = k
  <2> TAKE k \in 0 .. width
  <2>1. ShiftRight(w, k) \subseteq {0} <=> \A b \in w : b >= k => b - k = 0
    BY DEF ShiftRight
  <2>2. \A b \in w : b - k = 0 <=> b = k
    BY <1>1
  <2> QED BY <2>1, <2>2
<1>3. width - 1 \in S
  <2>1. width - 1 \in 0 .. width /\ \A b \in w : b >= width - 1 => b = width - 1
    BY <1>1
  <2> QED BY <1>2, <2>1
<1>4. S \in SUBSET Nat
  OBVIOUS
<1>5. r \in S /\ r \in Nat /\ \A y \in S : r <= y
  <2>1. r = Min(S)
    BY DEF MathLog2
  <2> HIDE DEF S
  <2> QED BY <1>3, <1>4, <2>1, MinIs
<1>6. r \in 0 .. width - 1
  BY <1>3, <1>5
<1> HIDE DEF S
<1>7. \A b \in w : b >= r => b = r
  BY <1>2, <1>5, <1>6
<1>8. \A b \in w : b <= r
  BY <1>1, <1>5, <1>7
<1>9. r \in w
  <2>1. CASE r = 0
    <3>1. PICK b \in w : TRUE
      OBVIOUS
    <3>2. b = r
      BY <1>1, <1>7, <2>1
    <3> QED BY <3>2
  <2>2. CASE r > 0
    <3>1. r - 1 \in 0 .. width /\ r - 1 \notin S
      BY <1>5, <1>6, <2>2
    <3>2. PICK b \in w : b >= r - 1 /\ b # r - 1
      BY <1>2, <3>1
    <3>3. b >= r
      BY <1>1, <1>5, <3>2
    <3> QED BY <1>7, <3>3
  <2> QED BY <1>5, <2>1, <2>2
<1> QED BY <1>6, <1>8, <1>9

\* so the word is between that power and the next,
LEMMA LogRight ==
  ASSUME width \in Nat \ {0}, NEW w \in SUBSET (0 .. width - 1), w # {},
         NEW r, r = MathLog2(w)
  PROVE  Power2[r] <= Value(w) /\ Value(w) < Power2[r + 1]
<1>1. r \in w /\ r \in 0 .. width - 1 /\ \A b \in w : b <= r
  BY LogIs
<1>2. r + 1 \in 0 .. width /\ width \in Nat
  BY <1>1
<1>3. \A b \in r + 1 .. width - 1 : b \notin w
  BY <1>1
<1> QED BY <1>1, <1>2, <1>3, ValueFacts

\* and math_is_power2_64 is right about it.
LEMMA Power2Right ==
  ASSUME width \in Nat \ {0}, NEW w \in SUBSET (0 .. width - 1), w # {}
  PROVE  MathIsPower2(w) <=> \E r \in 0 .. width - 1 : Value(w) = Power2[r]
<1>1. PICK n, P : n = width /\ P = Power2
  OBVIOUS
<1>2. n \in Nat /\ n > 0 /\ Powers(P, n)
  BY <1>1, PowersAre
<1>3. ASSUME MathIsPower2(w) PROVE \E r \in 0 .. width - 1 : Value(w) = Power2[r]
  <2>1. PICK i \in w : w = {i}
    BY <1>3 DEF MathIsPower2
  <2>2. i \in 0 .. n - 1
    BY <1>1
  <2>3. PICK f : Sums(f, w, P, n) /\ Value(w) = f[n]
    BY <1>1, ValueIs
  <2>4. Value(w) = P[i]
    BY <1>2, <2>1, <2>2, <2>3, SumsOne
  <2> QED BY <1>1, <2>2, <2>4
<1>4. ASSUME NEW q \in 0 .. width - 1, Value(w) = Power2[q] PROVE MathIsPower2(w)
  <2>1. PICK r : r = MathLog2(w)
    OBVIOUS
  <2>2. r \in w /\ r \in 0 .. width - 1 /\ Power2[r] <= Value(w) /\ Value(w) < Power2[r + 1]
    BY <2>1, LogIs, LogRight
  <2>3. /\ Value(w) \in Nat
        /\ \A k \in 0 .. width : Power2[k] \in Nat /\ Power2[k] >= 1
        /\ \A j, k \in 0 .. width : j < k => Power2[j] < Power2[k]
    BY ValueFacts
  <2>4. q \in 0 .. width /\ r \in 0 .. width /\ r + 1 \in 0 .. width
    BY <2>2
  <2>5. ~(q < r)
    BY <1>4, <2>2, <2>3, <2>4
  <2>6. ~(r + 1 < q) /\ q # r + 1
    BY <1>4, <2>2, <2>3, <2>4
  <2>7. q = r
    BY <2>4, <2>5, <2>6
  <2>8. PICK u, v : u = {r} /\ v = w \ {r}
    OBVIOUS
  <2>9. w = u \cup v /\ u \cap v = {}
    BY <2>2, <2>8
  <2>10. PICK f : Sums(f, u, P, n) /\ Value(u) = f[n]
    BY <1>1, ValueIs
  <2>11. PICK g : Sums(g, v, P, n) /\ Value(v) = g[n]
    BY <1>1, ValueIs
  <2>12. PICK h : Sums(h, u \cup v, P, n) /\ Value(w) = h[n]
    BY <1>1, <2>9, ValueIs
  <2>13. h[n] = f[n] + g[n]
    BY <1>2, <2>9, <2>10, <2>11, <2>12, SumsUnion
  <2>14. f[n] = P[r]
    BY <1>1, <1>2, <2>2, <2>8, <2>10, SumsOne
  <2>15. Value(v) \in Nat /\ \A b \in 0 .. width - 1 : b \in v => Power2[b] <= Value(v)
    BY ValueFacts
  <2>16. Value(v) = 0
    <3>1. Power2[r] = Power2[r] + Value(v) /\ Power2[r] \in Nat
      BY <1>1, <1>4, <2>3, <2>4, <2>7, <2>11, <2>12, <2>13, <2>14
    <3> QED BY <2>15, <3>1
  <2>17. v = {}
    <3>1. ASSUME NEW b \in v PROVE FALSE
      <4>1. b \in 0 .. width - 1 /\ b \in 0 .. width
        BY <2>8
      <4>2. Power2[b] <= 0 /\ Power2[b] >= 1 /\ Power2[b] \in Nat
        BY <2>3, <2>15, <2>16, <4>1
      <4> QED BY <4>2
    <3> QED BY <3>1
  <2>18. w = {r}
    BY <2>8, <2>9, <2>17
  <2>19. Min(w) = r
    <3>1. w \in SUBSET Nat
      OBVIOUS
    <3>2. Min(w) \in w
      BY <3>1, MinIs
    <3> QED BY <2>18, <3>2
  <2> QED BY <2>18, <2>19 DEF MathIsPower2
<1> QED BY <1>3, <1>4

\* What was set is read back as ones,
LEMMA SetRight ==
  ASSUME width \in Nat \ {0}, NEW w \in SUBSET (0 .. width - 1),
         NEW i \in 0 .. width - 1, NEW k \in 1 .. width - i
  PROVE  Value(BitsGet(BitsSet(w, i, k), i, k)) = Power2[k] - 1
<1>1. PICK n, P : n = width /\ P = Power2
  OBVIOUS
<1>2. n \in Nat /\ Powers(P, n) /\ k \in 0 .. n
  BY <1>1, PowersAre
<1>3. PICK v : v = BitsGet(BitsSet(w, i, k), i, k)
  OBVIOUS
<1>4. v = {b - i : b \in Mask(i, k)}
  <2>1. (w \cup Mask(i, k)) \cap Mask(i, k) = Mask(i, k)
    OBVIOUS
  <2> QED BY <1>3, <2>1 DEF BitsGet, BitsSet
<1>5. v = 0 .. k - 1
  <2>1. ASSUME NEW x \in v PROVE x \in 0 .. k - 1
    <3>1. PICK b \in Mask(i, k) : x = b - i
      BY <1>4, <2>1
    <3>2. b \in 0 .. width - 1 /\ i <= b /\ b < i + k
      BY DEF Mask
    <3> QED BY <3>1, <3>2
  <2>2. ASSUME NEW x \in 0 .. k - 1 PROVE x \in v
    <3>1. x + i \in 0 .. width - 1 /\ i <= x + i /\ x + i < i + k /\ (x + i) - i = x
      OBVIOUS
    <3>2. x + i \in Mask(i, k)
      BY <3>1 DEF Mask
    <3> QED BY <1>4, <3>1, <3>2
  <2> QED BY <2>1, <2>2
<1>6. PICK f : Sums(f, v, P, n) /\ Value(v) = f[n]
  BY <1>1, ValueIs
<1>7. f[n] = P[k] - 1
  BY <1>2, <1>5, <1>6, SumsFull
<1> QED BY <1>1, <1>3, <1>6, <1>7

\* what is freed is taken from the number, at its place in it,
LEMMA FreeRight ==
  ASSUME width \in Nat \ {0}, NEW w \in SUBSET (0 .. width - 1),
         NEW i \in 0 .. width - 1, NEW k \in 1 .. width - i
  PROVE  Value(BitsFree(w, i, k)) = Value(w) - Power2[i] * Value(BitsGet(w, i, k))
<1>1. PICK n, P : n = width /\ P = Power2
  OBVIOUS
<1>2. n \in Nat /\ Powers(P, n) /\ i \in 0 .. n
  BY <1>1, PowersAre
<1>3. PICK u, v, r : u = w \cap Mask(i, k) /\ v = BitsGet(w, i, k) /\ r = w \ Mask(i, k)
  OBVIOUS
<1>4. v = {b - i : b \in u}
  BY <1>3 DEF BitsGet
<1>5. \A b \in u : b \in 0 .. n - 1 /\ b >= i
  BY <1>1, <1>3 DEF Mask
<1>6. ASSUME NEW b \in 0 .. n - 1 PROVE b \in u <=> b >= i /\ b - i \in v
  <2>1. ASSUME b \in u PROVE b >= i /\ b - i \in v
    BY <1>4, <1>5, <2>1
  <2>2. ASSUME b >= i, b - i \in v PROVE b \in u
    <3>1. PICK c \in u : b - i = c - i
      BY <1>4, <2>2
    <3>2. c \in 0 .. n - 1
      BY <1>5
    <3>3. b = c
      BY <1>2, <3>1, <3>2
    <3> QED BY <3>3
  <2> QED BY <2>1, <2>2
<1>7. ASSUME NEW b \in 0 .. n - 1, b \in v PROVE b + i <= n - 1
  <2>1. PICK c \in u : b = c - i
    BY <1>4, <1>7
  <2>2. c \in 0 .. n - 1
    BY <1>5
  <2> QED BY <1>2, <2>1, <2>2
<1>8. PICK f : Sums(f, u, P, n) /\ Value(u) = f[n]
  BY <1>1, ValueIs
<1>9. PICK g : Sums(g, v, P, n) /\ Value(v) = g[n]
  BY <1>1, ValueIs
<1>10. PICK h : Sums(h, r, P, n) /\ Value(r) = h[n]
  BY <1>1, ValueIs
<1>11. w = u \cup r /\ u \cap r = {}
  BY <1>3
<1>12. PICK t : Sums(t, u \cup r, P, n) /\ Value(w) = t[n]
  BY <1>1, <1>11, ValueIs
<1>13. t[n] = f[n] + h[n]
  BY <1>2, <1>8, <1>10, <1>11, <1>12, SumsUnion
<1>14. f[n] = P[i] * g[n]
  BY <1>2, <1>6, <1>7, <1>8, <1>9, SumsShift
<1>15. f[n] \in Nat /\ h[n] \in Nat /\ t[n] \in Nat
  <2>1. n \in 0 .. n
    BY <1>2
  <2> QED BY <1>8, <1>10, <1>12, <2>1 DEF Sums
<1>16. h[n] = t[n] - f[n]
  BY ONLY <1>13, <1>15
<1>17. Value(r) = Value(w) - P[i] * Value(v)
  BY <1>9, <1>10, <1>12, <1>14, <1>16
<1>18. BitsFree(w, i, k) = r
  BY <1>3 DEF BitsFree
<1> QED BY <1>1, <1>3, <1>17, <1>18

\* and what is flipped twice is as it was.
LEMMA FlipRight ==
  ASSUME NEW w, NEW i, NEW k
  PROVE  BitsFlip(BitsFlip(w, i, k), i, k) = w
BY DEF BitsFlip

\* The part BitsRight of HelpersRight follows.
LEMMA BitsFollow ==
  ASSUME width \in Nat \ {0}, words \in [0 .. BitWords - 1 -> SUBSET (0 .. width - 1)]
  PROVE  BitsRight
<1>1. SUFFICES ASSUME NEW k \in 0 .. BitWords - 1, NEW w, w = words[k],
                      NEW m, m = BitsMsbIndex(w)
      PROVE  /\ BitsCount(w, width) = Cardinality(w)
             /\ m < width - 1 => Value(w) < Power2[m] /\ (m > 0 => Power2[m - 1] <= Value(w))
             /\ w # {} => /\ Power2[MathLog2(w)] <= Value(w)
                          /\ Value(w) < Power2[MathLog2(w) + 1]
                          /\ MathIsPower2(w) <=> \E r \in 0 .. width - 1 : Value(w) = Power2[r]
             /\ \A i \in 0 .. width - 1 : \A n \in 1 .. width - i :
                  /\ Value(BitsGet(BitsSet(w, i, n), i, n)) = Power2[n] - 1
                  /\ Value(BitsFree(w, i, n)) = Value(w) - Power2[i] * Value(BitsGet(w, i, n))
                  /\ BitsFlip(BitsFlip(w, i, n), i, n) = w
  BY DEF BitsRight
<1>2. w \in SUBSET (0 .. width - 1) /\ width \in Nat
  BY <1>1
<1>3. BitsCount(w, width) = Cardinality(w)
  BY <1>2, CountIs
<1>4. m < width - 1 => Value(w) < Power2[m] /\ (m > 0 => Power2[m - 1] <= Value(w))
  BY <1>1, <1>2, MsbRight
<1>5. ASSUME w # {}
      PROVE  /\ Power2[MathLog2(w)] <= Value(w) /\ Value(w) < Power2[MathLog2(w) + 1]
             /\ MathIsPower2(w) <=> \E r \in 0 .. width - 1 : Value(w) = Power2[r]
  BY <1>2, <1>5, LogRight, Power2Right
<1>6. ASSUME NEW i \in 0 .. width - 1, NEW n \in 1 .. width - i
      PROVE  /\ Value(BitsGet(BitsSet(w, i, n), i, n)) = Power2[n] - 1
             /\ Value(BitsFree(w, i, n)) = Value(w) - Power2[i] * Value(BitsGet(w, i, n))
             /\ BitsFlip(BitsFlip(w, i, n), i, n) = w
  BY <1>2, SetRight, FreeRight, FlipRight
<1> QED BY <1>3, <1>4, <1>5, <1>6

---------------------------------------------------------------------------
(* The comparison of memory. *)

\* f goes along the digits s, in base B.
Digits(f, s, B, n) ==
  /\ f \in [0 .. n -> Nat] /\ f[0] = 0
  /\ \A k \in 1 .. n : f[k] = f[k - 1] * B + s[k - 1]

\* Number is what its bytes are in base 1 + MaxByte.
LEMMA NumberIs ==
  ASSUME mem \in [Addrs -> Byte], NEW a \in Nat, NEW n \in Nat,
         \A k \in 0 .. n - 1 : a + k \in Addrs
  PROVE  \E f : Digits(f, [k \in 0 .. n - 1 |-> mem[a + k]], 1 + MaxByte, n) /\ Number(a, n) = f[n]
<1>1. PICK B, s : B = 1 + MaxByte /\ s = [k \in 0 .. n - 1 |-> mem[a + k]]
  OBVIOUS
<1> DEFINE Along(f) == f = [k \in 0 .. n |-> IF k = 0 THEN 0 ELSE f[k - 1] * B + mem[a + (k - 1)]]
           num == CHOOSE f : Along(f)
           G == [p \in (1 .. n) \X Nat |-> p[2] * B + s[p[1] - 1]]
<1>2. Number(a, n) = num[n]
  BY <1>1 DEF Number
<1>3. B \in Nat
  BY <1>1, HelpersAssumption
<1>4. \A k \in 1 .. n : k - 1 \in 0 .. n /\ k - 1 \in 0 .. n - 1
  OBVIOUS
<1>5. ASSUME NEW k \in 1 .. n PROVE s[k - 1] = mem[a + (k - 1)] /\ s[k - 1] \in Nat
  <2>1. a + (k - 1) \in Addrs
    BY <1>4
  <2>2. mem[a + (k - 1)] \in Byte
    BY <2>1
  <2>3. mem[a + (k - 1)] \in Nat
    BY <2>2, HelpersAssumption DEF Byte
  <2> QED BY <1>1, <1>4, <2>3
<1>6. G \in [(1 .. n) \X Nat -> Nat]
  <2>1. ASSUME NEW p \in (1 .. n) \X Nat PROVE p[2] * B + s[p[1] - 1] \in Nat
    <3>1. p[1] \in 1 .. n /\ p[2] \in Nat
      OBVIOUS
    <3>2. PICK x \in Nat, y \in Nat : x = p[2] /\ y = s[p[1] - 1]
      BY <1>5, <3>1
    <3>3. x * B + y \in Nat
      BY ONLY x \in Nat, y \in Nat, <1>3
    <3> QED BY <3>2, <3>3
  <2> QED BY <2>1
<1>7. \A k \in 1 .. n, x \in Nat : G[<<k, x>>] = x * B + s[k - 1]
  OBVIOUS
<1> HIDE DEF G
<1>8. PICK f \in [0 .. n -> Nat] : f[0] = 0 /\ \A k \in 1 .. n : f[k] = G[<<k, f[k - 1]>>]
  <2>1. PICK z : z = 0
    OBVIOUS
  <2>2. z \in Nat /\ n \in Nat
    BY <2>1
  <2>3. \E f \in [0 .. n -> Nat] : f[0] = z /\ \A k \in 1 .. n : f[k] = G[<<k, f[k - 1]>>]
    BY ONLY <1>6, <2>2, Recursion
  <2> QED BY <2>1, <2>3
<1>9. \A k \in 1 .. n : f[k] = f[k - 1] * B + mem[a + (k - 1)]
  BY <1>4, <1>5, <1>7, <1>8
<1>10. Along(f)
  <2>1. \A k \in 0 .. n : f[k] = IF k = 0 THEN 0 ELSE f[k - 1] * B + mem[a + (k - 1)]
    BY <1>8, <1>9
  <2> QED BY <2>1
<1>11. PICK g : g = num
  OBVIOUS
<1>12. Along(g)
  BY <1>10, <1>11
<1>13. g[0] = 0 /\ \A k \in 1 .. n : g[k] = g[k - 1] * B + mem[a + (k - 1)]
  BY <1>12
<1>14. \A k \in 0 .. n : g[k] \in Nat
  <2> DEFINE S == {k \in 0 .. n : g[k] \in Nat}
  <2>1. 0 \in S
    BY <1>13
  <2>2. ASSUME NEW k \in 1 .. n, k - 1 \in S PROVE k \in S
    <3>1. PICK x \in Nat, y \in Nat : x = g[k - 1] /\ y = mem[a + (k - 1)]
      BY <1>5, <2>2
    <3>2. x * B + y \in Nat
      BY ONLY x \in Nat, y \in Nat, <1>3
    <3>3. g[k] \in Nat
      BY <1>13, <3>1, <3>2
    <3> QED BY <3>3
  <2> HIDE DEF S
  <2>3. \A k \in 0 .. n : k \in S
    BY <2>1, <2>2, Turns
  <2> QED BY <2>3 DEF S
<1>15. g \in [0 .. n -> Nat]
  BY <1>12, <1>14
<1>16. \A k \in 1 .. n : g[k] = g[k - 1] * B + s[k - 1]
  BY <1>5, <1>13
<1>17. Digits(g, s, B, n)
  BY <1>13, <1>15, <1>16 DEF Digits
<1> QED BY <1>1, <1>2, <1>11, <1>17

\* The first digits that differ decide which of two numbers is less.
LEMMA FirstDecides ==
  ASSUME NEW n \in Nat, NEW B \in Nat, NEW s \in [0 .. n - 1 -> 0 .. B - 1],
         NEW t \in [0 .. n - 1 -> 0 .. B - 1], NEW f, Digits(f, s, B, n), NEW g, Digits(g, t, B, n),
         NEW i \in 0 .. n, \A k \in 0 .. i - 1 : s[k] = t[k]
  PROVE  /\ i = n => f[n] = g[n]
         /\ i < n /\ s[i] < t[i] => f[n] < g[n]
<1>1. f[0] = 0 /\ g[0] = 0
  BY DEF Digits
<1>2. \A k \in 1 .. n : f[k] = f[k - 1] * B + s[k - 1] /\ g[k] = g[k - 1] * B + t[k - 1]
  BY DEF Digits
<1>3. \A k \in 0 .. n : f[k] \in Nat /\ g[k] \in Nat
  BY DEF Digits
<1>4. f[i] = g[i]
  <2> DEFINE S == {k \in 0 .. i : f[k] = g[k]}
  <2>1. 0 \in S /\ i \in Nat
    BY <1>1
  <2>2. ASSUME NEW k \in 1 .. i, k - 1 \in S PROVE k \in S
    <3>1. k \in 1 .. n /\ k - 1 \in 0 .. i - 1 /\ f[k - 1] = g[k - 1]
      BY <2>2
    <3>2. s[k - 1] = t[k - 1]
      BY <3>1
    <3>3. f[k] = g[k]
      BY <1>2, <3>1, <3>2
    <3> QED BY <3>3
  <2> HIDE DEF S
  <2>3. \A k \in 0 .. i : k \in S
    BY <2>1, <2>2, Turns
  <2>4. i \in S
    BY <2>3
  <2> QED BY <2>4 DEF S
<1>5. ASSUME i < n, s[i] < t[i] PROVE f[n] < g[n]
  <2> DEFINE S == {k \in 0 .. n : i < k => f[k] < g[k]}
  <2>1. 0 \in S
    OBVIOUS
  <2>2. ASSUME NEW k \in 1 .. n, k - 1 \in S PROVE k \in S
    <3>1. k - 1 \in 0 .. n /\ k - 1 \in 0 .. n - 1
      OBVIOUS
    <3>2. PICK a \in Nat, b \in Nat, x \in 0 .. B - 1, y \in 0 .. B - 1 :
            a = f[k - 1] /\ b = g[k - 1] /\ x = s[k - 1] /\ y = t[k - 1]
      BY <1>3, <3>1
    <3>3. f[k] = a * B + x /\ g[k] = b * B + y
      BY <1>2, <3>2
    <3>4. CASE i < k - 1
      <4>1. a < b
        BY <2>2, <3>2, <3>4
      <4>2. PICK c \in Nat : b = a + 1 + c
        <5>1. b - a - 1 \in Nat /\ b = a + 1 + (b - a - 1)
          BY <4>1
        <5> QED BY <5>1
      <4>3. PICK p \in Nat, q \in Nat : p = a * B /\ q = c * B
        OBVIOUS
      <4>4. b * B = p + B + q
        BY ONLY <4>2, <4>3, a \in Nat, c \in Nat, B \in Nat
      <4>5. f[k] = p + x /\ g[k] = p + B + q + y
        BY ONLY <3>3, <4>3, <4>4
      <4>6. p + x < p + B + q + y
        BY ONLY p \in Nat, q \in Nat, x \in 0 .. B - 1, y \in 0 .. B - 1, B \in Nat
      <4> QED BY <4>5, <4>6
    <3>5. CASE i = k - 1
      <4>1. a = b /\ x < y
        BY <1>4, <1>5, <3>2, <3>5
      <4>2. PICK p \in Nat : p = a * B
        OBVIOUS
      <4>3. f[k] < g[k]
        BY <3>3, <4>1, <4>2
      <4> QED BY <4>3
    <3>6. CASE ~(i < k)
      BY <3>6
    <3> QED BY <3>4, <3>5, <3>6
  <2> HIDE DEF S
  <2>3. \A k \in 0 .. n : k \in S
    BY <2>1, <2>2, Turns
  <2>4. n \in S
    BY <2>3
  <2> QED BY <1>5, <2>4 DEF S
<1> QED BY <1>4, <1>5

\* The invariant of memcmp: the bytes it has passed are the same in both regions.
CompareInv ==
  /\ mem \in [Addrs -> Byte]
  /\ copy.step # "idle" /\ copy.op = "memcmp" =>
       \A k \in 0 .. copy.i - 1 : mem[copy.dst + k] = mem[copy.src + k]

\* A turn of a loop that writes bytes leaves bytes.
LEMMA BytesKept ==
  ASSUME mem \in [Addrs -> Byte], NEW W, NEW v \in Byte, copy.op # "memcmp", copy'.op = copy.op,
         mem' = [a \in Addrs |-> IF a \in W THEN v ELSE mem[a]]
  PROVE  CompareInv'
<1>1. mem' \in [Addrs -> Byte]
  OBVIOUS
<1> QED BY <1>1 DEF CompareInv

\* Each step of a call keeps it.
LEMMA CompareStep == CopyInv /\ CompareInv /\ [CopyNext]_uvars => CompareInv'
<1> SUFFICES ASSUME CopyInv, CompareInv, [CopyNext]_uvars PROVE CompareInv'
  OBVIOUS
<1> DEFINE d == copy.dst
           s == copy.src
           n == copy.size
           i == copy.i
<1>1. /\ mem \in [Addrs -> Byte] /\ 0 \in Byte
      /\ copy \in [op : Ops \cup {"none"}, dst : Nat, src : Nat, size : Nat, i : Nat,
                   step : {"idle", "loop", "returned"}]
  BY HelpersAssumption DEF CompareInv, CopyInv, Byte
<1>2. CASE UNCHANGED uvars
  BY <1>2 DEF uvars, CompareInv
<1>3. ASSUME NEW op \in Ops, NEW x \in Addrs, NEW y \in Addrs, NEW z \in 0 .. MemSize,
             CopyCall(op, x, y, z)
      PROVE  CompareInv'
  <2>1. /\ mem' = mem
        /\ copy' = [op |-> op, dst |-> x, src |-> y, size |-> z, step |-> "loop",
                    i |-> IF op = "memmove" /\ ~(x < y) THEN z ELSE 0]
    BY <1>3 DEF CopyCall
  <2>2. copy'.op = op /\ (op = "memcmp" => copy'.i = 0)
    BY <2>1
  <2>3. op = "memcmp" => \A k \in 0 .. copy'.i - 1 : FALSE
    BY <2>2
  <2> QED BY <1>1, <2>1, <2>2, <2>3 DEF CompareInv
<1>4. CASE MoveUp \/ CopyByte
  <2>1. /\ copy.step = "loop" /\ copy.op \in {"memmove", "memcpy"} /\ i < n
        /\ copy' = [copy EXCEPT !.i = i + 1]
        /\ mem' = [a \in Addrs |-> IF a \in {d + i} THEN mem[s + i] ELSE mem[a]]
    BY <1>4 DEF MoveUp, CopyByte, Loop, Turn
  <2>2. i \in 0 .. n - 1
    BY <1>1, <2>1
  <2>3. s + i \in Addrs
    BY <2>1, <2>2, TurnFacts
  <2>4. mem[s + i] \in Byte /\ copy.op # "memcmp" /\ copy'.op = copy.op
    BY <1>1, <2>1, <2>3
  <2> QED BY <1>1, <2>1, <2>4, BytesKept
<1>5. CASE MoveDown
  <2>1. /\ copy.step = "loop" /\ copy.op = "memmove" /\ i # 0
        /\ copy' = [copy EXCEPT !.i = i - 1]
        /\ mem' = [a \in Addrs |-> IF a \in {d + i - 1} THEN mem[s + i - 1] ELSE mem[a]]
    BY <1>5 DEF MoveDown, Loop, Turn
  <2>2. i - 1 \in 0 .. n - 1
    BY <1>1, <2>1, TurnFacts
  <2>3. s + (i - 1) \in Addrs /\ s + (i - 1) = s + i - 1
    BY <1>1, <2>1, <2>2, TurnFacts
  <2>4. mem[s + i - 1] \in Byte /\ copy.op # "memcmp" /\ copy'.op = copy.op
    BY <1>1, <2>1, <2>3
  <2> QED BY <1>1, <2>1, <2>4, BytesKept
<1>6. CASE SetByte \/ SetWord
  <2>1. /\ copy.op \in Fills
        /\ \E j : copy' = [copy EXCEPT !.i = j]
        /\ \E W : mem' = [a \in Addrs |-> IF a \in W THEN 0 ELSE mem[a]]
    BY <1>6 DEF SetByte, SetWord, Loop, Turn, Fills
  <2>2. copy.op # "memcmp" /\ copy'.op = copy.op
    BY <1>1, <2>1 DEF Fills
  <2> QED BY <1>1, <2>1, <2>2, BytesKept
<1>7. CASE CompareByte
  <2>1. /\ copy.step = "loop" /\ copy.op = "memcmp" /\ mem[d + i] = mem[s + i]
        /\ copy' = [copy EXCEPT !.i = i + 1]
        /\ mem' = [a \in Addrs |-> IF a \in {} THEN 0 ELSE mem[a]]
    BY <1>7 DEF CompareByte, Loop, Turn, Same
  <2>2. mem' = mem
    BY <1>1, <2>1
  <2>3. copy'.dst = d /\ copy'.src = s /\ copy'.i = i + 1
    BY <1>1, <2>1
  <2>4. \A k \in 0 .. (i + 1) - 1 : mem[d + k] = mem[s + k]
    <3> TAKE k \in 0 .. (i + 1) - 1
    <3>1. k = i \/ k \in 0 .. i - 1
      BY <1>1
    <3> QED BY <2>1, <3>1 DEF CompareInv
  <2> QED BY <1>1, <2>2, <2>3, <2>4 DEF CompareInv
<1>8. CASE CopyReturns
  <2>1. copy.step = "loop" /\ copy' = [copy EXCEPT !.step = "returned"] /\ mem' = mem
    BY <1>8 DEF CopyReturns
  <2>2. copy'.op = copy.op /\ copy'.dst = d /\ copy'.src = s /\ copy'.i = i
    BY <1>1, <2>1
  <2> QED BY <1>1, <2>1, <2>2 DEF CompareInv
<1> QED BY <1>2, <1>3, <1>4, <1>5, <1>6, <1>7, <1>8 DEF CopyNext

\* The order that memcmp returns is that of the two numbers.
LEMMA CompareFollows ==
  ASSUME CopyInv, CompareInv
  PROVE  ComparesRight
<1>1. SUFFICES ASSUME copy.step = "returned", copy.op = "memcmp",
                      NEW x, NEW y, x = Number(copy.dst, copy.size), y = Number(copy.src, copy.size)
      PROVE  MemCmp = IF x < y THEN -1 ELSE IF x > y THEN 1 ELSE 0
  BY DEF ComparesRight
<1>2. PICK d, e, n, i : d = copy.dst /\ e = copy.src /\ n = copy.size /\ i = copy.i
  OBVIOUS
<1>3. d \in Nat /\ e \in Nat /\ n \in Nat /\ i \in 0 .. n
  BY <1>1, <1>2 DEF CopyInv
<1>4. \A k \in 0 .. n - 1 : d + k \in Addrs /\ e + k \in Addrs
  <2>1. Region(d, n) \cup Region(e, n) \subseteq Addrs
    BY <1>1, <1>2 DEF CopyInv, Callable
  <2> TAKE k \in 0 .. n - 1
  <2>2. d + k \in Region(d, n) /\ e + k \in Region(e, n)
    BY <1>3 DEF Region
  <2> QED BY <2>1, <2>2
<1>5. PICK B, s, t : /\ B = 1 + MaxByte
                     /\ s = [k \in 0 .. n - 1 |-> mem[d + k]]
                     /\ t = [k \in 0 .. n - 1 |-> mem[e + k]]
  OBVIOUS
<1>6. mem \in [Addrs -> Byte]
  BY DEF CompareInv
<1>7. B \in Nat /\ Byte = 0 .. B - 1
  BY <1>5, HelpersAssumption DEF Byte
<1>8. s \in [0 .. n - 1 -> 0 .. B - 1] /\ t \in [0 .. n - 1 -> 0 .. B - 1]
  BY <1>4, <1>5, <1>6, <1>7
<1>9. PICK f : Digits(f, s, B, n) /\ x = f[n]
  BY <1>1, <1>2, <1>3, <1>4, <1>5, <1>6, NumberIs
<1>10. PICK g : Digits(g, t, B, n) /\ y = g[n]
  BY <1>1, <1>2, <1>3, <1>4, <1>5, <1>6, NumberIs
<1>11. x \in Nat /\ y \in Nat
  BY <1>3, <1>9, <1>10 DEF Digits
<1>12. \A k \in 0 .. i - 1 : s[k] = t[k]
  <2> TAKE k \in 0 .. i - 1
  <2>1. k \in 0 .. n - 1 /\ mem[d + k] = mem[e + k]
    BY <1>1, <1>2, <1>3 DEF CompareInv
  <2> QED BY <1>5, <2>1
<1>13. CASE i = n
  <2>1. /\ n \in Nat /\ B \in Nat /\ i \in 0 .. n /\ s \in [0 .. n - 1 -> 0 .. B - 1]
        /\ t \in [0 .. n - 1 -> 0 .. B - 1] /\ Digits(f, s, B, n) /\ Digits(g, t, B, n)
        /\ \A k \in 0 .. i - 1 : s[k] = t[k]
    BY ONLY <1>3, <1>7, <1>8, <1>9, <1>10, <1>12
  <2>2. /\ i = n => f[n] = g[n]
        /\ i < n /\ s[i] < t[i] => f[n] < g[n]
    BY ONLY <2>1, FirstDecides
  <2>3. MemCmp = 0
    BY <1>2, <1>13 DEF MemCmp
  <2>4. x = y
    BY ONLY <1>9, <1>10, <1>13, <2>2
  <2> QED BY <1>11, <2>3, <2>4
<1>14. CASE i < n
  <2>1. i \in 0 .. n - 1
    BY <1>3, <1>14
  <2>2. s[i] = mem[d + i] /\ t[i] = mem[e + i] /\ s[i] \in 0 .. B - 1 /\ t[i] \in 0 .. B - 1
    BY <1>5, <1>8, <2>1
  <2>3. mem[d + i] # mem[e + i]
    BY <1>1, <1>2, <1>14 DEF CopyInv, LoopOver, Same
  <2>4. MemCmp = IF s[i] < t[i] THEN -1 ELSE 1
    BY <1>2, <1>3, <1>14, <2>2 DEF MemCmp
  <2>5. CASE s[i] < t[i]
    <3>1. x < y
      BY <1>3, <1>7, <1>8, <1>9, <1>10, <1>12, <1>14, <2>5, FirstDecides
    <3> QED BY <2>4, <2>5, <3>1
  <2>6. CASE t[i] < s[i]
    <3>1. \A k \in 0 .. i - 1 : t[k] = s[k]
      BY <1>12
    <3>2. y < x
      BY <1>3, <1>7, <1>8, <1>9, <1>10, <1>14, <2>6, <3>1, FirstDecides
    <3>3. ~(x < y) /\ x > y /\ ~(s[i] < t[i])
      BY <1>11, <2>2, <2>6, <3>2
    <3> QED BY <2>4, <3>3
  <2>7. s[i] < t[i] \/ t[i] < s[i]
    BY <1>7, <2>2, <2>3
  <2> QED BY <2>5, <2>6, <2>7
<1> QED BY <1>3, <1>13, <1>14

\* The calls of a copy and those of a bitmap do not touch each other's state.
LEMMA CallsApart == [CopyNext \/ BitmapCall]_uvars =>
                      /\ [CopyNext]_uvars \/ (mem' = mem /\ before' = before /\ copy' = copy)
                      /\ [BitmapCall]_uvars \/ UNCHANGED bitvars
<1> SUFFICES ASSUME CopyNext \/ BitmapCall
             PROVE  /\ CopyNext \/ (mem' = mem /\ before' = before /\ copy' = copy)
                    /\ BitmapCall \/ UNCHANGED bitvars
  OBVIOUS
<1>1. ASSUME CopyNext PROVE UNCHANGED bitvars
  BY <1>1 DEF CopyNext, CopyCall, MoveUp, MoveDown, CopyByte, SetByte, SetWord, CompareByte,
              CopyReturns, Turn, bitvars
<1>2. ASSUME BitmapCall PROVE mem' = mem /\ before' = before /\ copy' = copy
  BY <1>2 DEF BitmapCall
<1> QED BY <1>1, <1>2

\* The helpers do what they are for, whatever calls are made and though those of
\* a bitmap come between the turns of a copy.
THEOREM HelpersSafe == USpec => []HelpersRight
<1> DEFINE UInv == CopyInv /\ CompareInv /\ BitmapInv
<1>1. UInit => UInv
  <2> SUFFICES ASSUME UInit PROVE UInv
    OBVIOUS
  <2>1. CopyInv /\ CompareInv
    BY DEF UInit, CopyInv, CompareInv, NoCopy
  <2> QED BY <2>1, BitmapStarts
<1>2. UInv /\ [CopyNext \/ BitmapCall]_uvars => UInv'
  <2> SUFFICES ASSUME UInv, [CopyNext \/ BitmapCall]_uvars PROVE UInv'
    OBVIOUS
  <2>1. CopyInv' /\ CompareInv'
    <3>1. CASE [CopyNext]_uvars
      BY <3>1, CopyStep, CompareStep
    <3>2. CASE mem' = mem /\ before' = before /\ copy' = copy
      <4>1. CopyInv'
        BY <3>2, CopyLeft
      <4>2. CompareInv'
        BY <3>2 DEF CompareInv
      <4> QED BY <4>1, <4>2
    <3> QED BY <3>1, <3>2, CallsApart
  <2>2. BitmapInv'
    <3>1. CASE [BitmapCall]_uvars
      BY <3>1, BitmapStep
    <3>2. CASE UNCHANGED bitvars
      BY <3>2 DEF bitvars, BitmapInv, Indices, BitIndex, BitmapIndex
    <3> QED BY <3>1, <3>2, CallsApart
  <2> QED BY <2>1, <2>2
<1>3. UInv => HelpersRight
  <2> SUFFICES ASSUME UInv PROVE HelpersRight
    OBVIOUS
  <2>1. CopiesRight
    BY CopiesFollow
  <2>2. ComparesRight
    BY CompareFollows
  <2>3. BitmapRight
    BY BitmapFollows
  <2>4. BitsRight
    BY BitsFollow, HelpersAssumption DEF BitmapInv
  <2> QED BY <2>1, <2>2, <2>3, <2>4 DEF HelpersRight
<1> HIDE DEF UInv
<1> QED BY <1>1, <1>2, <1>3, PTL DEF USpec
=============================================================================
