# NowRaspOS in TLA+

A verification project for NowRaspOS, a small multi-core kernel for the Raspberry Pi 3
(`src/`): TLA+ modules translated from its source, TLC configurations that check them on
small instances, and theorems that TLAPS checks for every value of the constants.

Contents: [system](#the-system) · [modules](#the-modules) · [runs](#what-the-runs-check) ·
[fairness](#fairness) · [proofs](#what-is-proved) · [bugs](#where-the-code-disagrees-with-its-own-words) ·
[limits](#what-is-not-modelled) · [plan](#plan)

## The system

Four cores share one kernel address space. There is no user mode; a *task* is a kernel thread
with a stack of one page. Core 0 boots, builds the memory allocators and the scheduler, starts
the log task and the local timer, and then wakes cores 1 to 3. Every core ends in `sched_start`
and runs its idle task until it finds a task on the shared ready queues.

| component | state | operations | interacts with |
|---|---|---|---|
| scheduler (`sched.c`, `task.c`, `task_asm.S`) | `ready_queue[8]`, `wait_queue[59]`, `sched_lock`, each core's `curr_task`, the fields of `task_t` | `sched_task_add`, `sched_start`, `sched_yield`, `event_waiton`, `event_signal`, `event_signalall`, `sched_timer_isr`, `sched_async_timeout` | queues, spinlocks, mailboxes, interrupts; called by the log, the sleeping lock and tasks |
| queues (`queue.c`) | intrusive doubly linked rings | enqueue and dequeue at both ends, removal of an entry, iteration that survives removal | scheduler |
| interrupts (`irq.c`, `irq_asm.S`, `cpu_asm_defs.s`) | the saved frame and `el1_stack_ptr` | `handle_irq`: mailboxes, then the local timer | scheduler, mailboxes, timers |
| mailboxes (`mbox.c`) | one word per pair of cores; a buffer and two queues of words to the video core | send a command (panics if the word is not 0), read and clear, `CORE_EXEC` calls the function sent; `mbox_request` of a property | scheduler (timeouts), panics (dump, stop), boot (memory size) |
| locks (`lock.c`) | a word per lock; a semaphore count and the waiting writers per reader-writer lock | spin, try, unlock; take, give, set; read and write lock | all |
| sleeping lock (`slock.c`) | a lock word and an event id | try 20 times, then wait 100 ms for the event; unlock and signal | scheduler events |
| log (`klog.c`) | a ring of 1024 messages with a read and a write index under a reader-writer lock | `klog_printf` reserves a slot and fills it as a *reader*; the flush task prints and frees as a *writer* | locks, scheduler, UART |
| page allocator (`kalloc_page.c`, `mm.c`) | free lists per order, a structure per page | allocate a block of an order, reserve a range, free and coalesce | boot, heap |
| heap (`kalloc.c`, `kalloc_slab.c`, `kalloc_cache.c`) | caches with three lists of slabs, each slab with a chain of free indexes; a lock | allocate by size from a cache or as pages, free, expand and shrink caches | page allocator |
| linked lists (`linkedlist.c`) | nodes | insert, remove, iterate | page allocator, caches |
| timers (`timer.c`) | hardware counters | 64-bit reads, difference, wait, acknowledge | scheduler |
| boot (`kernel.c`, `start.S`, `early_init.c`) | `early_init_done`, `core_ready`, the page tables | handshake between the cores; the tables | all |
| early memory (`early_mm.c`, `mm.c`) | two bump allocators, the memory map | pages, data, and what `mm_init` reserves | boot, page allocator |
| the rest | | page-table bits, UART, GPIO, printf, emb-stdio (vendored), device tree, strings, tests | |

What makes it hard:

* **Concurrency.** Four cores enter the scheduler at any time. `sched_lock` is taken in the context
  of one task and released in the context of the next, on another stack: a task that is put on the
  ready queue by `sched_yield` has not saved its registers yet.
* **Ordering.** Core 0 pauses the tasks of other cores in its timer interrupt and tells them by
  mailbox interrupt, which may arrive after the task has left that core, and a mailbox holds one
  message. A signal and the timeout of a wait race to wake the same task. Interrupts are enabled
  before a context is restored. An unlock may signal before the other task waits.
* **Queues changed while they are walked**: by the aging of ready tasks and by wakeups.
* **Liveness.** Priorities starve unless aging works; a timed wait must end.
* **Boundaries**: unsigned times that count down, the ring of the log at its end, the top order
  of the page allocator, full mailboxes, a counter read in two halves, the end of a
  region of memory, the last object of a slab.

What makes each component correct, in short:

* scheduler: no task is lost, is in two places or runs on two cores; the lock is held exactly while
  a core is inside; wait queues and tasks agree; each preemption arrives; ready tasks run, timed waits end;
* sleeping lock: mutual exclusion, no waiter left behind by an unlock;
* reader-writer lock: a writer excludes readers and writers, its count returns to the maximum;
* log: messages are printed once, in the order of their slots, and only full ones;
* page allocator: blocks of the free lists and of the users partition the memory; free blocks are coalesced;
* heap: two users never share memory; slab counts, chains and lists agree;
* queues and lists: the links form the sequence that the calls promise, and a walk whose body removes entries misses none;
* timers: a time that is read is one the counter had, differences are right across a wrap;
* contexts: a restore resumes the frame its context was last saved in;
* boot: every core gets through the handshake; the tables map what the memory map says; the allocator is left with memory nobody uses;
* property channel: a call returns the answer to its own tag.

The `hazards` list of `PROJECT.json` names each of these at its line of code with the property
that covers it.

## The modules

| module | what it is |
|---|---|
| `TaskQueues` | arrays of intrusive queues as functions to sequences: `Enqueue`, `Dequeue` |
| `Sched` | the scheduler, with the parts of `task.c`, `mbox.c`, `irq.c` and `lock.c` it runs on |
| `SchedAbs` | what it promises: a task is new, ready, waiting or running on one core |
| `MCSched` | constants for TLC; the `.cfg` files choose the instance |
| `SharedLemmas` | facts about `Enqueue` and `Dequeue`, multiples and quotients |
| `SchedProofs` | types, the lock, where tasks are; `Sched` implements `SchedAbs`; wait queues, assertions, preemption, the order of ready and of waiting tasks |
| `RwLock` | the reader-writer lock on its semaphore; a specification of its own, and part of `Klog` |
| `Klog` | the log: writers of the ring as readers of the lock, the flush task as its writer |
| `LogAbs` | what the log promises: a bounded queue |
| `MCKlog` | constants for TLC |
| `KlogProofs` | the lock, the types, the ring, and `Klog` implements `LogAbs` |
| `Buddy` | the page allocator, with the areas of `mm.c`, the lists it keeps and the lock of `kalloc.c` |
| `BlockPool` | what it promises: callers own aligned blocks that never overlap |
| `MCBuddy` | constants for TLC |
| `BuddyBlocks` | lemmas about blocks and free lists |
| `BuddyProofs` | types, partition, lists, assertions, the count of free pages, that none is wasted, and `Buddy` implements `BlockPool` |
| `QueueLinks` | the links of the intrusive queues and the walk of `queue_iter_safe` |
| `IrqContext` | the frames on the stacks of Core 0, the interrupt vector, the switch and the restore |
| `Slock` | the sleeping lock |
| `Timer` | the system timer's two words, differences and waits |
| `CoreStart` | all cores from reset to `sched_start` |
| `MboxTags` | the property channel, with the cache between its two sides |
| `MCMachine` | these six, `RwLock` and an instance of `Sched` side by side, and constants for TLC |
| `MachineProofs` | the queues, the frames, the sleeping lock, the timer, the start and the property channel |
| `Slab`, `Heap` | one slab; caches, `kalloc_alloc` and `kalloc_free` over `BlockPool` |
| `HeapAbs` | what the heap promises: objects that never overlap |
| `HeapProofs` | assertions, lists, counts and chains of the heap, and `Heap` implements `HeapAbs` |
| `LinkedList` | the singly and doubly linked lists, with their pointers |
| `SeqAbs` | what a list promises: a sequence |
| `BootMemory` | early memory, the page tables, and what `mm_init` takes from the page allocator |
| `Helpers` | copies, fills and comparisons of memory, words of bits, bitmaps, powers of two |
| `MCMemory` | heap, lists, boot memory and helpers side by side, and constants for TLC |
| `MemoryProofs` | boot memory: what the allocator is left with, and what the page tables say; the calls of the linked lists; copies and bitmaps |

### `Sched`

`pc[c]` says what core `c` executes:

| `pc` | the core is |
|---|---|
| `"boot"` | before its `sched_start` |
| `"task"` | running `curr[c]`, interrupts enabled |
| `"enter"` | spinning on `sched_lock` in the entry point `call[c]`, interrupts disabled |
| `"cs"` | inside that entry point with the lock |
| `"select"` | in `task_switch_sync` or `task_switch_async`, about to call `sched_task_select` |
| `"switch"` | on the next task's stack, about to call `sched_task_switch` |
| `"rqenter"` | Core 0 in `sched_ready_queue_tick`, at its `sched_enter_save` |
| `"rqtick"`, `"wqtick"` | Core 0 walking the ready queues, the wait queues, in the tick |
| `"panic"` | spinning in `DEBUG_PANIC` |

The other variables are those of the code: `lock` is `sched_lock`, `curr` is `cpu_info.curr_task`,
`rq` and `wq` are `ready_queue` and `wait_queue`, `mbox[c]` says that the word Core 0 sends to
core `c` holds a message, and the fields of `task_t` have their names (`ev_id` and `ev_left` are
those of `wait_event`). `cursor` is the place of the tick's walk and the `elapsed` it was given.

The actions, by entry point: `BootAdd` (`sched_task_add`), `Start` (`sched_start`), `UserCall` and
`IdleCall` (a task or the idle loop calls the scheduler), `MboxIrq` and `TimerIrq` (`handle_irq`),
`Acquire` (the spinlock), then with the lock `YieldCS` (`sched_yield`), `WaitCS` (`event_waiton`),
`SignalWake`/`SignalDone` (`event_signal`, `event_signalall`: a step per waiter), `AsyncCS`
(`sched_async_timeout`), `TimerCS`, `RqTick`/`RqTickNext`, `WqTick`/`WqTickNext` (`sched_timer_isr`:
the billing of all cores, then a step per queue entry), `SelectReady`/`SelectIdle`
(`sched_task_select`) and `Switch` (`sched_task_switch`).

Decisions:

* What happens between taking and releasing `sched_lock` is invisible to other cores, except for what
  they write themselves: their mailbox word. So a critical section is one step, unless it walks a queue
  or crosses a stack switch, where each half is a step of its own.
* `ready_lock`, `wait_lock[]` and `task->lock` are only taken inside `sched_lock` and add nothing.
* A core in `"task"` takes a pending mailbox interrupt before its next call. An interrupt that comes
  between the call and its `irq_disable` commutes with the call: it is the run in which the core took
  it first, or in which Core 0 sent it after the core disabled its interrupts.
* Interrupts are taken in `"task"` only. The window between the `irq_enable` at the end of
  `handle_irq` or `sched_exit` and the restored context, and ticks during boot, are `IrqContext`.
* `TASK_VALID` guards against memory corruption and is taken to hold.
* A panic keeps its locks for ever; what the handler had changed before it is left out.
* `event_signal(0)` and `event_waiton(0)` do not occur: `event_init` returns the incremented counter.
* `ReadyTickRelocks` chooses between the code as it is (`TRUE`: `sched_ready_queue_tick` takes
  `sched_lock` again, line 293) and the code without that pair of calls (`FALSE`). As the code stands
  the first tick hangs Core 0 with the lock, so all that a tick does is reachable only in the second
  variant. The theorems hold for both.

### `RwLock` and `Klog`

`RwLock` has the two words of `rw_lock_t` (`waiting` is `writer_waiting`, `num` is `sem.num`) and where each
process is: `"test"` in the loop on `writer_waiting`, `"take"` in `semaphore_take`, `"set"` in the first
`semaphore_set`, `"in"`, and `"leave"` between the second `semaphore_set` and the decrement of
`writer_waiting`. A step is one atomic instruction sequence; a spin is a step that is not enabled yet.

`Klog` extends it with the ring. A process `"in"` the lock has a `step`: a task loads the indices
(`Load`), takes a slot by compare-exchange (`Reserve`) or tries again (`Retry`: the index has moved, or the
store-exclusive failed), copies its message in two halves (`Copy`, `Copy2`) and leaves (`Written`); the flush task
loads the indices (`FlushLoad`), hands message after message to the handler (`PrintNext`) and stores the read index
(`FlushStore`). The two halves make a message that is printed while it is copied, or copied over, visible.

* `read_index` is only written under the write lock, so `Load` reads both indices in one step; `write_index` is
  compared again by `Reserve`.
* `atomic_str_64` is a store-exclusive whose result nobody looks at, so `FlushStore` may leave `read_index` alone.
  The log is then flushed once more from where it was: `LogAbs` lets the queue be printed again as a whole.
* `FullTestWraps` chooses between `WRITE_FULL` as it is (`FALSE`) and with `(w_i + 1) % KLOG_BUF_SIZE` (`TRUE`). As
  it is, the log of `KLOG_BUF_SIZE` messages that ends at the last slot is lost as a whole; every other run
  is of the variant that works, and the theorem `WrongOnlyAtEnd` of both.
* The handler is set by `klog_init`, before the flush task exists. That the flush task runs again after its
  `sched_yield` is `ReadyRuns` of `Sched`.

### `Buddy`

A `kalloc_buddy_t` stands for two pages and is named by the first of them, an even page index. `order` is its `buddy_memorder`,
which means something only for the first buddy of a block; with order 0 its two pages are allocated one by one and the
buddy stays on its list until both are taken. `lists.free[a][k]` is `free_buddy_list[k]` of area `a`, `lists.areas[k]` the global
list of areas, `valid` the pages with `MM_PAGE_VALID`, `held` the addresses that callers own, and `call[c]` the arguments and locals
of the core that is in the allocator:

| `pc` | the core is |
|---|---|
| `"idle"` | outside |
| `"ancestor"` | in the loop of `get_free_ancestor` (`Ancestor`) |
| `"split"` | in `split_to_target_memorder` or `split_to_target_addr` (`Split`), then at the assignment of the block (`AssignPage`, `AssignBlock`) |
| `"coalesce"` | in the loop of `coalesce_buddies` (`Coalesce`, and `FreeDone` behind it) |
| `"full"` | in the panic of an allocation that finds no block, which is the code's way of running out of memory |
| `"panic"` | in any other panic |

A step is one turn of a loop; `Alloc` is the search of `mm_find_free_area` and `find_free_buddy`, `Free` the part of
`kalloc_page_free_pages` before the loop. `BlockPool` does not see splits and merges: the refinement mapping reads the
size of an owned block where the code does, in the order of its buddy.

* `mm_init` ends by reserving the pages below the end of the early memory one by one (`Reserve` while not `Booted`), before the other cores
  start and without the lock. They are never freed, so `Free` leaves them alone. `AnyReserve` lets
  `kalloc_page_reserve_pages` be called later for any free block, as `kern_tests.c` does.
* `FreeLocks` is `FALSE` for the code as it is: `kalloc_free` gives pages back without the lock. Every run but
  that finding is of the allocator with the lock; `RightInTurn` and `RightOnOneCore` are theorems about both.
* A core that panics in the allocator keeps the lock: the run has no deadlock check because a full memory ends this way.
* The assertions of `linkedlist.c` (a node is pushed once, and deleted only from the list it is on) are part of `ListsInv`.
* `is_buddy_free` reads the links of the node, which are reset when it leaves its list. In `Buddy` it is membership of the list
  of its area and order: a buddy on any other list would break `ListsInv`.
* `kalloc_free_pages` hands on a pointer with the upper address bits set, which no caller does; it is not modelled.

### `QueueLinks`

`next` and `prev` are the links of heads and entries; `of`, `qe` and `qe_prev` the head and the two variables of a
`queue_iter_safe` loop. Each call of `queue.c` is an action (`EnqueueHead` ... `RmQueue`), as is each turn of the loop
(`IterStart`, `IterNext`, `IterEnd`), between which the body takes the entry it is at out of the queue (`BodyRemoves`), zeroes it or links
it to another queue, as the bodies in `sched.c` and in the tests do. `holds` and `due` are history: what each queue should hold, and which entries the walk
has still to come to. Other cores do not change a queue that is walked: the scheduler holds `sched_lock`. `holds` is changed by the operators of `TaskQueues`, which are what `Sched` uses of the queues, and that an entry is given to one queue at a time is `OnePlace`.

### `IrqContext`

A stack pointer is a stack and the number of frames on it; `mem` keeps in each frame where it goes on, also after it was popped. `el1[t]` is `el1_stack_ptr`, `pc` where Core 0 is:
`"boot"`, `"task"`, `"handler"` (with `core_irq`, the bits not yet come to), `"leaving"` (behind `irq_enable` of `handle_irq`) and `"restore"` (in `TASK_RESTORE_CONTEXT`).
`TakeIrq` pushes a frame and sets `el1_stack_ptr`, `SwitchSync` and `SwitchAsync` go to the next task's stack, `RestoreContext` resumes
whatever `el1_stack_ptr` names. `owes[s]` is history: where stack `s` should still go on.

* The vector adjusts its stack pointer by a word that nothing wrote (`Adjust`); this is without effect because the restore loads another, and
  `Junk` makes it visible when it is not.
* `MaskedRestore` chooses between the code (`FALSE`) and an interrupt that stays masked until the restore's `eret`; `TickAfterStart` between the code (`FALSE`: `localtimer_irqinit`
  comes before `sched_start`, while `curr_task` is already the idle task and the stack the boot stack) and a timer started behind it. The passing run has both `TRUE`.
* `MaxFrames` bounds a stack. With the restore masked no stack has more than one frame; without, it cuts off what is wrong by then.

### `Slock`

`spot[t]` is the place of a task: in the loop (`"try"`, `"count"`), asleep in `event_waiton`, in the lock, or between the store and the signal of `unlock_slock`. `sleepers` is
the wait queue of the event, in the order in which `event_signal` serves it (`WakeOrder` of `Sched`), and a sleeper's time may be over at any moment (`TimedWaitEnds`). A try may
fail spuriously. `TimedWait` is `TRUE` in the code; without it a signal that comes before the wait is never repaired, and `FreeLockTaken` fails.

### `Timer`

`counter` has `Word * Word` values and stops before its wrap; `Runs` is a step, so it may run any distance between two reads. `GetTime`, `ReadLow`, `TimeHere`/`ReadAgain` are
`systemtimer_gettime_64` from its call to its return, to a caller of its own or to `systemtimer_wait` (`WaitBegins`, `WaitGoesOn`, `WaitEnds`). `Difference` is `timer_difference`.

### `CoreStart`

`stage` is Core 0 between its calls in `start.S`, `early_init` and `kernel_main`; `place[c]` another core between its waits. The increment of
`core_ready` is a load-exclusive, a store-exclusive that fails if the core's monitor was cleared, and a retry. `core_ready` lies in memory that
`start.S` clears after `early_init`, so it is -1 before.

### `MboxTags`

The buffer of a request is two halves of four words, a head (the code and the tag) and a body (the values), in memory (`ram`) and, where it is `cached`, in the core's `view`; a `dirty` half is not written back. `to_vc` and
`from_vc` are the hardware's queues of words. `early_get_mem_size` runs before the cache is on and takes any word for its answer; `mbox_request` flushes its line, sends, reads until its channel answers, flushes again and looks.

* `Offsets`: where in its cache line of 64 bytes the buffer of `mbox_request` may start. `mbox.c:66` aligns it to 16 bytes, so the build decides: at 0 the line holds nothing that is written to in the call, as the stack grows down; at 16
  and 32 the line also holds the frames of `mbox_send` and `mbox_read`; at 48 the head and the body are in two lines (`LineOf`), of which only the first is flushed.
* While the call waits, a line may be fetched again (`Refetch`), written to by those frames (`DirtyFrame`) and leave the cache (`Evict`). `Flush` is `dc civac`: what is dirty goes to memory first. So a line that is fetched before the answer
  and dirtied is written over the answer, and `mbox_request` fails (`mbox_dirty`).
* `unread` is history: at boot a word of another channel was taken for the answer, whose own word is then left for the next call.
* What the video core makes of a buffer of which part is not in memory yet is not known, so `Answer` may be an answer or an error then.

### `Slab` and `Heap`

A slab is a record of its struct; the index array lies between the struct and the objects, and `free_indexs` links the free objects from `free_index` on. `Heap` has the caches with
their lists `free`, `partial` and `full`, the slabs at their addresses, and `page_obj`, the cache each page is linked to. A critical section of `kalloc`'s lock is a step; `kalloc_free` looks the page up
before it takes the lock (`FreeLooks`, then `FreeObject` or `FreePages`). The operators over the record `h` are the functions of `kalloc_cache.c`. Of the page allocator `Heap` uses `BlockPool`, which
`Buddy` implements.

* A failed assertion is `panic = "heap"`, memory that has run out `"memory"`.
* `kalloc_cache_remove_slab` leaves the slab on the free list (`RemoveUnlinks` `FALSE`), but nothing calls it (`SlabsRemoved` `FALSE`). The run has both `TRUE`: slabs are removed, by a call that
  takes them off their list. The theorems need only that no slab is removed that stays on its list, so they hold of the code as it is.
* A caller frees what it holds, once.

### `LinkedList`

`first`, `final` and `count` are the head, `succ`, `pred` and `data` the node, all calls of `linkedlist.c` are actions. A node that joins an empty list was initialised since it last was in one:
`_ll_append_node` leaves the links of a list's first node as they are. `Chain` walks the list as the code does, and is what `SeqAbs` sees.

### `BootMemory`

Addresses are numbers; the sizes (page, block, table, area, structures) are constants with the divisibilities that the code relies on. The steps are those of Core 0 in order: `mm_early_init`, the
memory map, the root table, a block of the tables per turn of the loop in `early_mmu_init`, then `mm_init`: three allocations, and a page reserved per step. `handed` is history: what both bump allocators gave.

* `InRegion` is the `<=` of the loop, which maps one block behind a region that ends with a block; the region that follows then does not get its attribute for this block, as an entry that is there is kept (`NewEntry`).
* `Reserve` panics where `get_free_ancestor` finds no block (below), which happens for video memory that does not begin on a block of the highest order. `FreeIsUnused` allows it only there.
* The data heap has no upper bound in the code; in the instance memory is large enough, and `MemoryProofs` has it as the hypothesis `HeapFits`.
* `BootAssumption` also says that the tables can hold every region, and that the regions of the map are in order, which `mm_early_init`'s constants are.

### `Helpers`

A call of `memmove`, `memcpy`, `memset`, `memset_64` or `memcmp` is `CopyCall`, a step per turn of its loop (`MoveUp`, `MoveDown`, `CopyByte`, `SetByte`, `SetWord`, `CompareByte`) and
`CopyReturns`; `before` is history: the memory at the call. A word is the set of its bits that are one, `Value` the number that it is; `bitmap.c` is `BitmapSet`, `BitmapFree` and `BitmapFlip` over `words`, and `ones`, history, the indices it should have.

* `memset_64` goes up to `size + size % 8` (`SizeUp`), which is not the next multiple of a word that its comment at `string.c:45` names, unless `size` is one or leaves half a word; its only
  caller fills a page, so only whole words are asked for.
* `memcpy`'s pointers are `restrict`, so its regions do not overlap; `memmove`'s do.

## What the runs check

| run | instance | properties | shows |
|---|---|---|---|
| `sched_safety` | 2 cores with 2 tasks and one event, or 3 tasks and two events as long as the second core has not started (`OneOrTwoCores`); 2 ready queues, 2 wait queues, events 1 and 3 in the same one, untimed waits and waits of 1 tick; the two tasks of one priority are interchangeable (`SYMMETRY`: the run checks no liveness) | `LockInv` `OnePlace` `NoneLost` `NoPanic` `PauseDelivered` `WaitInv` `NoOvertaking` `WakeOrder` `Implements` | the safety of the scheduler under all interleavings of two cores with ticks and mailbox interrupts; wait queues with colliding events: what is in them, and in which order waiters are served |
| `sched_tick` | 2 cores, 2 tasks, `ReadyTickRelocks`, fairness | `TickReturns`, violated | as the code is, no tick gets past `sched_ready_queue_tick`'s lock |
| `sched_unint` | 2 tasks, one added with `TASK_UNINT` | `UnintNotPaused`, violated | the flag is lost |
| `klog_ring` | 3 tasks, at most 2 in the lock, 3 slots, `FullTestWraps` | `RingInv` `PrintsWhole` `IsQueue` `GetsPrinted` | the ring is a bounded queue whose messages are printed whole and in order, and are printed though tasks write for ever |
| `klog_full` | as `klog_ring`, `WRITE_FULL` as it is | `LeavesRoom`, violated | a full log turns into an empty one |
| `buddy_pages` | 2 cores, 2 areas of 8 pages, orders 0 to 2, the first 7 pages reserved | `Partition` `ListsInv` `NoPanic` `NoneWasted` `Counted` `Implements` | blocks partition the memory in the middle of every split and merge, the lists and marks agree with them, merges and searches waste no free memory, callers never share a page |
| `buddy_race` | 2 cores, 1 area, `FreeLocks` `FALSE` | `NoPanic`, violated | a free without the lock breaks an allocation |
| `machine` | `MCMachine.cfg`, all parts | `RingLinked` `VisitsAll` `RestoresOwn` `IrqServed` `SlockInv` `FreeLockTaken` `TimeRight` `AllStart` `AnswerRight`; of the reader-writer lock `Exclusive` `AWriterGetsIn`; of the scheduler `ReadyRuns` `TimedWaitEnds` | the small machines, each on its own: a writer is alone, and readers that call for ever do not keep all writers out; preemption and aging serve a task that an ever-ready one of higher priority would starve, a timed wait ends |
| `mbox_dirty` | the property channel alone, a buffer at offset 16 | `RequestAnswered`, violated | a request that was answered fails: its line was dirtied, and is written over the answer |
| `irq_nested` | 2 tasks, `MaskedRestore` `FALSE` | `RestoresOwn`, violated | an interrupt inside the restore loses the frame it restores |
| `memory` | `MCMemory.cfg` | `HNoPanic` `ListsRight` `ChainRight` `HImplements` `ListCalls` `TablesCover` `FreeIsUnused` `HelpersRight` | the heap, the lists, boot memory, copies and bitmaps, each on its own |
| `tables_device` | as `memory`, with less of the other parts | `TablesRight`, violated | the first block of the devices has the attribute of the region before it |

A behaviour of `machine` or `memory` chooses one part in its first state and only that part moves: the parts share no variable, and one run replaces a run each. `Parts` says which there are to choose from.
The part `sched` is an instance of `Sched` with one core, two tasks that start in the first and the last of three ready queues, waits of 0 and 2 units and ticks that find 1 or 2 gone, under `Fairness`.

The bounds. 8 ready queues, 59 wait queues, a quantum of milliseconds and 32 wait ticks are
reduced to 1 to 3, 1 or 2, 1 and 1: every comparison (`== 0`, `<= elapsed`, the first and the last
queue) then comes out both ways within a few ticks. Two cores are enough for one core to act while the other
is in any program point, three waiters for one to be before, at and behind the one woken, of which there are all three on one core: `OneOrTwoCores` bounds the product of the two, and is the only constraint on the states of a run. Nothing else is
bounded: no counter grows, so the runs are exhaustive for their instance.
The ring of 1024 slots has 3: one to read, one to write and one that keeps them apart; the indices
wrap after three messages, and a third task finds both units of the lock taken.
Orders 0 to 2 instead of 0 to 10 have a lowest one (pages of a buddy), a highest one (never merged) and one between; in the two areas
all areas are once on and once off the global list of every order; boot reserves an odd number of
pages, so a buddy is half reserved and an area is neither full nor empty.
`machine`: two queues of three entries give a walk an entry at, before and behind the one removed, and a queue to link it to; two tasks and the idle task give a switch from each to each;
three readers and two writers at the reader-writer lock with two units: a reader finds no unit, a writer another one that waits. Three tasks at the sleeping lock are one that holds it, one that sleeps and one that tries, with one try before the wait instead of 20; a word has 3 values, so the low word wraps twice and the high word once in a wait of
up to 4; four cores as in the machine; two tags, so an answer may belong to the other, mailboxes of 2 words, which fill up, and a buffer that starts a line, shares it or lies in two.
`memory`: entries of 4 and 8 bytes on slabs of 2 and 3 pages of 12 bytes give slabs that are free, partial and full, a second slab per cache, and requests that go to either or to whole pages, on 12 pages, which run out. Lists of
three nodes have a first, a last and one between. Four bytes of memory hold every overlap of two regions of up to three, in words of two bytes; bitmaps have two words of 2 or of 4 bits. The boot instance has 8 places of the video core's memory, at every distance from the blocks, areas and tables around it.

`CHECK_DEADLOCK FALSE` appears where a state without a step is right: an allocator that has panicked because memory is out (`buddy_pages`, `buddy_race`, `memory`), a boot that is over and a timer that has reached its last value (`machine`, `irq_nested`, `mbox_dirty`, `memory`, `tables_device`),
and the deadlock that is the subject (`sched_tick`).

## Fairness

`FairSpec` assumes of the hardware and the scheduler loop only that

* a core inside a critical section goes on (`WF` of `Locked`) and a core started goes on (`WF` of `Start`);
* the timer never stops and its interrupt is taken when it can be again and again (`SF` of `TimerIrq`);
* a core that can take a mailbox interrupt, or is in the idle loop, does so (`SF`, because a step of
  another core may disable it in between);
* a core that spins on `sched_lock` gets it if it is free again and again (`SF` of `Acquire`). `cmpxchg` in a
  loop does not promise this against three other cores, but the code relies on it everywhere: without it no
  entry point has a bound. It is an assumption about the arbitration of the bus.

Nothing is assumed of tasks: one may compute for ever, or call the scheduler for ever.

`IFair` of `IrqContext`: an interrupt that can be taken again and again is taken (`SF`; a switch masks it in between), the handler and the restore go on, and `sched_start` is reached. `SFair` of `Slock`:
every task goes on executing (`WF`: `ReadyRuns`), a wait's time ends (`TimedWaitEnds`), and a compare-exchange that is tried again and again while the lock is free succeeds
(`SF`). A holder unlocks. `CFair` of `CoreStart`: each core executes (`WF`); a store-exclusive that lost its monitor is repeated, and each failure is another core's success.

`LockFair` of `RwLock`: every caller inside the lock or its loops goes on executing (`WF`). A compare-exchange of `semaphore_set` is only assumed to succeed if the semaphore stays at its maximum, and nobody has to call; so a single writer
may still be passed by others for ever, and `AWriterGetsIn` does not say otherwise.

`FairSpec` of `Klog` assumes that the flush task and every task that is writing go on (`WF`: `Sched` shows that
ready tasks run), and that a compare-exchange which can succeed again and again does (`SF` of `Reserve`: the
store-exclusive fails only if an interrupt or another core comes in between). It does not assume that the
store of `FlushStore` ever works, nor that a task stops writing: it is `writer_waiting` that keeps readers out until the flush
task has the lock, and `GetsPrinted` fails for a reader that does not look at it.

## What is proved

The theorems about `Sched` hold for any finite or infinite set of cores, tasks, events and times and any number of queues, from
its `ASSUME`s (names disjoint, at least one queue of each kind, event ids above 0, priorities
within the queues).

1. **`SchedProofs`**, the lock: `TypeCorrect` (`TypeOK`), `LockSafe` (`LockInv`), `TickNeverWalks` (`TickHangs`). The inductive
   invariant is their conjunction: that a tick stays in its array needs the lock (nobody else moves the
   cursor), and the lock needs that cursor's program points exist on one core only.
2. **`SchedProofs`**, the places: `PlaceUnique` (`OnePlace`) and `TasksKept` (`NoneLost`). Neither is disturbed by most actions,
   and the ones that disturb them do so in five ways. `StepMoves` shows that each action is one of
   these *moves* — nothing moves, a task joins a ready queue, leaves a core for a queue, is taken by a core,
   or goes from a wait queue to a ready queue — and `MovesPlaced` that a move preserves both.
3. **`SchedProofs`**, safety: `WaitSafe` (`WaitInv`), `PanicFree` (`NoPanic`) and `TimeoutsArrive` (`PauseDelivered`) from one invariant
   `AllFit`: a table of what the state of a task may be wherever it is (on a ready queue, waiting, current on a core
   at each program point). It is stronger than each: that the mailbox panic cannot fire needs that a task billed as running is not paused, which
   needs that a core with a full mailbox still runs the paused task or is on its way out of it.
   It also has `NoneOvertaken` (`NoOvertaking`) and `ServedInOrder` (`WakeOrder`), properties of steps: each move leaves the entries of a queue in their order (`ForwardPlace`), and
   a waiter joins behind all others of its queue.
4. **`SchedProofs`**, the refinement: `SchedImplements`, `Spec => Abs!Spec`. The refinement mapping reads a task's status off the queues it is on, and
   whom a core runs off `Owner`; the same moves map to `Add`, `Leave`, `Dispatch` and `Wake` or to a stutter.
5. **`SharedLemmas`**: what removing from and appending to an array of queues does to its entries and their places, used by all the above, and the arithmetic of multiples that the memory proofs use.

6. **`KlogProofs`**, first of the lock by itself (`LockSpec`), for any numbers of readers, writers and units: `WriterAlone` (`Exclusive`) and `NoUnitLost` (`UnitsKept`) from
   the invariant `LockGood`, which adds to them that no more readers are inside than there are units: the next writer can
   conclude from a full count that nobody is inside. Then of the log, for any numbers of tasks, units and slots (at least 2) and its one flush task: `LogTypeCorrect` (`TypeOK`). `RingSafe`: with the full test that wraps, `RingInv`,
   `PrintsWhole` and `LeavesRoom`. Its invariant `RingGood` adds what each process relies on between its steps: a task at its
   compare-exchange that the log it looked at was not full (`read_index` cannot move as long as it is in the lock), a task half way through its copy that the
   first half is still there, the flush that `write_index` is the one it loaded. `PrintsSafe` (`PrintsWhole`: what is printed, a first time or again, was reserved and is whole) and `LogImplements` (`IsQueue`, which has the order) follow from it: the refinement mapping
   is the slots between the indices, read from `read_index` on, and each step is one of `LogAbs` or a stutter.
   `WrongOnlyAtEnd` is about the log as it is: all of these hold until a task comes to a full log that ends at the last slot (`NeverFullAtEnd`, a condition on steps), so that
   test is all that is wrong. Both kinds of theorem come from `RingInvariance`, where full logs are found full (`FindsFull`).

7. **`BuddyProofs`** over **`BuddyBlocks`**, for any cores, any number of areas and any highest order above 0, and any number of pages reserved
   at boot: `TypeCorrect` (`TypeOK`), `PagesPartitioned` (`Partition`), `ListsSafe` (`ListsInv`), `PanicFree` (`NoPanic`) and `BuddyImplements`
   (`Implements`). They assume `FreeLocks` and `~AnyReserve`: the two findings below are what goes wrong without. `RightInTurn` is about the
   allocator as it is: every one of these properties, those of *nothing wasted* included, holds as long as calls begin only when no core is in the allocator (`InTurn`, a condition on steps, with
   reserves at boot only), so that the lock is all that is missing; and `RightOnOneCore` needs no such condition on one core. The others follow, as callers that all take
   the lock take turns (`LockedTurns`). The invariant `IInv` is one half about
   the memory and one about who is in the allocator.
   * *Memory* (`Sound`): the free lists with the global lists (`ListsGood`), that every buddy is on the list of its order (`PlacedIn`), and `BlocksGood`: the
     first buddies of blocks are aligned, their reaches are disjoint and cover everything, the marks are those of the owned
     blocks, and a pair whose pages are handed out one by one is on its list unless both are in use. That last part is what the properties lack:
     without it a page could be given back and its buddy added to the list twice. `BuddyBlocks` shows what a split, a
     merge, taking and giving back do to `BlocksGood`, with the arithmetic of siblings (the inverted bit of the index) below it.
   * *Control*: one core is inside, with the lock if frees take it; the buddy that is searched from or split is free and large enough; and until boot is over the reserved
     pages are exactly those below the next one, all of order 0. From this it follows (`NextPageFree`) that the next page starts a free block or is the second
     page of a pair, so that `get_free_ancestor` never climbs at boot and its flaw stays hidden.
   * *Nothing wasted*: `PagesCounted` (`Counted`, which speaks of the states in which no core is in the allocator) and `NothingWasted` (`NoneWasted`) from `IInv` and a second invariant, `Tight`. `Counts`: `free_page_num` is the number of pages not
     in use, less those of a free that is still merging. `Met` and `Lone`: two free halves of a block meet only where a split or a merge is at work, and where an allocation has failed (`Full`)
     no free block is large enough. That no larger aligned part of memory is free then follows by going up the orders: a free block of the largest order in it would have a free
     sibling. The argument is an induction; it is put as the least counterexample of a set of numbers (`Least`).
   * Every step takes a block, gives one back or leaves the owned blocks and their orders alone (`Moves`), which are the actions of `BlockPool`.

   The `ASSUME` on `Size` states the powers of two by what is used of them: each is twice the one before, and all divide the size of an area.

8. **`MachineProofs`**, one inductive invariant per machine:
   * *Queues*, for any numbers of queues and entries: `QueuesTyped` (`QTypeOK`), `QueuesSafe` (`RingLinked`), `WalkSafe` (`VisitsAll`) and `DequeuesRight`, that a dequeue returns the
     first or the last entry, and none from an empty queue alone. `QInv` gives each node of a ring its place (`Place`): no node has two (`PlacesDiffer`), so writing two links
     changes two places only (`LinkHeadRings`, `LinkTailRings`, `UnlinkRings`). A walk is either at a place (`AtPlace`), with the entries from there on due,
     or at an entry that was taken out in front of one (`BeforePlace`), and `queue_next_safe` tells the two apart by the link of `qe_prev`.
   * *Interrupts*, for any number of tasks: `RestoresSafe` (`RestoresOwn`), under `MaskedRestore` and `TickAfterStart`: the run `irq_nested` and the finding on `kernel.c:190` are what goes
     wrong without. `RestoresUndisturbed` is about the code as it is: `RestoresOwn` holds as long as only a task that runs is interrupted (`TaskTakes`, a condition on steps), so that the interrupts inside a restore and
     before `sched_start` are all that is wrong. `IrqInv` says that every task but the one that runs owes exactly one frame, at the bottom of its own stack, and that `el1_stack_ptr` names it.
   * *Sleeping lock*, for any number of tasks: `SlockSafe` (`SlockInv`); `SlockGood` states the queue of sleepers by its positions.
   * *Timer*, for any width of its words: `TimerSafe` (`TimeRight`, whose part `DifferenceRight` is `DifferenceSafe`). `TimerInv` remembers that the low word was read from a value
     `Seen` since the call, above whose high word the counter was not yet when the first high word was read: if both reads of the high word agree, the words are of that value.
   * *Start*, for any number of cores: `StartSafe` (`StartsTogether`, which is proved only). `StartInv` ties `core_ready` to the cores that have counted themselves (`Arrived`) and a monitor that is still set to
     the value it vouches for: a store-exclusive that works adds one.
   * *Property channel*, for any tags, places of the buffer and depths of the mailbox: `AnswersSafe` (`AnswerRight`). `MboxInv` says that of the words in the mailbox at most one answers the request (`MboxTurn`, until `unread`), and that it is in memory when
     that word is, if the line is not shared (`Alone`). For a shared line `MboxBuffer` has only that a buffer, in memory or in the cache, which has the code of a success has the tag of the call and its answer (`Sound`).

9. **`MemoryProofs`**, for any sizes and places with the divisibilities of `BootAssumption`:
   * `BootSafe`: `FreeIsUnused` as long as `HeapFits`, that is as long as the data heap, which no line of the code bounds, ends below the video core's memory. `BootInv` says that what was handed out lies below
     the top of the allocator in use (`Heaped`), and which pages are taken at each step of `mm_reserve_early_mem` (`Taken`): it can panic only where the heap has outgrown the memory or the video
     core's memory starts inside a block of the highest order.
   * `TablesBuilt` (`TablesExact`): each block has the attribute of the first region whose loop reaches it. `Tables` says that each second level is a page of its own, so that
     writing an entry changes no other (`EntryWritten`), `Filled` what the entries are as far as the loops have come. From it `TablesCovered` (`TablesCover`), and
     `FirstDeviceBlock`: the first block of the devices is never mapped as device memory, wherever the video core's memory starts.

   The same module has the theorems about `LinkedList` and `Helpers`:
   * `ListCallsKept` (`ListCalls`), for any lists and nodes. The invariant `LInv` says that the chains are rows (`Rows`): each node once and in one list, `count` the length, `first` and `final` the ends, `succ` and, if the
     list is doubly linked, `pred` the neighbours. `Put` and `Cut` are a row with a node more or less. `AppendLinks` and `DeleteLinks` show that the code writes the links that `PutLinks` and `CutLinks` name, `RowPut` and
     `RowCut` that these are the links of such a row, `RowsChange` that the other rows keep theirs. A walk of at most as many steps as there are nodes finds the whole row (`RowChain`), as no row has more (`RowLength`).
   * `CopiesSafe` (`CopiesRight`): `CopyInv` says that the bytes the turns have reached (`Written`) hold what belongs there, and all others what they held at the call. So a turn copies right if the byte it reads is not in `Written`, which is why `memmove` goes down where its destination begins inside its source.
   * `BitmapSafe` (`BitmapRight`): an index is one bit of one word (`BitPlace`), so a call for one changes no other.
   * `HelpersSafe` (`HelpersRight`), for both kinds of call interleaved (`USpec`): the two parts above, and
     `ComparesRight`: `CompareInv` says that the bytes `memcmp` has passed are the same, and `FirstDecides` that the first digits that differ decide between two numbers of any base;
     `BitsRight` (`BitsFollow`), for words of any width: `Powers` and `Sums` are the functions that `Power2` and `Value` go along, `SumsGrow` bounds a sum by the power of its bit length from above and of its
     highest bit from below, `SumsUnion` and `SumsShift` say what words without a common bit and a shifted word add up to. `Turns` is the induction on the turns of a loop, from the least turn that would break it
     (`Least`), `Recursion` that a function that is defined turn by turn exists.

10. **`HeapProofs`**, if no slab is removed or those that are leave their list (`SlabsRemoved => RemoveUnlinks`: none is removed in the code), for any cores, pages, requests, and any table of entries that fits its slabs (`FitAssumption`, below):
   `HeapSafe` (`HNoPanic`), `HeapLists` (`ListsRight`), `HeapChains` (`ChainRight`) and `HeapImplements` (`HImplements`) from the invariant `HInv`. Its main part `Good` speaks of the slabs, the
   caches, the page links, the blocks and of what callers hold or are about to free:
   * `SlabsRight`: each slab lies in a block of its own, all its pages are linked to its cache, its `num` is the number of its objects that are held, and its free indexes form a chain (`IsChain`) without repetition
     that leaves out exactly the indexes of those. `ChainAlloc` and `ChainFree` show what taking and giving back an object do to the chain.
   * `CachesList` and `CachesCount`: each list of a cache has the slabs of its kind once, and the counts are the numbers of the places in them. That a cache with room has a slab with room (`NotFull`), which
     `kalloc_cache_alloc` relies on, is a fact about these two counts.
   * `LinksRight`, `BlocksRight`, `HeldRight`: a page that is linked to a cache is one of a slab of it; blocks are disjoint; what is held is an object of a slab, or pages of a block that are linked to no cache. So a free finds
     its object, or its block, by the link of the page alone. `HeldApart` and `StructAside` get from it that no two held objects share a byte, and none is on a slab's struct or array.
   * `FreeingRight`: what a core in `kalloc_free` read before the lock is still true when it has the lock, because it still holds the object: a slab with an object in use is never removed.

   `FitAssumption` asks of each entry that at least one object and the one in reserve fit, that the struct with its array ends on the slab's first page (`KALLOC_SLAB_VERIFY` asserts it), and that the block of its order has its pages. It is so for all
   eight entries of `kalloc.c`: with a struct of 64 bytes and indexes of 4, the room before the first object is 512 to 2048 bytes. Of requests beyond the largest entry it asks that an order for their pages exists, which
   `KALLOC_MAX_ALLOC_SIZE` names and `kalloc_alloc` leaves to its callers.

Only model-checked: liveness (`ReadyRuns`, `TimedWaitEnds`, `AWriterGetsIn`, `GetsPrinted`, `IrqServed`, `FreeLockTaken`, `AllStart`), which TLAPS cannot treat under fairness. Every invariant and every action property of a passing
run is proved.

## Where the code disagrees with its own words

* `sched.c:293` with `sched.c:356`: the tick takes the non-recursive `sched_lock` twice and deadlocks (`sched_tick`).
* `sched.c:579`: `TASK_READY & start_state` where `|` is meant; `TASK_UNINT` never has an effect (`sched_unint`), and
  for the same reason a queued task is not `TASK_READY`.
* `kalloc.c:210`: pages are given back without the lock that allocations hold (`buddy_race`).
* `klog.c:17`: `1 % KLOG_BUF_SIZE` in `WRITE_FULL`; when the log fills up at its last slot, all of it is lost (`klog_full`).
* `irq.c:110` and `sched.c:116`: interrupts are enabled before `TASK_RESTORE_CONTEXT`. An interrupt taken in the restore saves the restore itself as the task's frame and
  overwrites `el1_stack_ptr`; the restore then resumes itself for ever and the task is lost (`irq_nested`).
* `early_init.c:149`: `<=` in the loop over a region's blocks. The first block of the devices is mapped as the video core's memory is (`tables_device`; `FirstDeviceBlock` proves it for every place of that memory).
* `mbox.c:66`: the buffer of a request may share its cache line with frames that are written to while the answer comes; the second flush can write them, and the request, over the answer, and `kernel.c:145` panics (`mbox_dirty`).
  Whether it happens depends on where the build puts the buffer and on the cache.

These differ from what the code needs without contradicting a line of it, and have no run: they are values of constants that violate the property named, or cases which the property exempts:

* `kernel.c:190`: a timer tick between `localtimer_irqinit` and `sched_start` saves the boot stack's frame as that of the idle task (`TickAfterStart` `FALSE`, `RestoresOwn`).
* `kalloc_page.c:168`: `get_free_ancestor` climbs by stale orders and never tries a block of the highest order; only reserves that start at the front of such a block or
  follow a reserved page work, as those of boot mostly do (`AnyReserve` `TRUE`, `NoPanic` of `Buddy`; the assumption on the video core's memory in `FreeIsUnused`).
* `kalloc_cache.c:182`: a slab that leaves its cache stays on the free list (`SlabsRemoved` `TRUE` and `RemoveUnlinks` `FALSE`, `HNoPanic`); nothing calls it yet.
* `mbox.c:81`: one flush for a buffer that may span two lines (48 in `Offsets`): the half that is not flushed may be answered or read as it was, and only there a success may come with the wrong values. `AnswerRight` says so by exempting it.
* `early_mm.c:49`: a boot request takes any channel's word (`unread`). Its own answer is right, the next calls' need not be; `AnswerRight` exempts those, and the firmware is not known to send such a word.

## What is not modelled

* Device I/O and formatting: UART, GPIO, `printf`, the registers of the GPU mailbox and of the timers beyond the values that are read. `emb-stdio` and `windows.c` are vendored.
* Diagnostics of a panic: `CORE_DUMP` and `CORE_STOP`, register dumps, `handle_sync_irq`.
* Data and build files: device tree, linker script, makefiles. The bit layout of descriptors and system registers.
* Code that only tests call: slabs with a struct of their own, semaphores outside the reader-writer lock; the self tests themselves were read for what they expect. Code that
  nothing calls: `mm_earlypage_shrink`, `kalloc_free_pages`, `bitmap.c` (which `Helpers` models all the same), `strlen`, `strcmp`, `strncmp` and random numbers. The system timer's own interrupt, which `kernel_main` leaves disabled.
* Weak memory: the locks' barriers are taken to work. Registers and stack contents: a frame is where it goes on.
* Arithmetic on time in `Sched` that wraps 64 bits.

## Plan

Done: the scheduler and its proofs; locks and log; page allocator; heap and lists; queues as links; contexts and interrupts; sleeping lock; timer; boot; the property channel; helpers; the proofs of every safety property that the passing runs check.

Left:

1. `Heap` over `Buddy` itself rather than over what `BlockPool` promises, on an instance small enough for TLC.
