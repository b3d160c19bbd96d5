----------------------------- MODULE CoreStart -----------------------------
(***************************************************************************)
(* From reset to sched_start: Core0 through start.S, early_init and        *)
(* kernel_main, the other cores, once start_cores has woken them, through  *)
(* early_core_init and kernel_child_main.  They meet at core_ready.        *)
(***************************************************************************)
EXTENDS Integers, FiniteSets

CONSTANTS Children    \* the cores but Core0, CORE_NUM - 1 of them

ASSUME CoreAssumption == IsFiniteSet(Children)

CORE_NUM == Cardinality(Children) + 1

Places == {"parked", "early", "main", "load", "store", "irq", "meet", "started"}

VARIABLES stage,        \* what Core0 does next
          place,        \* where each other core is
          early_init_done, uart_ready, released, curr_set,
          core_ready,   \* -1 in memory that is not cleared yet
          loaded,       \* what each core's load-exclusive of core_ready read
          marked,       \* cores whose exclusive monitor holds core_ready
          mmu,          \* cores with translation on
          listening     \* cores that take interrupts and hear mailboxes

cvars == <<stage, place, early_init_done, uart_ready, released, curr_set,
           core_ready, loaded, marked, mmu, listening>>
shared == <<early_init_done, uart_ready, released, curr_set, core_ready>>
counting == <<loaded, marked>>

CInit == /\ stage = "reset" /\ place = [c \in Children |-> "parked"]
         /\ early_init_done = 0 /\ core_ready = -1
         /\ uart_ready = FALSE /\ released = FALSE /\ curr_set = FALSE
         /\ loaded = [c \in Children |-> 0] /\ marked = {}
         /\ mmu = {} /\ listening = {}

OnCore0(from, to) == stage = from /\ stage' = to /\ UNCHANGED <<place, loaded>>
Child(c, from, to) == /\ place[c] = from /\ place' = [place EXCEPT ![c] = to]
                      /\ UNCHANGED stage

\* Core0: early_init, of which the tables and the memory are BootMemory's.
EarlyInit == /\ OnCore0("reset", "bss")
             /\ mmu' = mmu \cup {0}
             /\ early_init_done' = 1
             /\ UNCHANGED <<uart_ready, released, curr_set, core_ready, marked, listening>>

\* start.S clears bss, where core_ready is and early_init_done is not.
ClearBss == /\ OnCore0("bss", "main")
            /\ core_ready' = 0
            /\ UNCHANGED <<early_init_done, uart_ready, released, curr_set, marked, mmu, listening>>

\* kernel_main up to mbox_enable_irq,
MainDevices == /\ OnCore0("main", "sched")
               /\ uart_ready' = TRUE
               /\ listening' = listening \cup {0}
               /\ UNCHANGED <<early_init_done, released, curr_set, core_ready, marked, mmu>>

\* sched_init, klog_init and the timer,
MainSched == /\ OnCore0("sched", "wake")
             /\ curr_set' = TRUE
             /\ UNCHANGED <<early_init_done, uart_ready, released, core_ready, marked, mmu, listening>>

\* and start_cores.
StartCores == /\ OnCore0("wake", "meet")
              /\ released' = TRUE
              /\ UNCHANGED <<early_init_done, uart_ready, curr_set, core_ready, marked, mmu, listening>>

\* Mutant of AllReady: Core0 is counted too.
AllReadyWith0 == core_ready = CORE_NUM

AllReady == core_ready = CORE_NUM - 1

\* All cores are there: sched_start.
Core0Starts == /\ OnCore0("meet", "started") /\ AllReady
               /\ UNCHANGED <<shared, marked, mmu, listening>>

\* A core that was parked jumps to start.S and waits in early_core_init,
Wake(c) == /\ Child(c, "parked", "early") /\ released
           /\ UNCHANGED <<shared, counting, mmu, listening>>

\* until Core0 has made the tables: early_mmu_enable.
EnableMmu(c) == /\ Child(c, "early", "main") /\ early_init_done = 1
                /\ mmu' = mmu \cup {c}
                /\ UNCHANGED <<shared, counting, listening>>

\* kernel_child_main waits for the UART,
UartReady(c) == /\ Child(c, "main", "load") /\ uart_ready
                /\ UNCHANGED <<shared, counting, mmu, listening>>

\* and counts itself with atomic_fetch_add_64: the load-exclusive,
CountLoad(c) == /\ Child(c, "load", "store")
                /\ loaded' = [loaded EXCEPT ![c] = core_ready]
                /\ marked' = marked \cup {c}
                /\ UNCHANGED <<shared, mmu, listening>>

\* Mutant of StoreMay: the store does not depend on the monitor.
StoreAlways(c) == TRUE

StoreMay(c) == c \in marked

\* the store-exclusive, which clears the monitors of the others,
CountStore(c) == /\ Child(c, "store", "irq")
                 /\ StoreMay(c)
                 /\ core_ready' = loaded[c] + 1
                 /\ marked' = {}
                 /\ UNCHANGED <<early_init_done, uart_ready, released, curr_set, loaded, mmu, listening>>

\* or, as another core's came first, the load again.
CountAgain(c) == /\ Child(c, "store", "load")
                 /\ c \notin marked
                 /\ UNCHANGED <<shared, counting, mmu, listening>>

\* irq_init and mbox_enable_irq, after the core has counted itself.
ChildIrq(c) == /\ Child(c, "irq", "meet")
               /\ listening' = listening \cup {c}
               /\ UNCHANGED <<shared, counting, mmu>>

ChildStarts(c) == /\ Child(c, "meet", "started") /\ AllReady
                  /\ UNCHANGED <<shared, counting, mmu, listening>>

Core0Next == \/ EarlyInit \/ ClearBss \/ MainDevices \/ MainSched \/ StartCores \/ Core0Starts
ChildNext(c) == \/ Wake(c) \/ EnableMmu(c) \/ UartReady(c) \/ CountLoad(c) \/ CountStore(c)
                \/ CountAgain(c) \/ ChildIrq(c) \/ ChildStarts(c)

CNext == Core0Next \/ \E c \in Children : ChildNext(c)

\* Each core executes.
CFair == WF_cvars(Core0Next) /\ \A c \in Children : WF_cvars(ChildNext(c))

CSpec == CInit /\ [][CNext]_cvars /\ CFair

---------------------------------------------------------------------------
(* Properties. *)

\* kernel_main, kernel_child_main: no core starts its idle task before every
\* core has its tables, a current task and was counted, and then every core
\* but those still enabling their own interrupts hears its mailboxes.
StartsTogether ==
  /\ "started" \in {stage} \cup {place[c] : c \in Children} =>
       /\ curr_set /\ mmu = Children \cup {0} /\ 0 \in listening
       /\ \A c \in Children : place[c] \in {"irq", "meet", "started"}
  /\ \A c \in Children : place[c] \in {"meet", "started"} => c \in listening
  /\ core_ready = -1 \/ core_ready = Cardinality({c \in Children : place[c] \in {"irq", "meet", "started"}})

\* Once Core0 has left early_init all cores get through the meeting, kernel.c:84
\* and kernel.c:193: none waits for a count that is never reached.
AllStart == stage = "bss" ~> stage = "started" /\ \A c \in Children : place[c] = "started"
=============================================================================
