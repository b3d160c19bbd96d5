----------------------------- MODULE IrqContext -----------------------------
(***************************************************************************)
(* The contexts of Core0, the core of the timer: the frames that           *)
(* TASK_SAVE_IRQ_CONTEXT and TASK_SAVE_SYNC_CONTEXT push (cpu_asm_defs.s), *)
(* the interrupt vector that wraps handle_irq (irq_asm.S, irq.c), the      *)
(* switch (task_asm.S) and TASK_RESTORE_CONTEXT, which resumes whatever    *)
(* frame curr_task's el1_stack_ptr names.  The core boots on a stack of    *)
(* its own while curr_task is already the idle task.  owes and cont are    *)
(* history variables: the places a stack should still go on at, innermost  *)
(* last, and the stack that the restore under way should go on with.       *)
(***************************************************************************)
EXTENDS Integers, Sequences, FiniteSets

CONSTANTS IrqTasks, Idle,
          Boot, Junk,      \* the boot stack; an address that is no stack
          MaxFrames,       \* bound on the frames of a stack
          MaskedRestore,   \* FALSE: handle_irq and sched_exit enable interrupts
                           \* before the restore, as in the code.  TRUE: its eret does.
          TickAfterStart   \* FALSE: the timer runs before sched_start, as in the
                           \* code.  TRUE: it is started after it.

ASSUME IrqAssumption == /\ Idle \in IrqTasks /\ Boot \notin IrqTasks /\ Junk \notin IrqTasks
                        /\ Boot # Junk /\ MaxFrames \in Nat \ {0}
                        /\ {MaskedRestore, TickAfterStart} \subseteq BOOLEAN

VARIABLES curr, el1,    \* curr_task of the core and each task's el1_stack_ptr
          pc, sp,       \* where the core is, and its stack pointer <<stack, frames>>
          mem,          \* the frames in memory: where each goes on
          pending,      \* the interrupt sources that are raised
          core_irq,     \* those that handle_irq has read and not come to
          owes, cont

ivars == <<curr, el1, pc, sp, mem, pending, core_irq, owes, cont>>

Stacks  == IrqTasks \cup {Boot}
Sources == {"mbox", "timer"}

\* sched_init has created the tasks (task_init_stack pushes a frame that goes
\* on at the entry of the task) and made the idle task curr_task.
IInit == /\ curr = Idle /\ pc = "boot" /\ sp = <<Boot, 0>> /\ cont = Boot
         /\ mem = [s \in Stacks |-> [i \in 1 .. MaxFrames |-> "task"]]
         /\ el1 = [t \in IrqTasks |-> <<t, 1>>]
         /\ owes = [s \in Stacks |-> IF s = Boot THEN <<>> ELSE <<"task">>]
         /\ pending = {} /\ core_irq = {}

\* Mutant of MayTick: localtimer_irqinit comes before sched_start, as in the code.
TicksAlways == TRUE

MayTick == TickAfterStart => pc # "boot"

\* The timer raises its interrupt.
Tick == /\ MayTick
        /\ pending' = pending \cup {"timer"}
        /\ UNCHANGED <<curr, el1, pc, sp, mem, core_irq, owes, cont>>

\* Mutant of Unmasked: handle_irq and sched_exit enable interrupts.
UnmaskedEarly == pc \in {"boot", "task", "leaving", "restore"}

\* Where interrupts are enabled.
Unmasked == pc \in {"boot", "task"} \/ (~MaskedRestore /\ pc \in {"leaving", "restore"})

\* A frame that goes on at place is pushed, and el1_stack_ptr is set to it.
Save(place) ==
  IF sp[1] = Junk THEN el1' = [el1 EXCEPT ![curr] = sp] /\ UNCHANGED <<mem, owes>>
  ELSE /\ sp[2] < MaxFrames
       /\ mem' = [mem EXCEPT ![sp[1]][sp[2] + 1] = place]
       /\ el1' = [el1 EXCEPT ![curr] = <<sp[1], sp[2] + 1>>]
       /\ owes' = [owes EXCEPT ![sp[1]] = Append(@, place)]

\* The vector of an interrupt, and handle_irq up to its reading of the sources.
TakeIrq == /\ Unmasked /\ pending # {}
           /\ Save(pc)
           /\ sp' = IF sp[1] = Junk THEN sp ELSE <<sp[1], sp[2] + 1>>
           /\ cont' = sp[1]
           /\ pc' = "handler"
           /\ core_irq' = pending
           /\ UNCHANGED <<curr, pending>>

\* The next bit of core_irq; the mailboxes' bits come before the timer's.
NextSource == IF "mbox" \in core_irq THEN "mbox"
              ELSE "timer"

\* Mutant of HandleTimer: localtimer_clearirq is left out.
TimerUncleared(raised) == /\ pc = "handler" /\ core_irq # {} /\ NextSource = "timer"
                          /\ core_irq' = core_irq \ {"timer"}
                          /\ pending' = pending \cup raised
                          /\ UNCHANGED <<curr, el1, pc, sp, mem, owes, cont>>

\* localtimer_handle; when it pauses the task of this core it raises the
\* mailbox, and it pauses no idle task.
HandleTimer(raised) == /\ pc = "handler" /\ core_irq # {} /\ NextSource = "timer"
                       /\ raised # {} => curr # Idle
                       /\ core_irq' = core_irq \ {"timer"}
                       /\ pending' = (pending \ {"timer"}) \cup raised
                       /\ UNCHANGED <<curr, el1, pc, sp, mem, owes, cont>>

\* mbox_handle_core_int of a call of sched_async_timeout that returns, as
\* another task runs by now.
HandleMbox == /\ pc = "handler" /\ "mbox" \in core_irq
              /\ core_irq' = core_irq \ {"mbox"}
              /\ pending' = pending \ {"mbox"}
              /\ UNCHANGED <<curr, el1, pc, sp, mem, owes, cont>>

\* sched_task_select, the change of stack and sched_task_switch.
SwitchTo(t, saved) == /\ curr' = t
                      /\ sp' = saved[t]
                      /\ cont' = t
                      /\ pc' = "restore"
                      /\ core_irq' = {}

\* sched_async_timeout of a paused task: task_switch_async, from inside the
\* handler, which is left with the bits it has not come to.
SwitchAsync(t) == /\ pc = "handler" /\ "mbox" \in core_irq /\ curr # Idle
                  /\ pending' = pending \ {"mbox"}
                  /\ SwitchTo(t, el1)
                  /\ UNCHANGED <<el1, mem, owes>>

\* handle_irq has no bit left: irq_enable, and back to the vector.
Leave == /\ pc = "handler" /\ core_irq = {}
         /\ pc' = "leaving"
         /\ UNCHANGED <<curr, el1, sp, mem, pending, core_irq, owes, cont>>

\* The vector's "Restore the stack ptr" reads a word that nothing wrote there.
Adjust == /\ pc = "leaving"
          /\ sp' = <<Junk, 0>>
          /\ pc' = "restore"
          /\ UNCHANGED <<curr, el1, mem, pending, core_irq, owes, cont>>

\* task_switch_sync, with interrupts masked by sched_enter.
SwitchSync(t) == /\ pc = "task"
                 /\ Save("task")
                 /\ SwitchTo(t, el1')
                 /\ UNCHANGED <<pending>>

\* sched_start: task_start of curr_task.
SchedStart == /\ pc = "boot"
              /\ cont' = curr
              /\ pc' = "restore"
              /\ UNCHANGED <<curr, el1, sp, mem, pending, core_irq, owes>>

\* Where the restore goes on: in the frame that el1_stack_ptr names.
Resumed == IF el1[curr][1] = Junk \/ el1[curr][2] = 0 THEN "lost"
           ELSE mem[el1[curr][1]][el1[curr][2]]

\* TASK_RESTORE_CONTEXT
RestoreContext ==
  /\ pc = "restore"
  /\ pc' = Resumed
  /\ sp' = <<el1[curr][1], el1[curr][2] - 1>>
  /\ owes' = [owes EXCEPT ![cont] = SubSeq(@, 1, Len(@) - 1)]
  /\ UNCHANGED <<curr, el1, mem, pending, core_irq, cont>>

HandlerStep == \/ HandleTimer({}) \/ HandleTimer({"mbox"}) \/ HandleMbox
               \/ Leave \/ Adjust
               \/ \E t \in IrqTasks : SwitchAsync(t)

INext == \/ Tick \/ TakeIrq \/ HandlerStep \/ RestoreContext \/ SchedStart
         \/ \E t \in IrqTasks : SwitchSync(t)

\* A core takes an interrupt that stays raised, and goes on executing.
IFair == /\ SF_ivars(TakeIrq) /\ WF_ivars(HandlerStep) /\ WF_ivars(RestoreContext)
         /\ SF_ivars(SchedStart)

ISpec == IInit /\ [][INext]_ivars /\ IFair

---------------------------------------------------------------------------
(* Properties. *)

\* A restore resumes the frame that the context it should go on with was last
\* saved in: no context goes on twice from one frame, none is lost.
\* sched.c:500: "the currtask on the cpu is now completly saved and can safelty
\* be resumed".
RestoresOwn ==
  pc = "restore" => /\ cont # Junk
                    /\ el1[curr] = <<cont, Len(owes[cont])>>
                    /\ Resumed = owes[cont][Len(owes[cont])]

\* An interrupt that is raised is handled, also when a task switch leaves the
\* handler before its bit.
IrqServed == \A s \in Sources : s \in pending ~> s \notin pending
=============================================================================
