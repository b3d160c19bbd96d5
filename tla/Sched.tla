------------------------------- MODULE Sched -------------------------------
(***************************************************************************)
(* The NowRaspOS scheduler: src/src/kernel/sched.c with task_reload of     *)
(* task.c, the core-to-core command interrupt of mbox.c and the parts of   *)
(* irq.c that enter it.                                                    *)
(*                                                                         *)
(* sched_lock guards all scheduler state, with interrupts off on the core  *)
(* that holds it or spins on it, so everything between two lock operations *)
(* is one step here unless it is a walk over a queue (one step per         *)
(* element) or crosses a stack switch.  ready_lock, wait_lock[] and        *)
(* task->lock are only ever taken inside sched_lock and add no behaviour.  *)
(*                                                                         *)
(* A core in pc "task" runs its current task with interrupts enabled.  The *)
(* idle task of core c is named c.  Time is counted in units of which a    *)
(* tick may find any number in Elapsed gone by.                            *)
(***************************************************************************)
EXTENDS Integers, Sequences, TaskQueues

CONSTANTS
  Cores, Core0,       \* CORE_NUM cores; Core0 boots and gets the local timer
  Tasks,              \* the task_t's handed to sched_task_add during boot
  None,               \* sched_lock is free
  NumQueues,          \* READY_QUEUE_NUM, 8 in the code
  NumWaitQueues,      \* WAIT_QUEUE_NUM, 59 in the code
  Events,             \* ids returned by event_init: never 0
  WaitTimes,          \* wait_time arguments; 0 is an untimed wait
  Elapsed,            \* the times between two ticks: one period, or more
                      \* when the tick had to spin on sched_lock
  StartPrio,          \* starting_prio of each task
  StartState,         \* the start_state each task is added with
  Quanta,             \* task->quanta
  WaitTicks,          \* SCHED_WAIT_TICKS, 32 in the code
  ReadyTickRelocks    \* TRUE: sched_ready_queue_tick takes sched_lock again,
                      \* as sched.c:293 does.  FALSE: that pair is removed.

Levels  == 0 .. NumQueues - 1
Buckets == 0 .. NumWaitQueues - 1
Threads == Tasks \cup Cores
Flags   == {"READY", "RUNNING", "WAITING", "PAUSED", "IDLE", "UNINT", "BLOCKED"}

ASSUME CoresAssumption   == Core0 \in Cores /\ None \notin Threads /\ Cores \cap Tasks = {}
ASSUME QueuesAssumption  == NumQueues \in Nat \ {0} /\ NumWaitQueues \in Nat \ {0}
ASSUME EventsAssumption  == Events \subseteq Nat \ {0} /\ WaitTimes \subseteq Nat
ASSUME TasksAssumption   == /\ StartPrio \in [Tasks -> Levels]
                            /\ StartState \in [Tasks -> SUBSET Flags]
ASSUME TicksAssumption   == Quanta \in Nat \ {0} /\ Elapsed \subseteq Nat /\ WaitTicks \in Nat
ASSUME VariantAssumption == ReadyTickRelocks \in BOOLEAN

VARIABLES
  lock,              \* sched_lock: the core that holds it, or None
  pc,                \* what each core is executing
  call,              \* the scheduler entry point a core is in
  curr,              \* cpu_info.curr_task
  next,              \* the task sched_task_select returned
  rq,                \* ready_queue[]
  wq,                \* wait_queue[]
  mbox,              \* CoreMailbox[c][Core0] holds a CORE_EXEC message
  added,             \* tasks sched_task_add has been called for
  cursor,            \* a tick's elapsed time, and where its walk is
  state, first_quanta, time_left, sched_wait_ticks, \* the fields of task_t
  ev_id, ev_left                                    \* task->wait_event

coreVars  == <<lock, pc, call, curr, next, mbox, added, cursor>>
queueVars == <<rq, wq>>
timeVars  == <<first_quanta, time_left, sched_wait_ticks>>
eventVars == <<ev_id, ev_left>>
vars == <<coreVars, queueVars, state, timeVars, eventVars>>

PCs == {"boot", "task", "enter", "cs", "select", "switch",
        "rqenter", "rqtick", "wqtick", "panic"}

NoCall    == [op |-> "none", ev |-> 0, time |-> 0]
Call(op)  == [op |-> op, ev |-> 0, time |-> 0]
TaskCalls == {Call("yield")}
               \cup [op : {"wait"}, ev : Events, time : WaitTimes]
               \cup [op : {"signal", "signalall"}, ev : Events, time : {0}]
Calls     == TaskCalls \cup {NoCall, Call("async"), Call("timer")}

\* Mutant of CursorAt: the walk over a queue begins behind its first entry.
CursorPast(queue, elapsed) == [queue |-> queue, pos |-> 2, elapsed |-> elapsed]

CursorAt(queue, elapsed) == [queue |-> queue, pos |-> 1, elapsed |-> elapsed]
NoCursor == CursorAt(0, 0)

---------------------------------------------------------------------------
(* Helpers. *)

\* wait_hash
WaitHash(ev) == ev % NumWaitQueues

Goto(c, label) == pc' = [pc EXCEPT ![c] = label]

\* Mutant of Return: a path that leaves without sched_exit.
ReturnLocked(c) == /\ UNCHANGED lock
                   /\ call' = [call EXCEPT ![c] = NoCall]
                   /\ Goto(c, "task")

\* Leaves the scheduler: unlocks and enables interrupts.
Return(c) == /\ lock' = None
             /\ call' = [call EXCEPT ![c] = NoCall]
             /\ Goto(c, "task")

\* DEBUG_PANIC and ASSERT_PANIC spin forever where they are: the core keeps
\* sched_lock.  What the handler changed before it is not modelled.
Panic(c) == /\ Goto(c, "panic")
            /\ UNCHANGED <<lock, call, curr, next, mbox, added, cursor>>
            /\ UNCHANGED <<queueVars, state, timeVars, eventVars>>

\* task_reload
Reload(t) == /\ first_quanta' = [first_quanta EXCEPT ![t] = TRUE]
             /\ time_left' = [time_left EXCEPT ![t] = Quanta]
             /\ sched_wait_ticks' = [sched_wait_ticks EXCEPT ![t] = WaitTicks]

---------------------------------------------------------------------------
(* Boot: sched_init has built the queues and the idle tasks. *)

Init ==
  /\ lock = None
  /\ pc = [c \in Cores |-> "boot"]
  /\ call = [c \in Cores |-> NoCall]
  /\ curr = [c \in Cores |-> c]
  /\ next = [c \in Cores |-> c]
  /\ rq = [i \in Levels |-> <<>>]
  /\ wq = [b \in Buckets |-> <<>>]
  /\ mbox = [c \in Cores |-> FALSE]
  /\ added = {}
  /\ cursor = NoCursor
  /\ state = [t \in Threads |-> IF t \in Cores THEN {"IDLE"} ELSE {}]
  /\ first_quanta = [t \in Threads |-> TRUE]
  /\ time_left = [t \in Threads |-> Quanta]
  /\ sched_wait_ticks = [t \in Threads |-> WaitTicks]
  /\ ev_id = [t \in Threads |-> 0]
  /\ ev_left = [t \in Threads |-> 0]

\* The state a task is added in: TASK_READY & start_state.
AddedState(t) == {"READY"} \cap StartState[t]

\* sched_task_add: sched_init and klog_init call it before any core starts
\* scheduling, so sched_lock is free.
BootAdd(t) ==
  /\ pc[Core0] = "boot"
  /\ t \notin added
  /\ added' = added \cup {t}
  /\ state' = [state EXCEPT ![t] = AddedState(t)]
  /\ Reload(t)
  /\ rq' = Enqueue(rq, StartPrio[t], t)
  /\ UNCHANGED <<lock, pc, call, curr, next, mbox, cursor, wq, eventVars>>

\* sched_start restores the idle task.  The other cores leave their boot wait
\* after Core0 has called start_cores, past its last sched_task_add.
Start(c) ==
  /\ pc[c] = "boot"
  /\ c = Core0 \/ pc[Core0] # "boot"
  /\ Goto(c, "task")
  /\ UNCHANGED <<lock, call, curr, next, mbox, added, cursor>>
  /\ UNCHANGED <<queueVars, state, timeVars, eventVars>>

---------------------------------------------------------------------------
(* Entering the scheduler.                                                 *)
(*                                                                         *)
(* A core that runs with interrupts enabled takes a pending interrupt      *)
(* within a few instructions, so before its next call and long before the  *)
(* next timer period ends.  (A message that races with a call commutes     *)
(* with it: it is the same as one sent just after the core has disabled    *)
(* its interrupts.)                                                        *)

\* From here to Acquire the core spins on sched_lock with interrupts off.
Enter(c, cl) ==
  /\ pc[c] = "task"
  /\ Goto(c, "enter")
  /\ call' = [call EXCEPT ![c] = cl]
  /\ UNCHANGED <<lock, curr, next, added, cursor>>
  /\ UNCHANGED <<queueVars, state, timeVars, eventVars>>

\* A task calls sched_yield, event_waiton, event_signal or event_signalall.
UserCall(c) == /\ curr[c] \in Tasks /\ ~mbox[c]
               /\ \E cl \in TaskCalls : Enter(c, cl)
               /\ UNCHANGED mbox

\* idle_loop
IdleCall(c) == /\ curr[c] = c /\ ~mbox[c]
               /\ Enter(c, Call("yield"))
               /\ UNCHANGED mbox

\* mbox_get_clear_core_msg
ClearedMsg(c) == [mbox EXCEPT ![c] = FALSE]

\* handle_irq takes the mailbox interrupt: mbox_handle_core_int clears the
\* message, then calls the function it names, sched_async_timeout.
MboxIrq(c) == /\ mbox[c]
              /\ Enter(c, Call("async"))
              /\ mbox' = ClearedMsg(c)

\* handle_irq takes the local timer interrupt, after any mailbox interrupt.
TimerIrq == /\ \A c \in Cores : pc[c] = "task" => ~mbox[c]
            /\ Enter(Core0, Call("timer"))
            /\ UNCHANGED mbox

LockFree(c) == lock = None

\* lock_spinlock(&sched_lock), by sched_enter or sched_enter_save.
Acquire(c) ==
  /\ pc[c] \in {"enter", "rqenter"}
  /\ LockFree(c)
  /\ lock' = c
  /\ Goto(c, IF pc[c] = "enter" THEN "cs" ELSE "rqtick")
  /\ UNCHANGED <<call, curr, next, mbox, added, cursor>>
  /\ UNCHANGED <<queueVars, state, timeVars, eventVars>>

InCall(c, op) == pc[c] = "cs" /\ call[c].op = op

---------------------------------------------------------------------------
(* The critical sections of the entry points. *)

\* sched_yield: the idle task is on no queue.
YieldCS(c) ==
  LET t == curr[c] IN
  /\ InCall(c, "yield")
  /\ IF t \in Tasks
       THEN /\ rq' = Enqueue(rq, StartPrio[t], t)
            /\ state' = [state EXCEPT ![t] = (@ \ {"RUNNING"}) \cup {"READY"}]
       ELSE UNCHANGED <<rq, state>>
  /\ Goto(c, "select")
  /\ UNCHANGED <<lock, call, curr, next, mbox, added, cursor>>
  /\ UNCHANGED <<wq, timeVars, eventVars>>

\* What sched_task_block makes of the state of the task, and sched_task_sleep,
\* which ends in it.
BlockState(s) == (s \ {"RUNNING"}) \cup {"BLOCKED"}
SleepState(s) == BlockState(s \cup {"WAITING"})

\* event_waiton
WaitCS(c) ==
  LET t == curr[c]
      b == WaitHash(call[c].ev) IN
  /\ InCall(c, "wait")
  /\ IF ev_id[t] # 0 \/ t \in Queued(wq) \/ "RUNNING" \notin state[t]
       THEN Panic(c)
       ELSE /\ ev_id' = [ev_id EXCEPT ![t] = call[c].ev]
            /\ ev_left' = [ev_left EXCEPT ![t] = call[c].time]
            /\ wq' = Enqueue(wq, b, t)
            /\ state' = [state EXCEPT ![t] = SleepState(@)]
            /\ Goto(c, "select")
            /\ UNCHANGED <<lock, call, curr, next, mbox, added, cursor>>
            /\ UNCHANGED <<rq, timeVars>>

\* Mutants of RmWaitQueue: one of its two assignments is lost.
RmKeepsEvent(b, k) == wq' = Dequeue(wq, b, k) /\ UNCHANGED ev_id
RmKeepsLink(b, k)  == ev_id' = [ev_id EXCEPT ![wq[b][k]] = 0] /\ UNCHANGED wq

\* event_rm_wait_queue
RmWaitQueue(b, k) == /\ wq' = Dequeue(wq, b, k)
                     /\ ev_id' = [ev_id EXCEPT ![wq[b][k]] = 0]

\* sched_task_wakeup of the k-th task of bucket b, then event_rm_wait_queue.
Wakeable(t) == ev_id[t] # 0 /\ "WAITING" \in state[t]

Wake(b, k) ==
  LET t == wq[b][k] IN
  /\ state' = [state EXCEPT ![t] = (@ \ {"WAITING"}) \cup {"READY"}]
  /\ rq' = Enqueue(rq, StartPrio[t], t)
  /\ RmWaitQueue(b, k)
  /\ UNCHANGED <<timeVars, ev_left>>

Waiters(ev) == {k \in 1 .. Len(wq[WaitHash(ev)]) : ev_id[wq[WaitHash(ev)][k]] = ev}

\* Mutant of FirstWaiter: the walk starts at the tail.
LastWaiter(ev) == {k \in Waiters(ev) : \A j \in Waiters(ev) : j <= k}

FirstWaiter(ev) == {k \in Waiters(ev) : \A j \in Waiters(ev) : k <= j}

\* _event_signal: wakes the waiter nearest the head; event_signalall goes on.
SignalWake(c) ==
  LET ev == call[c].ev IN
  /\ pc[c] = "cs" /\ call[c].op \in {"signal", "signalall"}
  /\ \E k \in FirstWaiter(ev) :
       /\ IF ~Wakeable(wq[WaitHash(ev)][k])
            THEN Panic(c)
            ELSE /\ Wake(WaitHash(ev), k)
                 /\ IF call[c].op = "signal"
                      THEN Return(c)
                      ELSE UNCHANGED <<lock, pc, call>>
                 /\ UNCHANGED <<curr, next, mbox, added, cursor>>

SignalDone(c) ==
  /\ pc[c] = "cs" /\ call[c].op \in {"signal", "signalall"}
  /\ Waiters(call[c].ev) = {}
  /\ Return(c)
  /\ UNCHANGED <<curr, next, mbox, added, cursor>>
  /\ UNCHANGED <<queueVars, state, timeVars, eventVars>>

\* sched_async_timeout
AsyncCS(c) ==
  LET t == curr[c] IN
  /\ InCall(c, "async")
  /\ IF "PAUSED" \in state[t] /\ "IDLE" \notin state[t]
       THEN /\ state' = [state EXCEPT ![t] = (@ \ {"PAUSED"}) \cup {"READY"}]
            /\ rq' = Enqueue(rq, StartPrio[t], t)
            /\ Goto(c, "select")
            /\ UNCHANGED <<lock, call>>
       ELSE /\ Return(c)
            /\ UNCHANGED <<state, rq>>
  /\ UNCHANGED <<curr, next, mbox, added, cursor, wq, timeVars, eventVars>>

---------------------------------------------------------------------------
(* sched_timer_isr on Core0. *)

\* Mutant of Billed: a task that is paused already is billed again.
BilledTwice == {c \in Cores : state[curr[c]] \cap {"READY", "IDLE", "UNINT"} = {}}

Billed == {c \in Cores : state[curr[c]] \cap {"READY", "IDLE", "PAUSED", "UNINT"} = {}}

\* The cores whose task has run out of its quanta.
Expired(e) == {c \in Billed : ~first_quanta[curr[c]] /\ time_left[curr[c]] <= e}

\* mbox_core_cmd_int to each core of S, which has no message unread.
SentMsgs(S) == [d \in Cores |-> mbox[d] \/ d \in S]

\* The billing loop; mbox_send_core_msg panics on a full mailbox.
TimerCS(c) == \E e \in Elapsed :
  /\ InCall(c, "timer")
  /\ IF \E d \in Expired(e) : mbox[d]
       THEN Panic(c)
       ELSE /\ first_quanta' = [t \in Threads |->
                 first_quanta[t] /\ \A d \in Billed : t # curr[d]]
            /\ time_left' = [t \in Threads |->
                 IF \E d \in Billed \ Expired(e) : t = curr[d] /\ ~first_quanta[t]
                   THEN time_left[t] - e ELSE time_left[t]]
            /\ state' = [t \in Threads |->
                 IF \E d \in Expired(e) : t = curr[d] THEN state[t] \cup {"PAUSED"} ELSE state[t]]
            /\ mbox' = SentMsgs(Expired(e))
            /\ Goto(c, IF ReadyTickRelocks THEN "rqenter" ELSE "rqtick")
            /\ cursor' = CursorAt(NumQueues - 1, e)
            /\ UNCHANGED <<lock, call, curr, next, added, queueVars, sched_wait_ticks, eventVars>>

\* sched_ready_queue_tick, the task at the cursor: a task that has waited its
\* ticks moves up one queue (and is met there again), others count down.
RqTick(c) ==
  LET i == cursor.queue
      k == cursor.pos
      t == rq[i][k] IN
  /\ pc[c] = "rqtick" /\ i > 0 /\ k <= Len(rq[i])
  /\ IF sched_wait_ticks[t] = 0
       THEN /\ rq' = Enqueue(Dequeue(rq, i, k), i - 1, t)
            /\ sched_wait_ticks' = [sched_wait_ticks EXCEPT ![t] = WaitTicks]
            /\ UNCHANGED cursor
       ELSE /\ sched_wait_ticks' = [sched_wait_ticks EXCEPT ![t] = @ - 1]
            /\ cursor' = [cursor EXCEPT !.pos = @ + 1]
            /\ UNCHANGED rq
  /\ UNCHANGED <<lock, pc, call, curr, next, mbox, added, wq, state>>
  /\ UNCHANGED <<first_quanta, time_left, eventVars>>

\* The end of a queue; after queue 1 the walk is over (queue 0 is not ticked).
RqTickNext(c) ==
  /\ pc[c] = "rqtick"
  /\ \/ /\ cursor.queue > 0 /\ cursor.pos > Len(rq[cursor.queue])
        /\ cursor' = CursorAt(cursor.queue - 1, cursor.elapsed)
        /\ UNCHANGED <<lock, pc>>
     \/ /\ cursor.queue = 0
        /\ cursor' = CursorAt(0, cursor.elapsed)
        /\ Goto(c, "wqtick")
        /\ lock' = IF ReadyTickRelocks THEN None ELSE lock
  /\ UNCHANGED <<call, curr, next, mbox, added, queueVars, state, timeVars, eventVars>>

\* Mutant of Due: < for <=, so that a wait counts down to 0 and never ends.
DueLate(t) == ev_left[t] # 0 /\ ev_left[t] < cursor.elapsed

\* The time of a timed wait has run out.
Due(t) == ev_left[t] # 0 /\ ev_left[t] <= cursor.elapsed

\* sched_wait_queue_tick, the task at the cursor.
WqTick(c) ==
  LET b == cursor.queue
      k == cursor.pos
      t == wq[b][k] IN
  /\ pc[c] = "wqtick" /\ k <= Len(wq[b])
  /\ IF Due(t)
       THEN IF ~Wakeable(t)
              THEN Panic(c)
              ELSE /\ Wake(b, k)
                   /\ UNCHANGED coreVars
       ELSE /\ ev_left' = [ev_left EXCEPT ![t] = IF @ = 0 THEN 0 ELSE @ - cursor.elapsed]
            /\ cursor' = [cursor EXCEPT !.pos = @ + 1]
            /\ UNCHANGED <<lock, pc, call, curr, next, mbox, added>>
            /\ UNCHANGED <<queueVars, state, timeVars, ev_id>>

\* The end of a wait queue; after the last one the interrupt handler returns.
WqTickNext(c) ==
  /\ pc[c] = "wqtick" /\ cursor.pos > Len(wq[cursor.queue])
  /\ \/ /\ cursor.queue < NumWaitQueues - 1
        /\ cursor' = CursorAt(cursor.queue + 1, cursor.elapsed)
        /\ UNCHANGED <<lock, pc, call>>
     \/ /\ cursor.queue = NumWaitQueues - 1
        /\ cursor' = NoCursor
        /\ Return(c)
  /\ UNCHANGED <<curr, next, mbox, added, queueVars, state, timeVars, eventVars>>

---------------------------------------------------------------------------
(* task_switch_sync and task_switch_async, with sched_lock held. *)

\* sched_task_select with sched_pop_readyqueue: the head of the first
\* non-empty queue, or the idle task.
SelectReady(c) ==
  /\ pc[c] = "select"
  /\ \E i \in Levels :
       /\ rq[i] # <<>>
       /\ \A j \in Levels : j < i => rq[j] = <<>>
       /\ next' = [next EXCEPT ![c] = Head(rq[i])]
       /\ rq' = Dequeue(rq, i, 1)
       /\ state' = [state EXCEPT ![Head(rq[i])] = @ \ {"READY"}]
  /\ Goto(c, "switch")
  /\ UNCHANGED <<lock, call, curr, mbox, added, cursor, wq, timeVars, eventVars>>

SelectIdle(c) ==
  /\ pc[c] = "select"
  /\ \A i \in Levels : rq[i] = <<>>
  /\ next' = [next EXCEPT ![c] = c]
  /\ state' = [state EXCEPT ![c] = @ \ {"READY"}]
  /\ Goto(c, "switch")
  /\ UNCHANGED <<lock, call, curr, mbox, added, cursor, queueVars, timeVars, eventVars>>

\* Mutant of RunningState: TASK_BLOCK_STATES without TASK_PAUSED.
StillPaused(s) == (s \ {"WAITING", "BLOCKED"}) \cup {"RUNNING"}

RunningState(s) == (s \ {"WAITING", "PAUSED", "BLOCKED"}) \cup {"RUNNING"}

\* sched_task_switch, then the context restore into the task it names.
Switch(c) ==
  LET t == next[c] IN
  /\ pc[c] = "switch"
  /\ curr' = [curr EXCEPT ![c] = t]
  /\ next' = [next EXCEPT ![c] = c]
  /\ state' = [state EXCEPT ![t] = RunningState(@)]
  /\ Reload(t)
  /\ Return(c)
  /\ UNCHANGED <<mbox, added, cursor, queueVars, eventVars>>

---------------------------------------------------------------------------

\* The steps of a core that holds sched_lock.
Locked(c) == \/ YieldCS(c) \/ WaitCS(c) \/ SignalWake(c) \/ SignalDone(c) \/ AsyncCS(c)
             \/ TimerCS(c) \/ RqTick(c) \/ RqTickNext(c) \/ WqTick(c) \/ WqTickNext(c)
             \/ SelectReady(c) \/ SelectIdle(c) \/ Switch(c)

Next == \/ \E t \in Tasks : BootAdd(t)
        \/ TimerIrq
        \/ \E c \in Cores : \/ Start(c) \/ UserCall(c) \/ IdleCall(c) \/ MboxIrq(c)
                            \/ Acquire(c) \/ Locked(c)

Spec == Init /\ [][Next]_vars

\* Every core keeps executing instructions: a started core takes its steps, the
\* idle loop yields, a core that can take a pending interrupt does.  The timer
\* never stops.  A core that spins on sched_lock gets it if it is free again
\* and again.  Nothing is assumed of what a task calls, or that it calls at all.
Fairness == /\ SF_vars(TimerIrq)
            /\ \A c \in Cores : /\ WF_vars(Start(c)) /\ WF_vars(Locked(c))
                                /\ SF_vars(Acquire(c)) /\ SF_vars(IdleCall(c))
                                /\ SF_vars(MboxIrq(c))

FairSpec == Spec /\ Fairness

---------------------------------------------------------------------------
(* Properties. *)

\* A core runs its own idle task or an added one; only the latter waits and
\* signals.
CoreTypes ==
  /\ lock \in Cores \cup {None}
  /\ pc \in [Cores -> PCs]
  /\ call \in [Cores -> Calls]
  /\ curr \in [Cores -> Threads]
  /\ next \in [Cores -> Threads]
  /\ mbox \in [Cores -> BOOLEAN]
  /\ added \in SUBSET Tasks
  /\ \A c \in Cores :
       /\ curr[c] \in Tasks \cup {c} /\ next[c] \in Tasks \cup {c}
       /\ call[c].op \in {"wait", "signal", "signalall"} => curr[c] \in Tasks

QueueTypes ==
  /\ rq \in [Levels -> Seq(Tasks)]
  /\ wq \in [Buckets -> Seq(Tasks)]

\* A tick's walk stays within the array it walks.
CursorTypes ==
  /\ cursor \in [queue : Nat, pos : Nat \ {0}, elapsed : Nat]
  /\ \A c \in Cores :
       /\ pc[c] \in {"rqenter", "rqtick"} => cursor.queue \in Levels
       /\ pc[c] = "wqtick" => cursor.queue \in Buckets

\* Only idle tasks are marked idle, always.
FieldTypes ==
  /\ state \in [Threads -> SUBSET Flags]
  /\ \A c \in Cores : "IDLE" \in state[c]
  /\ first_quanta \in [Threads -> BOOLEAN]
  /\ time_left \in [Threads -> 1 .. Quanta]
  /\ sched_wait_ticks \in [Threads -> 0 .. WaitTicks]
  /\ ev_id \in [Threads -> Events \cup {0}]
  /\ ev_left \in [Threads -> Nat]

\* Every variable has its type.
TypeOK == CoreTypes /\ QueueTypes /\ CursorTypes /\ FieldTypes

\* Program points inside a sched_lock critical section.
HoldsLock(c) == pc[c] \in {"cs", "select", "switch", "rqenter", "rqtick", "wqtick", "panic"}

\* sched_lock is held by exactly the core that is inside the scheduler: the
\* lock taken in event_waiton or sched_yield is the one sched_task_switch
\* releases for the next task, and no path releases it twice or leaves with it.
LockInv == \A c \in Cores : HoldsLock(c) <=> lock = c

\* As the code stands, no core ever walks a queue in a timer tick: the lock
\* that sched_ready_queue_tick waits for is held by the core that waits.
TickHangs == ReadyTickRelocks => \A c \in Cores : pc[c] \notin {"rqtick", "wqtick"}

\* The task that core c runs or has just selected; nobody in between.
Owner(c) == IF pc[c] = "select" THEN None
            ELSE IF pc[c] = "switch" THEN next[c] ELSE curr[c]

Owns(c, t) == Owner(c) = t

\* No task is in two places: twice on ready queues, ready and waiting, queued
\* and running, or current on two cores.  Two cores on one stack or a chain
\* linked twice is how a broken wakeup, timeout or yield would show.
OnePlace ==
  /\ NoDuplicates(rq) /\ NoDuplicates(wq)
  /\ Queued(rq) \cap Queued(wq) = {}
  /\ \A c \in Cores, t \in Tasks :
       Owns(c, t) => /\ t \notin Queued(rq) \cup Queued(wq)
                     /\ \A d \in Cores : Owns(d, t) => d = c

\* No task is lost: what sched_task_add was given stays on a queue or a core.
NoneLost ==
  \A t \in Tasks :
    t \in added <=> t \in Queued(rq) \cup Queued(wq) \/ \E c \in Cores : Owns(c, t)

\* A task is on the wait queue of its event exactly while it has one, and
\* then it can be woken: sched_task_wakeup's panic cannot fire.
WaitInv ==
  /\ \A b \in Buckets : \A k \in 1 .. Len(wq[b]) :
       /\ Wakeable(wq[b][k])
       /\ WaitHash(ev_id[wq[b][k]]) = b
  /\ \A t \in Tasks : ev_id[t] # 0 => t \in Queued(wq)

\* No assertion of the scheduler, of event_waiton or of the mailbox fires: in
\* particular a core is never sent a second timeout while the first is unread.
NoPanic == \A c \in Cores : pc[c] # "panic"

\* A paused task that still runs has its timeout under way, in the mailbox or
\* in the handler.  Billing skips paused tasks, so one whose interrupt was
\* lost would keep its core for ever.
PauseDelivered ==
  \A c \in Cores :
    Owns(c, curr[c]) /\ "PAUSED" \in state[curr[c]] =>
      mbox[c] \/ call[c].op = "async"

\* What SchedAbs sees of a state: where each task is, and whom each core runs.
absStatus ==
  LET ready == Queued(rq)
      waiting == Queued(wq)
  IN [t \in Tasks |-> CASE t \in ready -> "ready"
                        [] t \in waiting -> "waiting"
                        [] t \in added \ (ready \cup waiting) -> "running"
                        [] OTHER -> "new"]
absOn == [c \in Cores |-> IF Owner(c) \in Tasks THEN Owner(c) ELSE None]

Abs == INSTANCE SchedAbs WITH Nobody <- None, status <- absStatus, on <- absOn

\* The scheduler implements SchedAbs: through locks, stack switches, signals,
\* preemption and timeouts, every step moves tasks as SchedAbs allows.
Implements == Abs!Spec

\* A ready task only moves forward: to a more urgent queue, or towards the
\* head of its queue; nothing that wakes, yields or times out overtakes it
\* within its queue.
NoOvertaking ==
  [][\A i, j \in Levels : \A k \in 1 .. Len(rq[i]), l \in 1 .. Len(rq'[j]) :
       rq[i][k] = rq'[j][l] => j < i \/ (j = i /\ l <= k)]_vars

\* Task t waits for the same event as u, in front of it.
Before(t, u) ==
  \E b \in Buckets : \E k, l \in 1 .. Len(wq[b]) :
    k < l /\ wq[b][k] = t /\ wq[b][l] = u /\ ev_id[t] = ev_id[u]

\* The waiters of an event are served in the order they came: one that joins
\* is behind all others, none overtakes another, and a signal never wakes a
\* task and leaves an earlier waiter behind (only a timeout may).
WakeOrder ==
  [][\A t \in Tasks : t \in Queued(wq) => \A u \in Tasks :
       /\ Before(t, u) /\ u \notin Queued(wq)' =>
            pc[Core0] = "wqtick" \/ t \notin Queued(wq)'
       /\ Before(t, u) /\ {t, u} \subseteq Queued(wq)' => Before(t, u)'
       /\ u \in Queued(wq)' \ Queued(wq) /\ ev_id[t] = ev_id'[u] =>
            Before(t, u)']_vars

\* A task on the ready queues is eventually given a core, whatever the others
\* do: preemption and the aging of sched_ready_queue_tick leave none behind.
ReadyRuns ==
  \A t \in Tasks : t \in Queued(rq) ~> \E c \in Cores : curr[c] = t

\* A timed wait ends even if nobody signals the event.
TimedWaitEnds ==
  \A t \in Tasks : t \in Queued(wq) /\ ev_left[t] > 0 ~> t \notin Queued(wq)

\* The local timer interrupt handler returns, and so aging and timed waits go
\* on.  task.h:66: "If the task has been passed by the scheduler
\* SCHED_WAIT_TICK times its priority will be elavated."
TickReturns == pc[Core0] = "rqenter" ~> pc[Core0] = "task"

\* task.h:25: "TASK_UNINT - uninterupptable, do not deschedule".
UnintNotPaused ==
  \A t \in Tasks : "UNINT" \in StartState[t] => "PAUSED" \notin state[t]
=============================================================================
