---------------------------- MODULE SchedProofs ----------------------------
(***************************************************************************)
(* Theorems about Sched, for any number of cores, tasks, queues, events    *)
(* and ticks, and for both values of ReadyTickRelocks: types, the lock and  *)
(* where tasks are; that Sched implements SchedAbs; the wait queues, the   *)
(* assertions in the code and the order in which tasks are served.         *)
(***************************************************************************)
EXTENDS Sched, SharedLemmas

---------------------------------------------------------------------------
(* sched_lock. *)

\* Initially nobody is inside the scheduler.
LEMMA LockInit == Init => LockInv /\ TickHangs
BY CoresAssumption DEF Init, LockInv, HoldsLock, TickHangs, Threads

\* Taking the lock needs it free; only its holder passes it on or releases it.
LEMMA LockStep ==
  ASSUME TypeOK, LockInv, TickHangs, [Next]_vars
  PROVE  LockInv' /\ TickHangs'
<1>0. pc \in [Cores -> PCs] /\ lock \in Cores \cup {None}
  BY DEF TypeOK, CoreTypes
<1> USE <1>0, CoresAssumption, VariantAssumption DEF LockInv, HoldsLock, TickHangs, Threads
<1>1. ASSUME NEW t \in Tasks, BootAdd(t) PROVE LockInv' /\ TickHangs'
  BY <1>1 DEF BootAdd
<1>2. CASE TimerIrq
  BY <1>2 DEF TimerIrq, Enter, Goto
<1>3. ASSUME NEW c \in Cores, Start(c) \/ UserCall(c) \/ IdleCall(c) \/ MboxIrq(c)
      PROVE  LockInv' /\ TickHangs'
  BY <1>3 DEF Start, UserCall, IdleCall, MboxIrq, ClearedMsg, Enter, Goto
<1>4. ASSUME NEW c \in Cores, Acquire(c) PROVE LockInv' /\ TickHangs'
  BY <1>4 DEF Acquire, LockFree, Goto
<1>5. ASSUME NEW c \in Cores, Locked(c) PROVE LockInv' /\ TickHangs'
  <2>1. CASE YieldCS(c)
    BY <2>1 DEF YieldCS, InCall, Goto
  <2>2. CASE WaitCS(c)
    BY <2>2 DEF WaitCS, SleepState, BlockState, InCall, Goto, Panic
  <2>3. CASE SignalWake(c)
    BY <2>3 DEF SignalWake, Return, Goto, Panic
  <2>4. CASE SignalDone(c)
    BY <2>4 DEF SignalDone, Return, Goto
  <2>5. CASE AsyncCS(c)
    BY <2>5 DEF AsyncCS, InCall, Return, Goto
  <2>6. CASE TimerCS(c)
    BY <2>6 DEF TimerCS, SentMsgs, InCall, Goto, Panic
  <2>7. CASE RqTick(c)
    BY <2>7 DEF RqTick
  <2>8. CASE RqTickNext(c)
    BY <2>8 DEF RqTickNext, Goto
  <2>9. CASE WqTick(c)
    BY <2>9 DEF WqTick, Panic, Goto, coreVars
  <2>10. CASE WqTickNext(c)
    BY <2>10 DEF WqTickNext, Return, Goto
  <2>11. CASE SelectReady(c) \/ SelectIdle(c)
    BY <2>11 DEF SelectReady, SelectIdle, Goto
  <2>12. CASE Switch(c)
    BY <2>12 DEF Switch, Return, Goto
  <2> QED BY <1>5, <2>1, <2>2, <2>3, <2>4, <2>5, <2>6, <2>7, <2>8, <2>9, <2>10, <2>11, <2>12
          DEF Locked
<1>6. CASE UNCHANGED vars
  BY <1>6 DEF vars, coreVars
<1> QED BY <1>1, <1>2, <1>3, <1>4, <1>5, <1>6 DEF Next
---------------------------------------------------------------------------
(* Types. *)

LEMMA TypeInit == Init => TypeOK
BY CoresAssumption, QueuesAssumption, TicksAssumption, EmptySeq
DEF Init, TypeOK, CoreTypes, QueueTypes, CursorTypes, FieldTypes, Threads, Levels, PCs,
      Calls, NoCall, Flags, NoCursor, CursorAt

\* The calls a core can be in, and their arguments.
LEMMA CallFacts ==
  /\ NoCall \in Calls /\ Call("yield") \in Calls
  /\ Call("async") \in Calls /\ Call("timer") \in Calls /\ TaskCalls \subseteq Calls
  /\ \A cl \in Calls : cl.op \in {"wait", "signal", "signalall"} =>
                       cl.ev \in Events /\ cl.time \in Nat
<1>1. /\ NoCall \in Calls /\ Call("async") \in Calls /\ Call("timer") \in Calls
      /\ TaskCalls \subseteq Calls /\ Call("yield") \in TaskCalls
  BY DEF Calls, TaskCalls
<1>2. ASSUME NEW cl \in Calls, cl.op \in {"wait", "signal", "signalall"}
      PROVE  cl.ev \in Events /\ cl.time \in Nat
  <2>1. cl \in [op : {"wait"}, ev : Events, time : WaitTimes]
          \cup [op : {"signal", "signalall"}, ev : Events, time : {0}]
    BY <1>2 DEF Calls, TaskCalls, NoCall, Call
  <2>2. cl.ev \in Events /\ cl.time \in WaitTimes \cup {0}
    BY <2>1
  <2>3. WaitTimes \cup {0} \subseteq Nat
    BY EventsAssumption
  <2> QED BY <2>2, <2>3
<1> QED BY <1>1, <1>2

\* Every bucket a hash names exists.
LEMMA HashFacts == \A ev \in Nat : WaitHash(ev) \in Buckets
BY QueuesAssumption DEF WaitHash, Buckets

\* The tasks on the queues, and the one at the cursor of a tick.
LEMMA QueuedTypes ==
  ASSUME QueueTypes
  PROVE  /\ \A i \in Levels : Len(rq[i]) \in Nat /\ \A k \in 1 .. Len(rq[i]) : rq[i][k] \in Tasks
         /\ \A b \in Buckets : Len(wq[b]) \in Nat /\ \A k \in 1 .. Len(wq[b]) : wq[b][k] \in Tasks
BY ElementOfSeq, LenProperties DEF QueueTypes

LEMMA CoreTypesStep ==
  ASSUME CoreTypes, QueueTypes, [Next]_vars
  PROVE  CoreTypes'
<1> USE CoresAssumption, CallFacts DEF CoreTypes
<1>1. ASSUME NEW t \in Tasks, BootAdd(t) PROVE CoreTypes'
  BY <1>1 DEF BootAdd
<1>2. CASE TimerIrq
  BY <1>2 DEF TimerIrq, Enter, Goto, PCs, Call
<1>3. ASSUME NEW c \in Cores, Start(c) \/ UserCall(c) \/ IdleCall(c) \/ MboxIrq(c) \/ Acquire(c)
      PROVE  CoreTypes'
  <2>1. CASE Start(c) \/ Acquire(c)
    BY <2>1 DEF Start, Acquire, Goto, PCs
  <2>2. CASE UserCall(c)
    BY <2>2 DEF UserCall, Enter, Goto, PCs
  <2>3. CASE IdleCall(c)
    BY <2>3 DEF IdleCall, Enter, Goto, PCs, Call
  <2>4. CASE MboxIrq(c)
    BY <2>4 DEF MboxIrq, ClearedMsg, Enter, Goto, PCs, Call
  <2> QED BY <1>3, <2>1, <2>2, <2>3, <2>4
<1>4. ASSUME NEW c \in Cores, Locked(c) PROVE CoreTypes'
  <2>1. CASE YieldCS(c) \/ WaitCS(c) \/ SignalWake(c) \/ SignalDone(c) \/ AsyncCS(c)
    <3> USE DEF Panic, Return, Goto, PCs, NoCall
    <3>1. CASE YieldCS(c) \/ WaitCS(c)
      BY <3>1 DEF YieldCS, WaitCS, SleepState, BlockState
    <3>2. CASE SignalWake(c)
      BY <3>2 DEF SignalWake
    <3>3. CASE SignalDone(c) \/ AsyncCS(c)
      BY <3>3 DEF SignalDone, AsyncCS
    <3> QED BY <2>1, <3>1, <3>2, <3>3
  <2>2. CASE TimerCS(c)
    <3>1. mbox' \in [Cores -> BOOLEAN]
      <4>1. CASE mbox' = mbox
        BY <4>1
      <4>2. ASSUME NEW e, mbox' = [d \in Cores |-> mbox[d] \/ d \in Expired(e)]
            PROVE  mbox' \in [Cores -> BOOLEAN]
        BY <4>2, Zenon
      <4> QED BY <2>2, <4>1, <4>2 DEF TimerCS, SentMsgs, Panic
    <3>2. /\ UNCHANGED <<lock, call, curr, next, added>>
          /\ \E l \in PCs : Goto(c, l)
      BY <2>2 DEF TimerCS, SentMsgs, Panic, PCs
    <3> QED BY <3>1, <3>2 DEF Goto
  <2>3. CASE RqTick(c) \/ RqTickNext(c) \/ WqTick(c) \/ WqTickNext(c)
    <3>1. CASE RqTick(c)
      BY SMTT(30), <3>1 DEF RqTick, Panic, Return, Goto, PCs, NoCall, coreVars
    <3>2. CASE RqTickNext(c)
      BY <3>2 DEF RqTickNext, Panic, Return, Goto, PCs, NoCall, coreVars
    <3>3. CASE WqTick(c)
      BY SMTT(30), <3>3 DEF WqTick, Panic, Return, Goto, PCs, NoCall, coreVars
    <3>4. CASE WqTickNext(c)
      BY <3>4 DEF WqTickNext, Panic, Return, Goto, PCs, NoCall, coreVars
    <3> QED BY <2>3, <3>1, <3>2, <3>3, <3>4
  <2>4. CASE SelectReady(c)
    <3>1. PICK i \in Levels : rq[i] # <<>> /\ next' = [next EXCEPT ![c] = Head(rq[i])]
      BY <2>4 DEF SelectReady
    <3>2. Head(rq[i]) \in Tasks
      BY <3>1, HeadTailProperties DEF QueueTypes
    <3> QED BY <2>4, <3>1, <3>2 DEF SelectReady, Goto, PCs, Threads
  <2>5. CASE SelectIdle(c) \/ Switch(c)
    BY <2>5 DEF SelectIdle, Switch, Return, Goto, PCs, NoCall, Threads
  <2> QED BY <1>4, <2>1, <2>2, <2>3, <2>4, <2>5 DEF Locked
<1>5. CASE UNCHANGED vars
  BY <1>5 DEF vars, coreVars
<1> QED BY <1>1, <1>2, <1>3, <1>4, <1>5 DEF Next

\* The steps that touch no queue.
QuietStep(c) == \/ TimerIrq \/ Start(c) \/ UserCall(c) \/ IdleCall(c) \/ MboxIrq(c) \/ Acquire(c)
                \/ SignalDone(c) \/ TimerCS(c) \/ RqTickNext(c) \/ WqTickNext(c)
                \/ SelectIdle(c) \/ Switch(c) \/ UNCHANGED vars

LEMMA QuietFacts ==
  ASSUME NEW c \in Cores, QuietStep(c)
  PROVE  rq' = rq /\ wq' = wq
BY DEF QuietStep, TimerIrq, Start, UserCall, IdleCall, MboxIrq, ClearedMsg, Acquire,
      Enter, SignalDone,
       TimerCS, SentMsgs, Panic, RqTickNext, WqTickNext, SelectIdle, Switch, vars, queueVars

\* The bucket a wait or a signal works on exists.
LEMMA BucketFacts ==
  ASSUME CoreTypes, NEW c \in Cores, call[c].op \in {"wait", "signal", "signalall"}
  PROVE  /\ call[c].ev \in Events /\ call[c].time \in Nat
         /\ WaitHash(call[c].ev) \in Buckets
BY HashFacts, EventsAssumption, CallFacts DEF CoreTypes

\* A task goes onto the ready queue of its starting priority.
LEMMA ReadyTypes ==
  ASSUME QueueTypes, NEW t \in Tasks
  PROVE  Enqueue(rq, StartPrio[t], t) \in [Levels -> Seq(Tasks)]
<1>1. StartPrio[t] \in Levels
  BY TasksAssumption
<1> QED BY <1>1, EnqueueFacts DEF QueueTypes

\* The task a timeout deschedules is not an idle task.
LEMMA PausedTask ==
  ASSUME CoreTypes, FieldTypes, NEW c \in Cores, "IDLE" \notin state[curr[c]]
  PROVE  curr[c] \in Tasks
BY DEF CoreTypes, FieldTypes

\* Waking the k-th task of a bucket moves it to its ready queue.
LEMMA WakeTypes ==
  ASSUME QueueTypes, NEW b \in Buckets, NEW k \in 1 .. Len(wq[b]), Wake(b, k)
  PROVE  QueueTypes'
<1>1. wq[b][k] \in Tasks
  BY QueuedTypes
<1>2. rq' \in [Levels -> Seq(Tasks)]
  BY <1>1, ReadyTypes DEF Wake
<1>3. wq' \in [Buckets -> Seq(Tasks)]
  BY DequeueFacts DEF Wake, RmWaitQueue, QueueTypes
<1> QED BY <1>2, <1>3 DEF QueueTypes

LEMMA QueueTypesStep ==
  ASSUME CoreTypes, QueueTypes, CursorTypes, FieldTypes, [Next]_vars
  PROVE  QueueTypes'
<1>1. ASSUME NEW t \in Tasks, BootAdd(t) PROVE QueueTypes'
  BY <1>1, ReadyTypes DEF BootAdd, QueueTypes
<1>2. ASSUME NEW c \in Cores, QuietStep(c) PROVE QueueTypes'
  BY <1>2, QuietFacts DEF QueueTypes
<1>3. ASSUME NEW c \in Cores, Locked(c) PROVE QueueTypes'
  <2>1. CASE YieldCS(c)
    BY <2>1, ReadyTypes DEF YieldCS, QueueTypes
  <2>2. CASE WaitCS(c)
    <3>1. CASE Panic(c)
      BY <3>1 DEF Panic, QueueTypes, queueVars
    <3>2. CASE ~Panic(c)
      <4>1. curr[c] \in Tasks /\ WaitHash(call[c].ev) \in Buckets
        BY <2>2, BucketFacts DEF WaitCS, SleepState, BlockState, InCall, CoreTypes
      <4>2. wq' = Enqueue(wq, WaitHash(call[c].ev), curr[c]) /\ rq' = rq
        BY <2>2, <3>2 DEF WaitCS, SleepState, BlockState
      <4> QED BY <4>1, <4>2, EnqueueFacts DEF QueueTypes
    <3> QED BY <3>1, <3>2
  <2>3. CASE SignalWake(c)
    <3>1. CASE Panic(c)
      BY <3>1 DEF Panic, QueueTypes, queueVars
    <3>2. CASE ~Panic(c)
      <4>1. PICK k \in FirstWaiter(call[c].ev) : Wake(WaitHash(call[c].ev), k)
        BY <2>3, <3>2 DEF SignalWake
      <4>2. WaitHash(call[c].ev) \in Buckets
        BY <2>3, BucketFacts DEF SignalWake
      <4>3. k \in 1 .. Len(wq[WaitHash(call[c].ev)])
        BY DEF FirstWaiter, Waiters
      <4> QED BY <4>1, <4>2, <4>3, WakeTypes
    <3> QED BY <3>1, <3>2
  <2>4. CASE AsyncCS(c)
    BY <2>4, ReadyTypes, PausedTask DEF AsyncCS, QueueTypes
  <2>5. CASE RqTick(c)
    <3> DEFINE i == cursor.queue
               k == cursor.pos
    <3>1. i \in Levels /\ i - 1 \in Levels /\ k \in 1 .. Len(rq[i])
      <4>1. i \in Levels /\ k \in Nat \ {0} /\ i > 0 /\ k <= Len(rq[i])
        <5>1. pc[c] = "rqtick" /\ i > 0 /\ k <= Len(rq[i])
          BY <2>5 DEF RqTick
        <5>2. cursor.queue \in Levels
          BY <5>1 DEF CursorTypes
        <5>3. cursor.pos \in Nat \ {0}
          BY DEF CursorTypes
        <5> QED BY <5>1, <5>2, <5>3
      <4> QED BY <4>1, QueuedTypes, QueuesAssumption DEF Levels
    <3>2. CASE UNCHANGED rq
      BY <2>5, <3>2 DEF RqTick, QueueTypes
    <3>3. CASE rq' = Enqueue(Dequeue(rq, i, k), i - 1, rq[i][k])
      <4>1. rq[i][k] \in Tasks /\ Dequeue(rq, i, k) \in [Levels -> Seq(Tasks)]
        BY <3>1, DequeueFacts DEF QueueTypes
      <4>2. rq' \in [Levels -> Seq(Tasks)]
        BY <3>1, <3>3, <4>1, EnqueueFacts
      <4> QED BY <2>5, <4>2 DEF RqTick, QueueTypes
    <3> QED BY <2>5, <3>2, <3>3 DEF RqTick
  <2>6. CASE WqTick(c)
    <3>1. CASE Panic(c)
      BY <3>1 DEF Panic, QueueTypes, queueVars
    <3>2. CASE Wake(cursor.queue, cursor.pos)
      BY <2>6, <3>2, WakeTypes, QueuedTypes DEF WqTick, CursorTypes
    <3>3. CASE UNCHANGED queueVars
      BY <3>3 DEF QueueTypes, queueVars
    <3> QED BY <2>6, <3>1, <3>2, <3>3 DEF WqTick
  <2>7. CASE SelectReady(c)
    <3>1. PICK i \in Levels : rq[i] # <<>> /\ rq' = Dequeue(rq, i, 1)
      BY <2>7 DEF SelectReady
    <3>2. 1 \in 1 .. Len(rq[i])
      BY <3>1, EmptySeq, LenProperties DEF QueueTypes
    <3> QED BY <2>7, <3>1, <3>2, DequeueFacts DEF SelectReady, QueueTypes
  <2> QED BY <1>2, <1>3, <2>1, <2>2, <2>3, <2>4, <2>5, <2>6, <2>7 DEF Locked, QuietStep
<1> QED BY <1>1, <1>2, <1>3, CoresAssumption DEF Next, QuietStep

\* A tick takes from a task's quanta at most what is left of it.
LEMMA TimerTypes ==
  ASSUME CoreTypes, FieldTypes, NEW c \in Cores, TimerCS(c)
  PROVE  FieldTypes'
<1>1. CASE Panic(c)
  BY <1>1 DEF Panic, FieldTypes, timeVars, eventVars
<1>2. CASE ~Panic(c)
  <2>1. PICK e \in Elapsed :
          /\ first_quanta' = [t \in Threads |-> first_quanta[t] /\ \A d \in Billed : t # curr[d]]
          /\ time_left' = [t \in Threads |->
                IF \E d \in Billed \ Expired(e) : t = curr[d] /\ ~first_quanta[t]
                  THEN time_left[t] - e ELSE time_left[t]]
          /\ state' = [t \in Threads |->
                IF \E d \in Expired(e) : t = curr[d] THEN state[t] \cup {"PAUSED"} ELSE state[t]]
          /\ UNCHANGED <<sched_wait_ticks, eventVars>>
    BY <1>2 DEF TimerCS, SentMsgs
  <2>2. e \in Nat
    BY TicksAssumption
  <2>3. first_quanta' \in [Threads -> BOOLEAN]
    BY <2>1, Zenon
  <2>4. time_left' \in [Threads -> 1 .. Quanta]
    <3> SUFFICES ASSUME NEW t \in Threads, NEW d \in Billed \ Expired(e),
                        t = curr[d], ~first_quanta[t]
                 PROVE  time_left[t] - e \in 1 .. Quanta
      BY <2>1 DEF FieldTypes
    <3>1. time_left[t] \in 1 .. Quanta /\ ~(time_left[t] <= e)
      BY DEF FieldTypes, Expired
    <3> QED BY <2>2, <3>1, TicksAssumption
  <2>5. /\ state' \in [Threads -> SUBSET Flags]
        /\ \A d \in Cores : "IDLE" \in state'[d]
    BY <2>1 DEF FieldTypes, Flags, Threads
  <2>6. sched_wait_ticks' = sched_wait_ticks /\ ev_id' = ev_id /\ ev_left' = ev_left
    BY <2>1 DEF eventVars
  <2> QED BY <2>3, <2>4, <2>5, <2>6 DEF FieldTypes
<1> QED BY <1>1, <1>2

\* A task that is woken has no event; its other fields keep their types.
LEMMA WakeFields ==
  ASSUME QueueTypes, FieldTypes, NEW b \in Buckets, NEW k \in 1 .. Len(wq[b]), Wake(b, k)
  PROVE  FieldTypes'
<1>1. wq[b][k] \in Threads
  BY QueuedTypes DEF Threads
<1> QED BY <1>1 DEF Wake, RmWaitQueue, FieldTypes, Flags, Threads, timeVars

\* task_reload
LEMMA ReloadTypes ==
  ASSUME FieldTypes, NEW t \in Threads, Reload(t)
  PROVE  /\ first_quanta' \in [Threads -> BOOLEAN]
         /\ time_left' \in [Threads -> 1 .. Quanta]
         /\ sched_wait_ticks' \in [Threads -> 0 .. WaitTicks]
BY TicksAssumption DEF Reload, FieldTypes

\* The steps that change no field of a task.
LEMMA FieldQuiet ==
  ASSUME FieldTypes, UNCHANGED <<state, timeVars, eventVars>>
  PROVE  FieldTypes'
BY DEF FieldTypes, timeVars, eventVars

LEMMA FieldTypesStep ==
  ASSUME CoreTypes, QueueTypes, CursorTypes, FieldTypes, [Next]_vars
  PROVE  FieldTypes'
<1>1. ASSUME NEW t \in Tasks, BootAdd(t) PROVE FieldTypes'
  <2>1. AddedState(t) \subseteq Flags /\ t \in Threads /\ t \notin Cores
    BY CoresAssumption DEF AddedState, Flags, Threads
  <2> QED BY <1>1, <2>1, ReloadTypes DEF BootAdd, FieldTypes, eventVars
<1>2. CASE TimerIrq
  BY <1>2, FieldQuiet DEF TimerIrq, Enter
<1>3. ASSUME NEW c \in Cores, Start(c) \/ UserCall(c) \/ IdleCall(c) \/ MboxIrq(c) \/ Acquire(c)
      PROVE  FieldTypes'
  BY <1>3, FieldQuiet DEF Start, UserCall, IdleCall, MboxIrq, ClearedMsg, Acquire, Enter
<1>4. ASSUME NEW c \in Cores, Locked(c) PROVE FieldTypes'
  <2>0. curr[c] \in Threads /\ next[c] \in Threads
    BY DEF CoreTypes
  <2>1. CASE YieldCS(c)
    BY <2>0, <2>1 DEF YieldCS, FieldTypes, Flags, Threads, timeVars, eventVars
  <2>2. CASE WaitCS(c)
    <3>1. CASE Panic(c)
      BY <3>1, FieldQuiet DEF Panic
    <3>2. CASE ~Panic(c)
      <4>1. call[c].ev \in Events /\ call[c].time \in Nat
        BY <2>2, BucketFacts DEF WaitCS, SleepState, BlockState, InCall
      <4> QED BY <2>0, <2>2, <3>2, <4>1 DEF WaitCS, SleepState, BlockState, FieldTypes, Flags,
            Threads, timeVars
    <3> QED BY <3>1, <3>2
  <2>3. CASE SignalWake(c)
    <3>1. CASE Panic(c)
      BY <3>1, FieldQuiet DEF Panic
    <3>2. CASE ~Panic(c)
      <4>1. PICK k \in FirstWaiter(call[c].ev) : Wake(WaitHash(call[c].ev), k)
        BY <2>3, <3>2 DEF SignalWake
      <4>2. WaitHash(call[c].ev) \in Buckets
        BY <2>3, BucketFacts DEF SignalWake
      <4>3. k \in 1 .. Len(wq[WaitHash(call[c].ev)])
        BY DEF FirstWaiter, Waiters
      <4> QED BY <4>1, <4>2, <4>3, WakeFields
    <3> QED BY <3>1, <3>2
  <2>4. CASE AsyncCS(c)
    BY <2>0, <2>4 DEF AsyncCS, FieldTypes, Flags, Threads, timeVars, eventVars
  <2>5. CASE TimerCS(c)
    BY <2>5, TimerTypes
  <2>6. CASE RqTick(c)
    <3> DEFINE t == rq[cursor.queue][cursor.pos]
    <3>1. t \in Threads
      <4>1. cursor.queue \in Levels /\ cursor.pos \in 1 .. Len(rq[cursor.queue])
        BY <2>6, QueuedTypes DEF RqTick, CursorTypes
      <4> QED BY <4>1, QueuedTypes DEF Threads
    <3>2. /\ \/ sched_wait_ticks' = [sched_wait_ticks EXCEPT ![t] = WaitTicks]
             \/ /\ sched_wait_ticks[t] # 0
                /\ sched_wait_ticks' = [sched_wait_ticks EXCEPT ![t] = @ - 1]
          /\ UNCHANGED <<state, first_quanta, time_left, eventVars>>
      BY <2>6 DEF RqTick
    <3>3. sched_wait_ticks' \in [Threads -> 0 .. WaitTicks]
      <4> HIDE DEF t
      <4> QED BY <3>1, <3>2, TicksAssumption DEF FieldTypes
    <3> QED BY <3>2, <3>3 DEF FieldTypes, eventVars
  <2>7. CASE WqTick(c)
    <3> DEFINE t == wq[cursor.queue][cursor.pos]
    <3>1. cursor.queue \in Buckets /\ cursor.pos \in 1 .. Len(wq[cursor.queue])
      BY <2>7, QueuedTypes DEF WqTick, CursorTypes
    <3>2. CASE Panic(c)
      BY <3>2, FieldQuiet DEF Panic
    <3>3. CASE Wake(cursor.queue, cursor.pos)
      BY <3>1, <3>3, WakeFields
    <3>4. CASE ~Due(t) /\ ~Panic(c)
      <4>1. /\ ev_left' = [ev_left EXCEPT ![t] = IF @ = 0 THEN 0 ELSE @ - cursor.elapsed]
            /\ UNCHANGED <<state, timeVars, ev_id>>
        BY <2>7, <3>4 DEF WqTick
      <4>2. t \in Threads /\ cursor.elapsed \in Nat
        BY <3>1, QueuedTypes DEF Threads, CursorTypes
      <4>3. ev_left' \in [Threads -> Nat]
        <5>1. ~(ev_left[t] # 0 /\ ev_left[t] <= cursor.elapsed)
          BY <3>4 DEF Due
        <5> HIDE DEF t
        <5> QED BY <4>1, <4>2, <5>1 DEF FieldTypes
      <4> QED BY <4>1, <4>3 DEF FieldTypes, timeVars
    <3> QED BY <2>7, <3>2, <3>3, <3>4 DEF WqTick
  <2>8. CASE SelectReady(c)
    <3>1. PICK i \in Levels : /\ rq[i] # <<>>
                              /\ state' = [state EXCEPT ![Head(rq[i])] = @ \ {"READY"}]
      BY <2>8 DEF SelectReady
    <3>2. Head(rq[i]) \in Threads
      BY <3>1, HeadTailProperties DEF QueueTypes, Threads
    <3> QED BY <2>8, <3>1, <3>2 DEF SelectReady, FieldTypes, Flags, Threads, timeVars, eventVars
  <2>9. CASE SelectIdle(c)
    BY <2>9 DEF SelectIdle, FieldTypes, Flags, Threads, timeVars, eventVars
  <2>10. CASE Switch(c)
    BY <2>0, <2>10, ReloadTypes DEF Switch, RunningState, FieldTypes, Flags, Threads, eventVars
  <2>11. CASE SignalDone(c) \/ RqTickNext(c) \/ WqTickNext(c)
    BY <2>11, FieldQuiet DEF SignalDone, RqTickNext, WqTickNext
  <2> QED BY <1>4, <2>1, <2>2, <2>3, <2>4, <2>5, <2>6, <2>7, <2>8, <2>9, <2>10, <2>11 DEF Locked
<1>5. CASE UNCHANGED vars
  BY <1>5, FieldQuiet DEF vars
<1> QED BY <1>1, <1>2, <1>3, <1>4, <1>5 DEF Next

Ticking(c) == pc[c] \in {"rqenter", "rqtick", "wqtick"}

\* Only the holder of the lock walks a queue, so when it moves the cursor
\* nobody else's walk is disturbed.
LEMMA CursorStays ==
  ASSUME CursorTypes, cursor' = cursor,
         \A c \in Cores : \/ pc'[c] \in {"rqenter", "rqtick"} /\ pc[c] \in {"rqenter", "rqtick"}
                          \/ pc'[c] = "wqtick" /\ pc[c] = "wqtick"
                          \/ ~Ticking(c)'
  PROVE  CursorTypes'
BY DEF CursorTypes, Ticking

LEMMA CursorMoves ==
  ASSUME LockInv, pc \in [Cores -> PCs], NEW c \in Cores, HoldsLock(c), NEW l, Goto(c, l),
         cursor' \in [queue : Nat, pos : Nat \ {0}, elapsed : Nat],
         l \in {"rqenter", "rqtick"} => cursor'.queue \in Levels,
         l = "wqtick" => cursor'.queue \in Buckets
  PROVE  CursorTypes'
<1>1. \A d \in Cores : d # c => pc'[d] = pc[d] /\ ~Ticking(d)
  BY DEF LockInv, HoldsLock, Goto, Ticking
<1>2. pc'[c] = l
  BY DEF Goto
<1> QED BY <1>1, <1>2 DEF CursorTypes, Ticking

\* The arrays have a first and a last queue.
LEMMA CursorFacts ==
  /\ NumQueues - 1 \in Levels /\ 0 \in Levels /\ 0 \in Buckets
  /\ \A q, e \in Nat : /\ CursorAt(q, e) \in [queue : Nat, pos : Nat \ {0}, elapsed : Nat]
                        /\ CursorAt(q, e).queue = q
BY QueuesAssumption DEF Levels, Buckets, CursorAt

LEMMA CursorTypesStep ==
  ASSUME CoreTypes, QueueTypes, CursorTypes, LockInv, [Next]_vars
  PROVE  CursorTypes'
<1>0. pc \in [Cores -> PCs]
  BY DEF CoreTypes
<1>1. ASSUME NEW t \in Tasks, BootAdd(t) PROVE CursorTypes'
  BY <1>1, CursorStays DEF BootAdd, Ticking
<1>2. CASE TimerIrq
  BY <1>0, <1>2, CursorStays, CoresAssumption DEF TimerIrq, Enter, Goto, Ticking
<1>3. ASSUME NEW c \in Cores, Start(c) \/ UserCall(c) \/ IdleCall(c) \/ MboxIrq(c) \/ Acquire(c)
      PROVE  CursorTypes'
  <2>1. CASE Start(c)
    BY <1>0, <2>1, CursorStays DEF Start, Goto, Ticking
  <2>2. CASE UserCall(c) \/ IdleCall(c) \/ MboxIrq(c)
    BY <1>0, <2>2, CursorStays DEF UserCall, IdleCall, MboxIrq, ClearedMsg, Enter, Goto, Ticking
  <2>3. CASE Acquire(c)
    BY <1>0, <2>3, CursorStays DEF Acquire, Goto, Ticking
  <2> QED BY <1>3, <2>1, <2>2, <2>3
<1>4. ASSUME NEW c \in Cores, Locked(c) PROVE CursorTypes'
  <2>1. CASE YieldCS(c) \/ AsyncCS(c) \/ SignalDone(c)
    BY <1>0, <2>1, CursorStays DEF YieldCS, AsyncCS, SignalDone, Return, Goto, Ticking
  <2>2. CASE WaitCS(c) \/ SignalWake(c)
    BY <1>0, <2>2, CursorStays DEF WaitCS, SleepState, BlockState, SignalWake, Panic, Return, Goto, Ticking
  <2>3. CASE TimerCS(c)
    <3>1. CASE Panic(c)
      BY <1>0, <3>1, CursorStays DEF Panic, Goto, Ticking
    <3>2. CASE ~Panic(c)
      <4>1. PICK e \in Elapsed : cursor' = CursorAt(NumQueues - 1, e)
        BY <2>3, <3>2 DEF TimerCS, SentMsgs
      <4>2. /\ HoldsLock(c)
            /\ \E l \in {"rqenter", "rqtick"} : Goto(c, l)
        BY <2>3, <3>2 DEF TimerCS, SentMsgs, InCall, HoldsLock
      <4>3. e \in Nat /\ NumQueues - 1 \in Nat
        BY TicksAssumption, QueuesAssumption
      <4>4. /\ cursor' \in [queue : Nat, pos : Nat \ {0}, elapsed : Nat]
            /\ cursor'.queue \in Levels
        BY <4>1, <4>3, CursorFacts
      <4> QED BY <1>0, <4>2, <4>4, CursorMoves
    <3> QED BY <3>1, <3>2
  <2>4. CASE RqTick(c)
    <3>1. /\ pc' = pc /\ pc[c] = "rqtick"
          /\ cursor' = cursor \/ cursor' = [cursor EXCEPT !.pos = @ + 1]
      BY <2>4 DEF RqTick
    <3>2. /\ cursor' \in [queue : Nat, pos : Nat \ {0}, elapsed : Nat]
          /\ cursor'.queue = cursor.queue
      BY <3>1 DEF CursorTypes
    <3> QED BY <3>1, <3>2 DEF CursorTypes
  <2>5. CASE RqTickNext(c)
    <3>0. /\ pc[c] = "rqtick" /\ HoldsLock(c) /\ Goto(c, pc'[c])
          /\ cursor.queue \in Levels /\ cursor.queue \in Nat /\ cursor.elapsed \in Nat
      BY <1>0, <2>5 DEF RqTickNext, HoldsLock, Goto, CursorTypes
    <3>1. CASE /\ cursor.queue > 0 /\ pc' = pc
               /\ cursor' = CursorAt(cursor.queue - 1, cursor.elapsed)
      <4>1. cursor.queue - 1 \in Levels /\ cursor.queue - 1 \in Nat
        BY <3>0, <3>1, QueuesAssumption DEF Levels
      <4>2. /\ cursor' \in [queue : Nat, pos : Nat \ {0}, elapsed : Nat]
            /\ cursor'.queue \in Levels
        BY <3>0, <3>1, <4>1, CursorFacts
      <4>3. pc'[c] = "rqtick"
        BY <3>0, <3>1
      <4> QED BY <1>0, <3>0, <4>2, <4>3, CursorMoves
    <3>2. CASE Goto(c, "wqtick") /\ cursor' = CursorAt(0, cursor.elapsed)
      BY <1>0, <3>0, <3>2, CursorFacts, CursorMoves
    <3> QED BY <2>5, <3>1, <3>2 DEF RqTickNext
  <2>6. CASE WqTick(c)
    <3>1. CASE Panic(c) \/ UNCHANGED coreVars
      BY <1>0, <3>1, CursorStays DEF Panic, Goto, Ticking, coreVars
    <3>2. CASE pc' = pc /\ cursor' = [cursor EXCEPT !.pos = @ + 1]
      <4>1. /\ cursor' \in [queue : Nat, pos : Nat \ {0}, elapsed : Nat]
            /\ cursor'.queue = cursor.queue
        BY <3>2 DEF CursorTypes
      <4> QED BY <3>2, <4>1 DEF CursorTypes
    <3> QED BY <2>6, <3>1, <3>2 DEF WqTick
  <2>7. CASE WqTickNext(c)
    <3>0. /\ pc[c] = "wqtick" /\ HoldsLock(c) /\ Goto(c, pc'[c])
          /\ cursor.queue \in Buckets /\ cursor.queue \in Nat /\ cursor.elapsed \in Nat
      BY <1>0, <2>7 DEF WqTickNext, Return, HoldsLock, Goto, CursorTypes
    <3>1. CASE /\ cursor.queue < NumWaitQueues - 1 /\ pc' = pc
               /\ cursor' = CursorAt(cursor.queue + 1, cursor.elapsed)
      <4>1. cursor.queue + 1 \in Buckets /\ cursor.queue + 1 \in Nat
        BY <3>0, <3>1, QueuesAssumption DEF Buckets
      <4>2. /\ cursor' \in [queue : Nat, pos : Nat \ {0}, elapsed : Nat]
            /\ cursor'.queue \in Buckets
        BY <3>0, <3>1, <4>1, CursorFacts
      <4>3. pc'[c] = "wqtick"
        BY <3>0, <3>1
      <4> QED BY <1>0, <3>0, <4>2, <4>3, CursorMoves
    <3>2. CASE Goto(c, "task") /\ cursor' = NoCursor
      BY <1>0, <3>0, <3>2, CursorFacts, CursorMoves DEF NoCursor
    <3> QED BY <2>7, <3>1, <3>2 DEF WqTickNext, Return
  <2>8. CASE SelectReady(c) \/ SelectIdle(c) \/ Switch(c)
    BY <1>0, <2>8, CursorStays DEF SelectReady, SelectIdle, Switch, Return, Goto, Ticking
  <2> QED BY <1>4, <2>1, <2>2, <2>3, <2>4, <2>5, <2>6, <2>7, <2>8 DEF Locked
<1>5. CASE UNCHANGED vars
  BY <1>5 DEF vars, coreVars, CursorTypes
<1> QED BY <1>1, <1>2, <1>3, <1>4, <1>5 DEF Next

---------------------------------------------------------------------------
(* The first inductive invariant: the types need the lock (two walks would *)
(* share the cursor) and the lock needs the types.                         *)

Basic == TypeOK /\ LockInv /\ TickHangs

LEMMA BasicInv == Spec => []Basic
<1>1. Init => Basic
  BY TypeInit, LockInit DEF Basic
<1>2. Basic /\ [Next]_vars => Basic'
  <2> SUFFICES ASSUME Basic, [Next]_vars PROVE Basic'
    OBVIOUS
  <2>1. CoreTypes /\ QueueTypes /\ CursorTypes /\ FieldTypes /\ LockInv /\ TickHangs /\ TypeOK
    BY DEF Basic, TypeOK
  <2>2. LockInv' /\ TickHangs'
    BY <2>1, LockStep
  <2>3. CoreTypes' /\ QueueTypes' /\ CursorTypes' /\ FieldTypes'
    BY <2>1, CoreTypesStep, QueueTypesStep, CursorTypesStep, FieldTypesStep
  <2> QED BY <2>2, <2>3 DEF Basic, TypeOK
<1> QED BY <1>1, <1>2, PTL DEF Spec

\* Every variable keeps its type: every core, queue, cursor and field of a
\* task is in its range whatever tasks call and whenever interrupts come.
THEOREM TypeCorrect == Spec => []TypeOK
<1>1. Basic => TypeOK
  BY DEF Basic
<1> QED BY <1>1, BasicInv, PTL

\* sched_lock is held by exactly the core that is inside the scheduler.
THEOREM LockSafe == Spec => []LockInv
<1>1. Basic => LockInv
  BY DEF Basic
<1> QED BY <1>1, BasicInv, PTL

\* With the code as it stands no tick ever walks the ready queues.
THEOREM TickNeverWalks == Spec => []TickHangs
<1>1. Basic => TickHangs
  BY DEF Basic
<1> QED BY <1>1, BasicInv, PTL
---------------------------------------------------------------------------
(* Where the tasks are.  OnePlace and NoneLost are inductive together: that *)
(* a task which leaves its core is on no queue needs OnePlace, that one     *)
(* which is added is nowhere yet needs NoneLost.  From them and from the    *)
(* moves follows that Sched implements SchedAbs.                            *)

Placed == OnePlace /\ NoneLost

---------------------------------------------------------------------------
(* The moves: what a step can do to the queues and the owners, as sets. *)

SameOwners == \A d \in Cores, u \in Tasks : Owns(d, u)' <=> Owns(d, u)

\* No task moves from one set to another.
Stays == /\ Queued(rq)' = Queued(rq) /\ Queued(wq)' = Queued(wq) /\ added' = added
         /\ SameOwners

\* A new task is added.
Joins(t) == /\ t \notin added /\ added' = added \cup {t}
            /\ Queued(rq)' = Queued(rq) \cup {t} /\ Queued(wq)' = Queued(wq)
            /\ SameOwners

\* Core c's task t goes onto a ready queue or a wait queue.
Leaves(c, t) ==
  /\ Owns(c, t)
  /\ \/ Queued(rq)' = Queued(rq) \cup {t} /\ Queued(wq)' = Queued(wq)
     \/ Queued(wq)' = Queued(wq) \cup {t} /\ Queued(rq)' = Queued(rq)
  /\ added' = added
  /\ \A d \in Cores, u \in Tasks : Owns(d, u)' <=> Owns(d, u) /\ d # c

\* Core c, which owns nothing, takes a ready task t.
Takes(c, t) ==
  /\ t \in Queued(rq) /\ \A u \in Tasks : ~Owns(c, u)
  /\ Queued(rq)' = Queued(rq) \ {t} /\ Queued(wq)' = Queued(wq) /\ added' = added
  /\ \A d \in Cores, u \in Tasks : Owns(d, u)' <=> Owns(d, u) \/ (d = c /\ u = t)

\* A waiting task becomes ready.
Wakes(t) == /\ t \in Queued(wq) /\ added' = added
            /\ Queued(rq)' = Queued(rq) \cup {t} /\ Queued(wq)' = Queued(wq) \ {t}
            /\ SameOwners

Moves == /\ NoDuplicates(rq)' /\ NoDuplicates(wq)'
         /\ \/ Stays
            \/ \E t \in Tasks : Joins(t) \/ Wakes(t)
            \/ \E c \in Cores, t \in Tasks : Leaves(c, t) \/ Takes(c, t)

\* OnePlace and NoneLost of a state, by task.
LEMMA PlaceFacts ==
  ASSUME Placed
  PROVE  /\ NoDuplicates(rq) /\ NoDuplicates(wq)
         /\ \A t : ~(t \in Queued(rq) /\ t \in Queued(wq))
         /\ \A c \in Cores, t \in Tasks : Owns(c, t) => t \notin Queued(rq) /\ t \notin Queued(wq)
         /\ \A c, d \in Cores, t \in Tasks : Owns(c, t) /\ Owns(d, t) => c = d
         /\ \A t \in Tasks : t \in added <=> \/ t \in Queued(rq) \/ t \in Queued(wq)
                                             \/ \E c \in Cores : Owns(c, t)
BY DEF Placed, OnePlace, NoneLost

\* A step that makes one of these moves keeps every task in one place.
LEMMA MovesPlaced == ASSUME Placed, Moves PROVE Placed'
<1>0. NoDuplicates(rq)' /\ NoDuplicates(wq)'
  BY DEF Moves
<1>1. CASE Stays
  <2>1. OnePlace'
    BY <1>0, <1>1, PlaceFacts DEF OnePlace, Stays, SameOwners
  <2>2. NoneLost'
    BY <1>1, PlaceFacts DEF NoneLost, Stays, SameOwners
  <2> QED BY <2>1, <2>2 DEF Placed
<1>2. ASSUME NEW t \in Tasks, Joins(t) PROVE Placed'
  <2>1. t \notin Queued(rq) /\ t \notin Queued(wq) /\ \A c \in Cores : ~Owns(c, t)
    BY <1>2, PlaceFacts DEF Joins
  <2>2. OnePlace'
    BY <1>0, <1>2, <2>1, PlaceFacts DEF OnePlace, Joins, SameOwners
  <2>3. NoneLost'
    BY <1>2, PlaceFacts DEF NoneLost, Joins, SameOwners
  <2> QED BY <2>2, <2>3 DEF Placed
<1>3. ASSUME NEW t \in Tasks, Wakes(t) PROVE Placed'
  <2>1. t \notin Queued(rq) /\ \A c \in Cores : ~Owns(c, t)
    BY <1>3, PlaceFacts DEF Wakes
  <2>2. OnePlace'
    BY <1>0, <1>3, <2>1, PlaceFacts DEF OnePlace, Wakes, SameOwners
  <2>3. NoneLost'
    BY <1>3, PlaceFacts DEF NoneLost, Wakes, SameOwners
  <2> QED BY <2>2, <2>3 DEF Placed
<1>4. ASSUME NEW c \in Cores, NEW t \in Tasks, Leaves(c, t) PROVE Placed'
  <2>1. t \notin Queued(rq) /\ t \notin Queued(wq)
    BY <1>4, PlaceFacts DEF Leaves
  <2>2. OnePlace'
    BY <1>0, <1>4, <2>1, PlaceFacts DEF OnePlace, Leaves
  <2>3. NoneLost'
    <3> SUFFICES ASSUME NEW u \in Tasks
                 PROVE  (u \in added <=> \/ u \in Queued(rq) \/ u \in Queued(wq)
                                         \/ \E d \in Cores : Owns(d, u))'
      BY DEF NoneLost
    <3>1. /\ u \in added <=> \/ u \in Queued(rq) \/ u \in Queued(wq)
                              \/ \E d \in Cores : Owns(d, u)
          /\ \A d \in Cores : Owns(d, u) /\ d = c => u = t
      BY <1>4, PlaceFacts DEF Leaves, Owns
    <3>2. CASE u = t
      BY <1>4, <3>1, <3>2 DEF Leaves
    <3>3. CASE u # t
      BY <1>4, <3>1, <3>3 DEF Leaves
    <3> QED BY <3>2, <3>3
  <2> QED BY <2>2, <2>3 DEF Placed
<1>5. ASSUME NEW c \in Cores, NEW t \in Tasks, Takes(c, t) PROVE Placed'
  <2>1. t \notin Queued(wq) /\ \A d \in Cores : ~Owns(d, t)
    BY <1>5, PlaceFacts DEF Takes
  <2>2. OnePlace'
    BY <1>0, <1>5, <2>1, PlaceFacts DEF OnePlace, Takes
  <2>3. NoneLost'
    BY <1>5, <2>1, PlaceFacts DEF NoneLost, Takes
  <2> QED BY <2>2, <2>3 DEF Placed
<1> QED BY <1>1, <1>2, <1>3, <1>4, <1>5 DEF Moves

---------------------------------------------------------------------------
(* The queue operations make these moves. *)

LEMMA PlaceStays ==
  ASSUME Placed, rq' = rq, wq' = wq, added' = added,
         \A d \in Cores, u \in Tasks : Owns(d, u)' <=> Owns(d, u)
  PROVE  Moves
<1>1. Queued(rq)' = Queued(rq) /\ Queued(wq)' = Queued(wq)
  BY DEF Queued
<1>2. NoDuplicates(rq)' /\ NoDuplicates(wq)'
  BY DEF Placed, OnePlace, NoDuplicates
<1> QED BY <1>1, <1>2 DEF Moves, Stays, SameOwners

LEMMA PlaceLeave ==
  ASSUME QueueTypes, Placed, NEW c \in Cores, NEW t \in Tasks, Owns(c, t),
         \/ wq' = wq /\ \E i \in Levels : rq' = Enqueue(rq, i, t)
         \/ rq' = rq /\ \E b \in Buckets : wq' = Enqueue(wq, b, t),
         added' = added,
         \A d \in Cores, u \in Tasks : Owns(d, u)' <=> Owns(d, u) /\ d # c
  PROVE  Moves
<1>1. /\ t \notin Queued(rq) /\ t \notin Queued(wq)
      /\ NoDuplicates(rq) /\ NoDuplicates(wq)
  BY PlaceFacts
<1>2. /\ NoDuplicates(rq)' /\ NoDuplicates(wq)'
      /\ \/ Queued(rq)' = Queued(rq) \cup {t} /\ Queued(wq)' = Queued(wq)
         \/ Queued(wq)' = Queued(wq) \cup {t} /\ Queued(rq)' = Queued(rq)
  <2>1. ASSUME NEW i \in Levels, rq' = Enqueue(rq, i, t), wq' = wq
        PROVE  /\ NoDuplicates(rq)' /\ NoDuplicates(wq)'
               /\ Queued(rq)' = Queued(rq) \cup {t} /\ Queued(wq)' = Queued(wq)
    BY <1>1, <2>1, EnqueueFacts DEF QueueTypes
  <2>2. ASSUME NEW b \in Buckets, wq' = Enqueue(wq, b, t), rq' = rq
        PROVE  /\ NoDuplicates(rq)' /\ NoDuplicates(wq)'
               /\ Queued(wq)' = Queued(wq) \cup {t} /\ Queued(rq)' = Queued(rq)
    BY <1>1, <2>2, EnqueueFacts DEF QueueTypes
  <2> QED BY <2>1, <2>2
<1>3. Leaves(c, t)
  BY <1>2 DEF Leaves
<1> QED BY <1>2, <1>3 DEF Moves

LEMMA PlaceAdd ==
  ASSUME QueueTypes, Placed, NEW t \in Tasks, t \notin added,
         NEW i \in Levels, rq' = Enqueue(rq, i, t), wq' = wq, added' = added \cup {t},
         \A d \in Cores, u \in Tasks : Owns(d, u)' <=> Owns(d, u)
  PROVE  Moves
<1>1. t \notin Queued(rq) /\ NoDuplicates(rq) /\ NoDuplicates(wq)
  BY PlaceFacts
<1>2. /\ NoDuplicates(rq)' /\ NoDuplicates(wq)'
      /\ Queued(rq)' = Queued(rq) \cup {t} /\ Queued(wq)' = Queued(wq)
  BY <1>1, EnqueueFacts DEF QueueTypes
<1>3. Joins(t)
  BY <1>2 DEF Joins, SameOwners
<1> QED BY <1>2, <1>3 DEF Moves

LEMMA PlaceTake ==
  ASSUME QueueTypes, Placed, NEW c \in Cores, NEW i \in Levels, NEW k \in 1 .. Len(rq[i]),
         rq' = Dequeue(rq, i, k), wq' = wq, added' = added,
         \A u \in Tasks : ~Owns(c, u),
         \A d \in Cores, u \in Tasks : Owns(d, u)' <=> Owns(d, u) \/ (d = c /\ u = rq[i][k])
  PROVE  Moves
<1>1. rq[i][k] \in Tasks /\ rq[i][k] \in Queued(rq)
  BY DequeueFacts, PlaceFacts DEF QueueTypes
<1>2. /\ NoDuplicates(rq)' /\ NoDuplicates(wq)'
      /\ Queued(rq)' = Queued(rq) \ {rq[i][k]} /\ Queued(wq)' = Queued(wq)
  BY PlaceFacts, DequeueFacts DEF QueueTypes
<1>3. Takes(c, rq[i][k])
  BY <1>1, <1>2 DEF Takes
<1> QED BY <1>1, <1>2, <1>3 DEF Moves

LEMMA PlaceWake ==
  ASSUME QueueTypes, Placed, NEW b \in Buckets, NEW k \in 1 .. Len(wq[b]), Wake(b, k),
         added' = added,
         \A d \in Cores, u \in Tasks : Owns(d, u)' <=> Owns(d, u)
  PROVE  Moves
<1> DEFINE t == wq[b][k]
<1>1. t \in Tasks /\ t \in Queued(wq) /\ t \notin Queued(rq)
  BY DequeueFacts, PlaceFacts DEF QueueTypes
<1>2. StartPrio[t] \in Levels /\ rq' = Enqueue(rq, StartPrio[t], t) /\ wq' = Dequeue(wq, b, k)
  BY <1>1, TasksAssumption DEF Wake, RmWaitQueue
<1>3. NoDuplicates(rq)' /\ Queued(rq)' = Queued(rq) \cup {t}
  <2>1. NoDuplicates(rq) /\ rq \in [Levels -> Seq(Tasks)]
    BY PlaceFacts DEF QueueTypes
  <2> HIDE DEF t
  <2>2. /\ NoDuplicates(Enqueue(rq, StartPrio[t], t))
        /\ Queued(Enqueue(rq, StartPrio[t], t)) = Queued(rq) \cup {t}
    BY <1>1, <1>2, <2>1, EnqueueFacts
  <2> QED BY <1>2, <2>2
<1>4. NoDuplicates(wq)' /\ Queued(wq)' = Queued(wq) \ {t}
  <2>1. NoDuplicates(wq) /\ wq \in [Buckets -> Seq(Tasks)]
    BY PlaceFacts DEF QueueTypes
  <2>2. NoDuplicates(Dequeue(wq, b, k)) /\ Queued(Dequeue(wq, b, k)) = Queued(wq) \ {t}
    BY <2>1, DequeueFacts
  <2> QED BY <1>2, <2>2
<1> HIDE DEF t
<1>5. Wakes(t)
  BY <1>1, <1>3, <1>4 DEF Wakes, SameOwners
<1> QED BY <1>1, <1>3, <1>4, <1>5 DEF Moves

LEMMA PlaceAge ==
  ASSUME QueueTypes, Placed, NEW i \in Levels, NEW j \in Levels, NEW k \in 1 .. Len(rq[i]),
         rq' = Enqueue(Dequeue(rq, i, k), j, rq[i][k]), wq' = wq, added' = added,
         \A d \in Cores, u \in Tasks : Owns(d, u)' <=> Owns(d, u)
  PROVE  Moves
<1> DEFINE t == rq[i][k]
           Q == Dequeue(rq, i, k)
<1>1. /\ t \in Tasks /\ t \in Queued(rq) /\ Q \in [Levels -> Seq(Tasks)]
      /\ NoDuplicates(Q) /\ Queued(Q) = Queued(rq) \ {t}
  BY DequeueFacts, PlaceFacts DEF QueueTypes
<1>2. NoDuplicates(rq)' /\ Queued(rq)' = Queued(rq)
  <2> HIDE DEF Q, t
  <2>1. rq' = Enqueue(Q, j, t)
    BY DEF Q, t
  <2>2. NoDuplicates(Enqueue(Q, j, t)) /\ Queued(Enqueue(Q, j, t)) = Queued(Q) \cup {t}
    BY <1>1, EnqueueFacts
  <2> QED BY <1>1, <2>1, <2>2
<1>3. NoDuplicates(wq)' /\ Queued(wq)' = Queued(wq)
  BY PlaceFacts
<1> QED BY <1>2, <1>3 DEF Moves, Stays, SameOwners

---------------------------------------------------------------------------
(* The steps. *)

LEMMA PlaceInit == Init => Placed
<1> SUFFICES ASSUME Init PROVE Placed
  OBVIOUS
<1>1. /\ rq \in [Levels -> Seq(Tasks)] /\ wq \in [Buckets -> Seq(Tasks)]
      /\ \A i \in Levels : Len(rq[i]) = 0
      /\ \A b \in Buckets : Len(wq[b]) = 0
  BY EmptySeq DEF Init
<1>2. Queued(rq) = {} /\ Queued(wq) = {}
  BY <1>1, QueuedElements
<1>3. NoDuplicates(rq) /\ NoDuplicates(wq)
  <2>1. ASSUME NEW I, NEW Q \in [I -> Seq(Tasks)], \A i \in I : Len(Q[i]) = 0
        PROVE  NoDuplicates(Q)
    <3>1. DOMAIN Q = I /\ \A i \in I : 1 .. Len(Q[i]) = {}
      BY <2>1
    <3> QED BY <3>1 DEF NoDuplicates
  <2> QED BY <1>1, <2>1
<1>4. \A c \in Cores, t \in Tasks : ~Owns(c, t) /\ t \notin added
  BY CoresAssumption DEF Init, Owns, Owner
<1>5. OnePlace
  BY <1>2, <1>3, <1>4 DEF OnePlace
<1>6. NoneLost
  <2> SUFFICES ASSUME NEW t \in Tasks
               PROVE  /\ t \notin added /\ t \notin Queued(rq) \cup Queued(wq)
                      /\ ~\E c \in Cores : Owns(c, t)
    BY DEF NoneLost
  <2> QED BY <1>2, <1>4, CoresAssumption
<1> QED BY <1>5, <1>6 DEF Placed

\* The program counter of a core moves, but not across a stack switch.
LEMMA OwnersStay ==
  ASSUME curr' = curr, next' = next,
         \A d \in Cores : \/ pc'[d] = pc[d]
                          \/ {pc[d], pc'[d]} \cap {"select", "switch"} = {}
  PROVE  \A d \in Cores, u \in Tasks : Owns(d, u)' <=> Owns(d, u)
BY DEF Owns, Owner

\* Core c gives its task up.
LEMMA OwnerLeaves ==
  ASSUME pc \in [Cores -> PCs], NEW c \in Cores, curr' = curr, next' = next, Goto(c, "select")
  PROVE  \A d \in Cores, u \in Tasks : Owns(d, u)' <=> Owns(d, u) /\ d # c
BY CoresAssumption DEF Owns, Owner, Goto, Threads

\* The steps of QuietStep move no task.
LEMMA PlaceQuiet ==
  ASSUME CoreTypes, Placed, NEW c \in Cores, QuietStep(c)
  PROVE  Moves
<1>0. pc \in [Cores -> PCs] /\ curr \in [Cores -> Threads] /\ next \in [Cores -> Threads]
  BY DEF CoreTypes
<1>1. added' = added
  BY DEF QuietStep, TimerIrq, Start, UserCall, IdleCall, MboxIrq, ClearedMsg, Acquire,
        Enter, SignalDone,
         TimerCS, SentMsgs, Panic, RqTickNext, WqTickNext, SelectIdle, Switch, vars, coreVars
<1>2. \A d \in Cores, u \in Tasks : Owns(d, u)' <=> Owns(d, u)
  <2>1. CASE TimerIrq
    BY <1>0, <2>1, OwnersStay, CoresAssumption DEF TimerIrq, Enter, Goto
  <2>2. CASE Start(c) \/ UserCall(c) \/ IdleCall(c) \/ MboxIrq(c) \/ Acquire(c)
    BY <1>0, <2>2, OwnersStay DEF Start, UserCall, IdleCall, MboxIrq, ClearedMsg,
          Acquire, Enter, Goto
  <2>3. CASE SignalDone(c) \/ TimerCS(c)
    BY <1>0, <2>3, OwnersStay DEF SignalDone, TimerCS, SentMsgs, InCall, Panic, Return, Goto
  <2>4. CASE RqTickNext(c) \/ WqTickNext(c)
    BY <1>0, <2>4, OwnersStay DEF RqTickNext, WqTickNext, Return, Goto
  <2>5. CASE SelectIdle(c)
    BY <1>0, <2>5, CoresAssumption DEF SelectIdle, Goto, Owns, Owner, Threads
  <2>6. CASE Switch(c)
    BY <1>0, <2>6, CoresAssumption DEF Switch, Return, Goto, Owns, Owner, Threads
  <2>7. CASE UNCHANGED vars
    BY <2>7 DEF vars, coreVars, Owns, Owner
  <2> QED BY <2>1, <2>2, <2>3, <2>4, <2>5, <2>6, <2>7 DEF QuietStep
<1> QED BY <1>1, <1>2, QuietFacts, PlaceStays

\* A core panics: nothing moves.
LEMMA PlacePanic ==
  ASSUME CoreTypes, Placed, NEW c \in Cores, HoldsLock(c), pc[c] \in {"cs", "wqtick"}, Panic(c)
  PROVE  Moves
<1>1. \A d \in Cores, u \in Tasks : Owns(d, u)' <=> Owns(d, u)
  BY OwnersStay DEF Panic, Goto, CoreTypes
<1> QED BY <1>1, PlaceStays DEF Panic, queueVars

\* The k-th task of a bucket is woken; the waker keeps its own task.
LEMMA PlaceWakeStep ==
  ASSUME CoreTypes, QueueTypes, Placed, NEW c \in Cores, NEW b \in Buckets,
         NEW k \in 1 .. Len(wq[b]), Wake(b, k), UNCHANGED <<curr, next, added>>,
         pc[c] \in {"cs", "wqtick"}, pc' = pc \/ Goto(c, "task")
  PROVE  Moves
<1>1. \A d \in Cores, u \in Tasks : Owns(d, u)' <=> Owns(d, u)
  BY OwnersStay DEF Goto, CoreTypes
<1> QED BY <1>1, PlaceWake

LEMMA StepMoves ==
  ASSUME TypeOK, Placed, [Next]_vars
  PROVE  Moves
<1>0. /\ CoreTypes /\ QueueTypes /\ CursorTypes /\ FieldTypes
      /\ pc \in [Cores -> PCs]
      /\ \A t \in Tasks : StartPrio[t] \in Levels
  BY TasksAssumption DEF TypeOK, CoreTypes
<1>1. ASSUME NEW t \in Tasks, BootAdd(t) PROVE Moves
  <2>1. \A d \in Cores, u \in Tasks : Owns(d, u)' <=> Owns(d, u)
    BY <1>1, OwnersStay DEF BootAdd
  <2>2. /\ t \notin added /\ added' = added \cup {t} /\ wq' = wq
        /\ rq' = Enqueue(rq, StartPrio[t], t) /\ StartPrio[t] \in Levels
    BY <1>0, <1>1 DEF BootAdd
  <2> QED BY <1>0, <2>1, <2>2, PlaceAdd
<1>2. ASSUME NEW c \in Cores, QuietStep(c) PROVE Moves
  BY <1>0, <1>2, PlaceQuiet
<1>3. ASSUME NEW c \in Cores, Locked(c) PROVE Moves
  <2>1. CASE YieldCS(c)
    <3>1. CASE curr[c] \in Tasks
      <4>1. /\ Owns(c, curr[c]) /\ added' = added /\ wq' = wq
            /\ \E i \in Levels : rq' = Enqueue(rq, i, curr[c])
        BY <1>0, <2>1, <3>1 DEF YieldCS, InCall, Owns, Owner
      <4>2. \A d \in Cores, u \in Tasks : Owns(d, u)' <=> Owns(d, u) /\ d # c
        BY <1>0, <2>1, OwnerLeaves DEF YieldCS
      <4> QED BY <1>0, <3>1, <4>1, <4>2, PlaceLeave
    <3>2. CASE curr[c] \notin Tasks
      <4>1. added' = added /\ wq' = wq /\ rq' = rq
        BY <2>1, <3>2 DEF YieldCS
      <4>2. \A d \in Cores, u \in Tasks : Owns(d, u)' <=> Owns(d, u)
        <5>1. \A d \in Cores, u \in Tasks : Owns(d, u)' <=> Owns(d, u) /\ d # c
          BY <1>0, <2>1, OwnerLeaves DEF YieldCS
        <5>2. \A u \in Tasks : ~Owns(c, u)
          BY <2>1, <3>2 DEF YieldCS, InCall, Owns, Owner
        <5> QED BY <5>1, <5>2
      <4> QED BY <4>1, <4>2, PlaceStays
    <3> QED BY <3>1, <3>2
  <2>2. CASE WaitCS(c)
    <3>1. CASE Panic(c)
      BY <1>0, <2>2, <3>1, PlacePanic DEF WaitCS, SleepState, BlockState, InCall, HoldsLock
    <3>2. CASE ~Panic(c)
      <4>1. /\ added' = added /\ rq' = rq /\ curr' = curr /\ next' = next
            /\ wq' = Enqueue(wq, WaitHash(call[c].ev), curr[c]) /\ Goto(c, "select")
        BY <2>2, <3>2 DEF WaitCS, SleepState, BlockState
      <4>2. curr[c] \in Tasks /\ Owns(c, curr[c]) /\ WaitHash(call[c].ev) \in Buckets
        BY <1>0, <2>2, BucketFacts DEF WaitCS, SleepState, BlockState, InCall, CoreTypes, Owns, Owner
      <4>3. \A d \in Cores, u \in Tasks : Owns(d, u)' <=> Owns(d, u) /\ d # c
        BY <1>0, <4>1, OwnerLeaves
      <4> QED BY <1>0, <4>1, <4>2, <4>3, PlaceLeave
    <3> QED BY <3>1, <3>2
  <2>3. CASE SignalWake(c)
    <3>1. CASE Panic(c)
      BY <1>0, <2>3, <3>1, PlacePanic DEF SignalWake, HoldsLock
    <3>2. CASE ~Panic(c)
      <4>1. PICK k \in FirstWaiter(call[c].ev) : Wake(WaitHash(call[c].ev), k)
        BY <2>3, <3>2 DEF SignalWake
      <4>2. WaitHash(call[c].ev) \in Buckets
        BY <1>0, <2>3, BucketFacts DEF SignalWake
      <4>3. k \in 1 .. Len(wq[WaitHash(call[c].ev)])
        BY DEF FirstWaiter, Waiters
      <4>4. UNCHANGED <<curr, next, added>> /\ pc[c] = "cs" /\ (pc' = pc \/ Goto(c, "task"))
        BY <2>3, <3>2 DEF SignalWake, Return
      <4> QED BY <1>0, <4>1, <4>2, <4>3, <4>4, PlaceWakeStep
    <3> QED BY <3>1, <3>2
  <2>4. CASE AsyncCS(c)
    <3>1. CASE rq' = rq /\ Goto(c, "task")
      <4>1. added' = added /\ wq' = wq
        BY <2>4 DEF AsyncCS
      <4>2. \A d \in Cores, u \in Tasks : Owns(d, u)' <=> Owns(d, u)
        BY <1>0, <2>4, <3>1, OwnersStay DEF AsyncCS, InCall, Goto
      <4> QED BY <3>1, <4>1, <4>2, PlaceStays
    <3>2. CASE rq' = Enqueue(rq, StartPrio[curr[c]], curr[c]) /\ Goto(c, "select")
      <4>1. added' = added /\ wq' = wq /\ curr' = curr /\ next' = next
        BY <2>4 DEF AsyncCS
      <4>2. curr[c] \in Tasks /\ Owns(c, curr[c])
        <5>1. pc'[c] = "select" /\ pc[c] = "cs"
          BY <1>0, <2>4, <3>2 DEF AsyncCS, InCall, Goto
        <5>2. "IDLE" \notin state[curr[c]]
          BY <1>0, <2>4, <5>1 DEF AsyncCS, Return, Goto
        <5> QED BY <1>0, <5>1, <5>2, PausedTask DEF Owns, Owner
      <4>3. \A d \in Cores, u \in Tasks : Owns(d, u)' <=> Owns(d, u) /\ d # c
        BY <1>0, <3>2, <4>1, OwnerLeaves
      <4>4. \E i \in Levels : rq' = Enqueue(rq, i, curr[c])
        BY <1>0, <3>2, <4>2
      <4> QED BY <1>0, <4>1, <4>2, <4>3, <4>4, PlaceLeave
    <3> QED BY <2>4, <3>1, <3>2 DEF AsyncCS, Return
  <2>5. CASE RqTick(c)
    <3>0. /\ wq' = wq /\ added' = added
          /\ \A d \in Cores, u \in Tasks : Owns(d, u)' <=> Owns(d, u)
      BY <2>5, OwnersStay DEF RqTick
    <3>1. CASE rq' = rq
      BY <3>0, <3>1, PlaceStays
    <3>2. CASE rq' = Enqueue(Dequeue(rq, cursor.queue, cursor.pos), cursor.queue - 1,
                             rq[cursor.queue][cursor.pos])
      <4>1. cursor.queue \in Levels /\ cursor.queue > 0
        BY <1>0, <2>5 DEF RqTick, CursorTypes
      <4>2. cursor.queue - 1 \in Levels
        BY <4>1, QueuesAssumption DEF Levels
      <4>3. cursor.pos \in 1 .. Len(rq[cursor.queue])
        BY <1>0, <2>5, <4>1, QueuedTypes DEF RqTick, CursorTypes
      <4> QED BY <1>0, <3>0, <3>2, <4>1, <4>2, <4>3, PlaceAge
    <3> QED BY <2>5, <3>1, <3>2 DEF RqTick
  <2>6. CASE WqTick(c)
    <3>1. CASE Panic(c)
      BY <1>0, <2>6, <3>1, PlacePanic DEF WqTick, HoldsLock
    <3>2. CASE Wake(cursor.queue, cursor.pos) /\ UNCHANGED coreVars
      <4>1. /\ pc[c] = "wqtick" /\ cursor.queue \in Buckets
            /\ cursor.pos \in 1 .. Len(wq[cursor.queue])
        BY <1>0, <2>6, QueuedTypes DEF WqTick, CursorTypes
      <4>2. UNCHANGED <<curr, next, added, pc>>
        BY <3>2 DEF coreVars
      <4> QED BY <1>0, <3>2, <4>1, <4>2, PlaceWakeStep
    <3>3. CASE UNCHANGED <<pc, curr, next, added, queueVars>>
      <4>1. \A d \in Cores, u \in Tasks : Owns(d, u)' <=> Owns(d, u)
        BY <3>3, OwnersStay
      <4> QED BY <3>3, <4>1, PlaceStays DEF queueVars
    <3> QED BY <2>6, <3>1, <3>2, <3>3 DEF WqTick
  <2>7. CASE SelectReady(c)
    <3>1. PICK i \in Levels : /\ rq[i] # <<>> /\ rq' = Dequeue(rq, i, 1)
                              /\ next' = [next EXCEPT ![c] = Head(rq[i])]
      BY <2>7 DEF SelectReady
    <3>2. 1 \in 1 .. Len(rq[i]) /\ Head(rq[i]) = rq[i][1]
      BY <1>0, <3>1, EmptySeq, LenProperties DEF QueueTypes
    <3>3. /\ wq' = wq /\ added' = added /\ curr' = curr
          /\ pc[c] = "select" /\ Goto(c, "switch")
      BY <2>7 DEF SelectReady
    <3>4. \A u \in Tasks : ~Owns(c, u)
      BY <3>3, CoresAssumption DEF Owns, Owner, Threads
    <3>5. \A d \in Cores, u \in Tasks : Owns(d, u)' <=> Owns(d, u) \/ (d = c /\ u = rq[i][1])
      <4>1. next \in [Cores -> Threads]
        BY <1>0 DEF CoreTypes
      <4>2. \A d \in Cores : d # c => Owner(d)' = Owner(d)
        BY <1>0, <3>1, <3>3, <4>1 DEF Owner, Goto
      <4>3. Owner(c)' = rq[i][1]
        BY <1>0, <3>1, <3>2, <3>3, <4>1 DEF Owner, Goto
      <4> QED BY <3>4, <4>2, <4>3 DEF Owns
    <3> QED BY <1>0, <3>1, <3>2, <3>3, <3>4, <3>5, PlaceTake
  <2> QED BY <1>2, <1>3, <2>1, <2>2, <2>3, <2>4, <2>5, <2>6, <2>7 DEF Locked, QuietStep
<1> QED BY <1>1, <1>2, <1>3, CoresAssumption DEF Next, QuietStep

LEMMA PlacedInv == Spec => []Placed
<1>1. Basic => TypeOK
  BY DEF Basic
<1>2. TypeOK /\ Placed /\ [Next]_vars => Placed'
  BY StepMoves, MovesPlaced
<1> QED BY <1>1, <1>2, PlaceInit, BasicInv, PTL DEF Spec

\* No task is ever in two places: the queues and the cores partition the tasks.
THEOREM PlaceUnique == Spec => []OnePlace
<1>1. Placed => OnePlace
  BY DEF Placed
<1> QED BY <1>1, PlacedInv, PTL

\* No task is ever lost, and none that was not added turns up.
THEOREM TasksKept == Spec => []NoneLost
<1>1. Placed => NoneLost
  BY DEF Placed
<1> QED BY <1>1, PlacedInv, PTL

---------------------------------------------------------------------------
(* The scheduler implements SchedAbs: the moves are the abstract actions, and *)
(* every other step is a stutter. *)

\* The abstract status of a task, by where it is.
LEMMA StatusFacts ==
  ASSUME Placed
  PROVE  \A t \in Tasks :
           /\ t \in Queued(rq) => absStatus[t] = "ready"
           /\ t \in Queued(wq) => absStatus[t] = "waiting"
           /\ (\E c \in Cores : Owns(c, t)) => absStatus[t] = "running"
           /\ t \notin added => absStatus[t] = "new"
<1> SUFFICES ASSUME NEW t \in Tasks
             PROVE  /\ t \in Queued(rq) => absStatus[t] = "ready"
                    /\ t \in Queued(wq) => absStatus[t] = "waiting"
                    /\ (\E c \in Cores : Owns(c, t)) => absStatus[t] = "running"
                    /\ t \notin added => absStatus[t] = "new"
  OBVIOUS
<1>1. /\ ~(t \in Queued(rq) /\ t \in Queued(wq))
      /\ \A c \in Cores : Owns(c, t) => t \notin Queued(rq) /\ t \notin Queued(wq)
      /\ t \in added <=> \/ t \in Queued(rq) \/ t \in Queued(wq)
                         \/ \E c \in Cores : Owns(c, t)
  BY PlaceFacts
<1> QED BY <1>1 DEF absStatus

\* The tasks whose sets do not change keep their status.
LEMMA StatusKept ==
  \A t \in Tasks :
    /\ t \in Queued(rq)' <=> t \in Queued(rq)
    /\ t \in Queued(wq)' <=> t \in Queued(wq)
    /\ t \in added' <=> t \in added
    => absStatus'[t] = absStatus[t]
BY DEF absStatus

\* The abstract owners follow Owns.
LEMMA OnFacts ==
  \A c \in Cores : /\ \A t \in Tasks : Owns(c, t) => absOn[c] = t
                   /\ (\A t \in Tasks : ~Owns(c, t)) => absOn[c] = None
BY DEF absOn, Owns

LEMMA OnFactsNext ==
  \A c \in Cores : /\ \A t \in Tasks : Owns(c, t)' => absOn'[c] = t
                   /\ (\A t \in Tasks : ~Owns(c, t)') => absOn'[c] = None
BY DEF absOn, Owns

LEMMA SameOn == ASSUME SameOwners PROVE absOn' = absOn
<1>1. \A c \in Cores : absOn'[c] = absOn[c]
  BY OnFacts, OnFactsNext DEF SameOwners
<1> QED BY <1>1 DEF absOn

LEMMA InitMaps == Init => Abs!Init
<1> SUFFICES ASSUME Init PROVE Abs!Init
  OBVIOUS
<1>1. Placed /\ added = {} /\ \A c \in Cores, t \in Tasks : ~Owns(c, t)
  BY PlaceInit, CoresAssumption DEF Init, Owns, Owner
<1>2. \A t \in Tasks : absStatus[t] = "new"
  BY <1>1, StatusFacts
<1>3. \A c \in Cores : absOn[c] = None
  BY <1>1, OnFacts
<1> QED BY <1>2, <1>3 DEF Abs!Init, absStatus, absOn

LEMMA MovesMap == ASSUME Placed, Moves PROVE [Abs!Next]_(Abs!vars)
<1>0. Placed'
  BY MovesPlaced
<1>s. /\ absStatus = [t \in Tasks |-> absStatus[t]] /\ absStatus' = [t \in Tasks |-> absStatus'[t]]
      /\ absOn = [c \in Cores |-> absOn[c]] /\ absOn' = [c \in Cores |-> absOn'[c]]
  BY DEF absStatus, absOn
<1>1. CASE Stays
  <2>1. \A t \in Tasks : absStatus'[t] = absStatus[t]
    BY <1>1, StatusKept DEF Stays
  <2>2. absOn' = absOn
    BY <1>1, SameOn DEF Stays
  <2> QED BY <1>s, <2>1, <2>2 DEF Abs!vars
<1>2. ASSUME NEW t \in Tasks, Joins(t) PROVE Abs!Next
  <2>1. absStatus[t] = "new" /\ absOn' = absOn
    BY <1>2, StatusFacts, SameOn DEF Joins
  <2>2. absStatus'[t] = "ready"
    <3>1. t \in Queued(rq)' /\ t \notin Queued(wq)'
      BY <1>2, PlaceFacts DEF Joins
    <3> QED BY <3>1 DEF absStatus
  <2>3. \A u \in Tasks : u # t => absStatus'[u] = absStatus[u]
    BY <1>2, StatusKept DEF Joins
  <2>4. absStatus' = [absStatus EXCEPT ![t] = "ready"]
    BY <1>s, <2>2, <2>3
  <2> QED BY <2>1, <2>4 DEF Abs!Next, Abs!Add
<1>3. ASSUME NEW t \in Tasks, Wakes(t) PROVE Abs!Next
  <2>1. absStatus[t] = "waiting" /\ absOn' = absOn
    BY <1>3, StatusFacts, SameOn DEF Wakes
  <2>2. absStatus'[t] = "ready"
    BY <1>3 DEF Wakes, absStatus
  <2>3. \A u \in Tasks : u # t => absStatus'[u] = absStatus[u]
    BY <1>3, StatusKept DEF Wakes
  <2>4. absStatus' = [absStatus EXCEPT ![t] = "ready"]
    BY <1>s, <2>2, <2>3
  <2> QED BY <2>1, <2>4 DEF Abs!Next, Abs!Wake
<1>4. ASSUME NEW c \in Cores, NEW t \in Tasks, Leaves(c, t) PROVE Abs!Next
  <2>1. absStatus[t] = "running" /\ absOn[c] = t
    BY <1>4, StatusFacts, OnFacts DEF Leaves
  <2>2. absStatus'[t] = "ready" \/ absStatus'[t] = "waiting"
    <3>1. t \in Queued(rq)' \/ t \in Queued(wq)'
      BY <1>4 DEF Leaves
    <3> QED BY <3>1 DEF absStatus
  <2>3. \A u \in Tasks : u # t => absStatus'[u] = absStatus[u]
    BY <1>4, StatusKept DEF Leaves
  <2>4. \E s \in {"ready", "waiting"} : absStatus' = [absStatus EXCEPT ![t] = s]
    BY <1>s, <2>2, <2>3
  <2>5. absOn'[c] = None /\ \A d \in Cores : d # c => absOn'[d] = absOn[d]
    BY <1>4, OnFacts, OnFactsNext DEF Leaves
  <2>6. absOn' = [absOn EXCEPT ![c] = None]
    BY <1>s, <2>5
  <2> QED BY <2>1, <2>4, <2>6 DEF Abs!Next, Abs!Leave
<1>5. ASSUME NEW c \in Cores, NEW t \in Tasks, Takes(c, t) PROVE Abs!Next
  <2>1. absStatus[t] = "ready" /\ absOn[c] = None
    BY <1>5, StatusFacts, OnFacts DEF Takes
  <2>2. absStatus'[t] = "running"
    <3>1. t \in added /\ t \notin Queued(wq)
      BY <1>5, PlaceFacts DEF Takes
    <3> QED BY <1>5, <3>1 DEF Takes, absStatus
  <2>3. \A u \in Tasks : u # t => absStatus'[u] = absStatus[u]
    BY <1>5, StatusKept DEF Takes
  <2>4. absStatus' = [absStatus EXCEPT ![t] = "running"]
    BY <1>s, <2>2, <2>3
  <2>5. absOn'[c] = t /\ \A d \in Cores : d # c => absOn'[d] = absOn[d]
    BY <1>5, OnFacts, OnFactsNext DEF Takes
  <2>6. absOn' = [absOn EXCEPT ![c] = t]
    BY <1>s, <2>5
  <2> QED BY <2>1, <2>4, <2>6 DEF Abs!Next, Abs!Dispatch
<1> QED BY <1>1, <1>2, <1>3, <1>4, <1>5 DEF Moves

\* Every behaviour of the scheduler is one of SchedAbs: tasks are added,
\* dispatched, descheduled and woken, one core each, and nothing else happens.
THEOREM SchedImplements == Spec => Implements
<1>1. Basic => TypeOK
  BY DEF Basic
<1>2. TypeOK /\ Placed /\ [Next]_vars => [Abs!Next]_(Abs!vars)
  BY StepMoves, MovesMap
<1> QED BY <1>1, <1>2, InitMaps, BasicInv, PlacedInv, PTL DEF Spec, Implements, Abs!Spec

---------------------------------------------------------------------------
(* Which tasks a step can touch. *)

\* The tasks of the cores and of the queues, apart.
LEMMA Apart ==
  ASSUME CoreTypes, QueueTypes, Placed
  PROVE  /\ Queued(rq) \subseteq Tasks /\ Queued(wq) \subseteq Tasks
         /\ \A c \in Cores : pc[c] \notin {"select", "switch"} =>
              curr[c] \notin Queued(rq) /\ curr[c] \notin Queued(wq)
         /\ \A c \in Cores : pc[c] = "switch" =>
              next[c] \notin Queued(rq) /\ next[c] \notin Queued(wq)
<1>1. Queued(rq) \subseteq Tasks
  BY QueuedTypes, QueuedElements DEF QueueTypes
<1>2. Queued(wq) \subseteq Tasks
  BY SMTT(30), QueuedTypes, QueuedElements DEF QueueTypes
<1>3. ASSUME NEW c \in Cores, pc[c] \notin {"select", "switch"}
      PROVE  curr[c] \notin Queued(rq) /\ curr[c] \notin Queued(wq)
  BY <1>1, <1>2, <1>3, PlaceFacts, CoresAssumption DEF Owns, Owner, CoreTypes
<1>4. ASSUME NEW c \in Cores, pc[c] = "switch"
      PROVE  next[c] \notin Queued(rq) /\ next[c] \notin Queued(wq)
  BY <1>1, <1>2, <1>4, PlaceFacts, CoresAssumption DEF Owns, Owner, CoreTypes
<1> QED BY <1>1, <1>2, <1>3, <1>4

\* The head of a ready queue is on it.
LEMMA HeadQueued ==
  ASSUME QueueTypes, NEW i \in Levels, rq[i] # <<>>
  PROVE  Head(rq[i]) \in Queued(rq)
<1>1. 1 \in 1 .. Len(rq[i]) /\ Head(rq[i]) = rq[i][1]
  BY EmptySeq, LenProperties DEF QueueTypes
<1> QED BY <1>1, QueuedElements DEF QueueTypes

---------------------------------------------------------------------------
(* The wait queues. *)

\* No task joins or leaves a wait queue, and no waiter stops waiting.
LEMMA WaitStays ==
  ASSUME QueueTypes, WaitInv, wq' = wq, ev_id' = ev_id,
         \A t \in Queued(wq) : "WAITING" \in state[t] => "WAITING" \in state'[t]
  PROVE  WaitInv'
<1>1. \A b \in Buckets : \A k \in 1 .. Len(wq[b]) : wq[b][k] \in Queued(wq)
  BY QueuedElements DEF QueueTypes
<1>2. Queued(wq)' = Queued(wq)
  OBVIOUS
<1> QED BY <1>1, <1>2 DEF WaitInv, Wakeable

\* A running task joins the queue of its event.
LEMMA WaitJoins ==
  ASSUME QueueTypes, FieldTypes, WaitInv, NEW t \in Tasks, t \notin Queued(wq),
         NEW ev \in Events, WaitHash(ev) \in Buckets,
         wq' = Enqueue(wq, WaitHash(ev), t),
         ev_id' = [ev_id EXCEPT ![t] = ev],
         \A u \in Threads : u # t => state'[u] = state[u],
         "WAITING" \in state'[t]
  PROVE  WaitInv'
<1>1. /\ wq \in [Buckets -> Seq(Tasks)]
      /\ ev_id \in [Threads -> Events \cup {0}] /\ t \in Threads /\ ev # 0
  BY EventsAssumption DEF QueueTypes, FieldTypes, Threads
<1>2. Queued(wq)' = Queued(wq) \cup {t}
  BY <1>1, EnqueueFacts
<1>3. ASSUME NEW b \in Buckets, NEW k \in 1 .. Len(wq'[b])
      PROVE  Wakeable(wq[b][k])' /\ WaitHash(ev_id'[wq'[b][k]]) = b
  <2>1. CASE \E m \in 1 .. Len(wq[b]) : wq'[b][k] = wq[b][m]
    <3>1. PICK m \in 1 .. Len(wq[b]) : wq'[b][k] = wq[b][m]
      BY <2>1
    <3>2. wq[b][m] # t /\ wq[b][m] \in Threads
      BY <1>1, QueuedElements, QueuedTypes DEF Threads
    <3> QED BY SMTT(30), <1>1, <3>1, <3>2 DEF WaitInv, Wakeable
  <2>2. CASE b = WaitHash(ev) /\ wq'[b][k] = t
    BY <1>1, <2>2 DEF Wakeable
  <2> QED BY <1>1, <2>1, <2>2, EnqueueMembers
<1>4. \A u \in Tasks : ev_id'[u] # 0 => u \in Queued(wq)'
  BY <1>1, <1>2 DEF WaitInv, Threads
<1> QED BY <1>3, <1>4 DEF WaitInv

\* What is left on a wait queue was on it before.
LEMMA WqRemoved ==
  ASSUME wq \in [Buckets -> Seq(Tasks)], NEW b \in Buckets, NEW k \in 1 .. Len(wq[b]),
         NEW a \in Buckets, NEW j \in 1 .. Len(Dequeue(wq, b, k)[a])
  PROVE  \E m \in 1 .. Len(wq[a]) : Dequeue(wq, b, k)[a][j] = wq[a][m]
<1>1. CASE a = b
  <2>1. Dequeue(wq, b, k)[a] = RemoveAt(wq[b], k) /\ wq[b] \in Seq(Tasks)
    BY <1>1 DEF Dequeue
  <2> QED BY <1>1, <2>1, RemoveAtMembers
<1>2. CASE a # b
  <2>1. Dequeue(wq, b, k)[a] = wq[a]
    BY <1>2 DEF Dequeue
  <2> QED BY <2>1
<1> QED BY <1>1, <1>2

\* A waiter is woken.
LEMMA WaitLeaves ==
  ASSUME QueueTypes, FieldTypes, Placed, WaitInv,
         NEW b \in Buckets, NEW k \in 1 .. Len(wq[b]), Wake(b, k)
  PROVE  WaitInv'
<1> DEFINE t == wq[b][k]
<1>1. /\ wq \in [Buckets -> Seq(Tasks)] /\ NoDuplicates(wq)
      /\ ev_id \in [Threads -> Events \cup {0}] /\ t \in Threads
      /\ state \in [Threads -> SUBSET Flags]
  BY QueuedTypes, PlaceFacts DEF QueueTypes, FieldTypes, Threads
<1>2. /\ wq' = Dequeue(wq, b, k) /\ ev_id' = [ev_id EXCEPT ![t] = 0]
      /\ state' = [state EXCEPT ![t] = (@ \ {"WAITING"}) \cup {"READY"}]
  BY DEF Wake, RmWaitQueue
<1>3. Queued(wq)' = Queued(wq) \ {t} /\ wq' \in [Buckets -> Seq(Tasks)]
  BY <1>1, <1>2, DequeueFacts
<1>4. ASSUME NEW a \in Buckets, NEW l \in 1 .. Len(wq'[a])
      PROVE  Wakeable(wq[a][l])' /\ WaitHash(ev_id'[wq'[a][l]]) = a
  <2>1. PICK m \in 1 .. Len(wq[a]) : wq'[a][l] = wq[a][m]
    <3>1. \A j \in 1 .. Len(Dequeue(wq, b, k)[a]) :
            \E m \in 1 .. Len(wq[a]) : Dequeue(wq, b, k)[a][j] = wq[a][m]
      BY <1>1, WqRemoved
    <3> QED BY <1>2, <3>1
  <2>2. wq[a][m] # t /\ wq[a][m] \in Threads
    <3>1. wq'[a][l] \in Queued(wq)'
      BY <1>3, QueuedElements
    <3> QED BY <1>3, <2>1, <3>1, QueuedTypes DEF Threads
  <2> HIDE DEF t
  <2> QED BY <1>1, <1>2, <2>1, <2>2 DEF WaitInv, Wakeable
<1>5. \A u \in Tasks : ev_id'[u] # 0 => u \in Queued(wq)'
  <2> HIDE DEF t
  <2> QED BY <1>1, <1>2, <1>3 DEF WaitInv, Threads
<1> QED BY <1>4, <1>5 DEF WaitInv

LEMMA WaitInit == Init => WaitInv
<1> SUFFICES ASSUME Init PROVE WaitInv
  OBVIOUS
<1>1. \A b \in Buckets : 1 .. Len(wq[b]) = {}
  BY EmptySeq DEF Init
<1>2. \A t \in Tasks : ev_id[t] = 0
  BY DEF Init, Threads
<1> QED BY <1>1, <1>2 DEF WaitInv

\* The steps that touch no wait queue: none removes WAITING from a waiter.
LEMMA WaitQuiet ==
  ASSUME CoreTypes, QueueTypes, FieldTypes, Placed, WaitInv, NEW c \in Cores, QuietStep(c)
  PROVE  WaitInv'
<1>1. ev_id' = ev_id
  BY DEF QuietStep, TimerIrq, Start, UserCall, IdleCall, MboxIrq, ClearedMsg, Acquire,
        Enter, SignalDone,
         TimerCS, SentMsgs, Panic, RqTickNext, WqTickNext, SelectIdle, Switch, vars, eventVars
<1>2. \A t \in Queued(wq) : "WAITING" \in state[t] => "WAITING" \in state'[t]
  <2>0. Queued(wq) \subseteq Threads /\ Queued(wq) \cap Cores = {}
    BY Apart, CoresAssumption DEF Threads
  <2>1. CASE UNCHANGED state
    BY <2>1
  <2>2. CASE TimerCS(c)
    <3>1. CASE Panic(c)
      BY <3>1 DEF Panic
    <3>2. CASE ~Panic(c)
      <4>1. PICK e \in Elapsed : state' = [t \in Threads |->
               IF \E d \in Expired(e) : t = curr[d] THEN state[t] \cup {"PAUSED"} ELSE state[t]]
        BY <2>2, <3>2 DEF TimerCS, SentMsgs
      <4> QED BY <2>0, <4>1
    <3> QED BY <3>1, <3>2
  <2>3. CASE SelectIdle(c)
    BY <2>3 DEF SelectIdle, FieldTypes
  <2>4. CASE Switch(c)
    <3>1. next[c] \notin Queued(wq)
      BY <2>4, Apart DEF Switch
    <3> QED BY <2>0, <2>4, <3>1 DEF Switch, FieldTypes
  <2> QED BY <2>1, <2>2, <2>3, <2>4
       DEF QuietStep, TimerIrq, Start, UserCall, IdleCall, MboxIrq, ClearedMsg, Acquire,
             Enter, SignalDone,
           RqTickNext, WqTickNext, vars
<1> QED BY <1>1, <1>2, QuietFacts, WaitStays

LEMMA WaitStep ==
  ASSUME TypeOK, Placed, WaitInv, [Next]_vars
  PROVE  WaitInv'
<1>0. CoreTypes /\ QueueTypes /\ CursorTypes /\ FieldTypes
  BY DEF TypeOK
<1>1. ASSUME NEW t \in Tasks, BootAdd(t) PROVE WaitInv'
  <2>1. t \notin Queued(wq) /\ wq' = wq /\ ev_id' = ev_id
    BY <1>1, PlaceFacts DEF BootAdd, eventVars
  <2> QED BY <1>0, <1>1, <2>1, WaitStays, Apart DEF BootAdd, FieldTypes, Threads
<1>2. ASSUME NEW c \in Cores, QuietStep(c) PROVE WaitInv'
  BY <1>0, <1>2, WaitQuiet
<1>3. ASSUME NEW c \in Cores, Locked(c) PROVE WaitInv'
  <2>0. Queued(wq) \subseteq Threads
    BY <1>0, Apart DEF Threads
  <2>1. CASE YieldCS(c) \/ AsyncCS(c)
    <3>1. /\ wq' = wq /\ ev_id' = ev_id /\ pc[c] = "cs"
          /\ \A u \in Threads : u # curr[c] => state'[u] = state[u]
      BY <1>0, <2>1 DEF YieldCS, AsyncCS, InCall, FieldTypes, eventVars
    <3>2. curr[c] \notin Queued(wq)
      BY <1>0, <3>1, Apart
    <3> QED BY <1>0, <2>0, <3>1, <3>2, WaitStays
  <2>2. CASE WaitCS(c)
    <3>1. CASE Panic(c)
      BY <1>0, <3>1, WaitStays DEF Panic, queueVars, eventVars
    <3>2. CASE ~Panic(c)
      <4>1. /\ call[c].ev \in Events /\ WaitHash(call[c].ev) \in Buckets
            /\ curr[c] \in Tasks /\ curr[c] \in Threads /\ curr[c] \notin Queued(wq)
        BY <1>0, <2>2, BucketFacts, Apart DEF WaitCS, SleepState, BlockState, InCall, CoreTypes, Threads
      <4>2. /\ wq' = Enqueue(wq, WaitHash(call[c].ev), curr[c])
            /\ ev_id' = [ev_id EXCEPT ![curr[c]] = call[c].ev]
            /\ state' = [state EXCEPT ![curr[c]] = (@ \ {"RUNNING"}) \cup {"WAITING", "BLOCKED"}]
        BY <2>2, <3>2 DEF WaitCS, SleepState, BlockState
      <4>3. /\ \A u \in Threads : u # curr[c] => state'[u] = state[u]
            /\ "WAITING" \in state'[curr[c]]
        BY <1>0, <4>1, <4>2 DEF FieldTypes
      <4> QED BY <1>0, <4>1, <4>2, <4>3, WaitJoins
    <3> QED BY <3>1, <3>2
  <2>3. CASE SignalWake(c)
    <3>1. CASE Panic(c)
      BY <1>0, <3>1, WaitStays DEF Panic, queueVars, eventVars
    <3>2. CASE ~Panic(c)
      <4>1. PICK k \in FirstWaiter(call[c].ev) : Wake(WaitHash(call[c].ev), k)
        BY <2>3, <3>2 DEF SignalWake
      <4>2. /\ WaitHash(call[c].ev) \in Buckets
            /\ k \in 1 .. Len(wq[WaitHash(call[c].ev)])
        BY <1>0, <2>3, BucketFacts DEF SignalWake, FirstWaiter, Waiters
      <4> QED BY <1>0, <4>1, <4>2, WaitLeaves
    <3> QED BY <3>1, <3>2
  <2>4. CASE RqTick(c)
    BY <1>0, <2>4, WaitStays DEF RqTick, eventVars
  <2>5. CASE WqTick(c)
    <3>1. CASE Panic(c)
      BY <1>0, <3>1, WaitStays DEF Panic, queueVars, eventVars
    <3>2. CASE Wake(cursor.queue, cursor.pos)
      BY <1>0, <2>5, <3>2, WaitLeaves, QueuedTypes DEF WqTick, CursorTypes
    <3>3. CASE UNCHANGED <<queueVars, state, ev_id>>
      BY <1>0, <3>3, WaitStays DEF queueVars
    <3> QED BY <2>5, <3>1, <3>2, <3>3 DEF WqTick
  <2>6. CASE SelectReady(c)
    <3>1. PICK i \in Levels : /\ rq[i] # <<>>
                              /\ state' = [state EXCEPT ![Head(rq[i])] = @ \ {"READY"}]
      BY <2>6 DEF SelectReady
    <3>2. wq' = wq /\ ev_id' = ev_id
      BY <2>6 DEF SelectReady, eventVars
    <3>3. Head(rq[i]) \notin Queued(wq)
      BY <1>0, <3>1, HeadQueued, PlaceFacts
    <3> QED BY <1>0, <2>0, <3>1, <3>2, <3>3, WaitStays DEF FieldTypes
  <2> QED BY <1>2, <1>3, <2>1, <2>2, <2>3, <2>4, <2>5, <2>6 DEF Locked, QuietStep
<1> QED BY <1>1, <1>2, <1>3, CoresAssumption DEF Next, QuietStep

LEMMA WaitAlways == Spec => [](Basic /\ Placed /\ WaitInv)
<1>1. Basic => TypeOK
  BY DEF Basic
<1>2. TypeOK /\ Placed /\ WaitInv /\ [Next]_vars => WaitInv'
  BY WaitStep
<1> QED BY <1>1, <1>2, WaitInit, BasicInv, PlacedInv, PTL DEF Spec

\* Every queued waiter can be woken and is in the bucket of its event, and
\* every task with an event is queued: sched_task_wakeup never panics.
THEOREM WaitSafe == Spec => []WaitInv
BY WaitAlways, PTL

---------------------------------------------------------------------------
(* The assertions and the timeouts.  The invariant is a conjunction over   *)
(* the cores of Fit; a step of one core leaves the other cores as they are *)
(* but for the timer, which bills them all.                                *)

\* The timer interrupt of Core0 is on its way to the billing loop.
TimerDue == call[Core0].op = "timer" /\ pc[Core0] \in {"enter", "cs"}

Fit(c) ==
  /\ pc[c] # "panic"
  /\ pc[c] \in {"boot", "task"} => call[c] = NoCall
  /\ pc[c] \in {"rqenter", "rqtick", "wqtick"} => call[c].op = "timer"
  /\ call[c].op = "timer" => c = Core0
  /\ pc[Core0] = "boot" => pc[c] = "boot"
  \* the current task is marked running, an idle task is never paused
  /\ curr[c] \in Tasks /\ pc[c] \notin {"select", "switch"} => "RUNNING" \in state[curr[c]]
  /\ "PAUSED" \notin state[c]
  \* a paused task has its timeout under way
  /\ "PAUSED" \in state[curr[c]] => mbox[c] \/ call[c].op = "async"
  \* a message that is not read yet is for the current task, or
  \* the core has switched since, to a task that is not billed yet
  /\ mbox[c] /\ pc[c] \notin {"task", "select", "switch"} => "PAUSED" \in state[curr[c]]
  /\ TimerDue /\ mbox[c] /\ pc[c] = "task" =>
       "PAUSED" \in state[curr[c]] \/ first_quanta[curr[c]]

NotIdle == \A t \in Tasks : "IDLE" \notin state[t]

AllFit == NotIdle /\ \A c \in Cores : Fit(c)

\* Nothing that Fit sees of the other cores changes.
Frame(c) ==
  /\ \A d \in Cores : d # c =>
       /\ pc'[d] = pc[d] /\ call'[d] = call[d] /\ curr'[d] = curr[d] /\ mbox'[d] = mbox[d]
       /\ state'[curr[d]] = state[curr[d]] /\ state'[d] = state[d]
       /\ first_quanta'[curr[d]] = first_quanta[curr[d]]
  /\ TimerDue' => TimerDue
  /\ pc'[Core0] = "boot" => pc[Core0] = "boot"

LEMMA FrameFit ==
  ASSUME \A d \in Cores : Fit(d), NEW c \in Cores, Frame(c), Fit(c)'
  PROVE  \A d \in Cores : Fit(d)'
<1> SUFFICES ASSUME NEW d \in Cores, d # c PROVE Fit(d)'
  OBVIOUS
<1>1. /\ pc'[d] = pc[d] /\ call'[d] = call[d] /\ curr'[d] = curr[d] /\ mbox'[d] = mbox[d]
      /\ state'[curr[d]] = state[curr[d]] /\ state'[d] = state[d]
      /\ first_quanta'[curr[d]] = first_quanta[curr[d]]
      /\ TimerDue' => TimerDue
      /\ pc'[Core0] = "boot" => pc[Core0] = "boot"
  BY DEF Frame
<1>2. Fit(d)
  OBVIOUS
<1> HIDE DEF TimerDue
<1> QED BY <1>1, <1>2 DEF Fit

\* A task that the holder of the lock works on is no other core's.
LEMMA NotOthers ==
  ASSUME CoreTypes, QueueTypes, Placed, LockInv, NEW c \in Cores, HoldsLock(c), NEW t,
         \/ t \in Queued(rq) \cup Queued(wq) \cup {c}
         \/ t = curr[c] /\ pc[c] = "cs"
         \/ t = next[c] /\ pc[c] = "switch"
  PROVE  \A d \in Cores : d # c => d # t /\ curr[d] # t
<1> SUFFICES ASSUME NEW d \in Cores, d # c PROVE d # t /\ curr[d] # t
  OBVIOUS
<1>1. pc[d] \notin {"select", "switch"}
  BY DEF LockInv, HoldsLock
<1>2. curr[d] \in Tasks \cup {d} /\ curr[c] \in Tasks \cup {c} /\ next[c] \in Tasks \cup {c}
  BY DEF CoreTypes
<1>3. Cores \cap Tasks = {}
  BY CoresAssumption
<1>4. CASE t \in Queued(rq) \cup Queued(wq)
  BY <1>1, <1>3, <1>4, Apart
<1>5. CASE t = c
  BY <1>2, <1>3, <1>5
<1>6. CASE t = curr[c] /\ pc[c] = "cs"
  <2>1. Owns(c, curr[c]) /\ Owns(d, curr[d])
    BY <1>1, <1>6 DEF Owns, Owner
  <2>2. t \in Tasks => curr[d] # t
    BY <1>6, <2>1, PlaceFacts
  <2> QED BY <1>2, <1>3, <1>5, <1>6, <2>2
<1>7. CASE t = next[c] /\ pc[c] = "switch"
  <2>1. Owns(c, next[c]) /\ Owns(d, curr[d])
    BY <1>1, <1>7 DEF Owns, Owner
  <2>2. t \in Tasks => curr[d] # t
    BY <1>7, <2>1, PlaceFacts
  <2> QED BY <1>2, <1>3, <1>5, <1>7, <2>2
<1> QED BY <1>4, <1>5, <1>6, <1>7

\* A step of core c that changes the state of at most one task, not another's.
LEMMA OneTask ==
  ASSUME CoreTypes, NEW c \in Cores, NEW t,
         \A d \in Cores : d # c => d # t /\ curr[d] # t,
         \A d \in Cores : d # c => /\ pc'[d] = pc[d] /\ call'[d] = call[d]
                                   /\ curr'[d] = curr[d] /\ mbox'[d] = mbox[d],
         \A u \in Threads : u # t => state'[u] = state[u] /\ first_quanta'[u] = first_quanta[u],
         TimerDue' => TimerDue,
         pc'[Core0] = "boot" => pc[Core0] = "boot"
  PROVE  Frame(c)
<1> HIDE DEF TimerDue
<1> SUFFICES ASSUME NEW d \in Cores, d # c
             PROVE  /\ pc'[d] = pc[d] /\ call'[d] = call[d] /\ curr'[d] = curr[d]
                    /\ mbox'[d] = mbox[d]
                    /\ state'[curr[d]] = state[curr[d]] /\ state'[d] = state[d]
                    /\ first_quanta'[curr[d]] = first_quanta[curr[d]]
  BY DEF Frame
<1>1. d \in Threads /\ curr[d] \in Threads
  BY DEF CoreTypes, Threads
<1> QED BY <1>1

LEMMA FitInit == Init => AllFit
BY CoresAssumption DEF Init, AllFit, NotIdle, Fit, TimerDue, NoCall, Threads

\* Interrupts and calls: a core starts to spin on the lock.
LEMMA FitEnter ==
  ASSUME CoreTypes, AllFit, NEW c \in Cores, UserCall(c) \/ IdleCall(c) \/ MboxIrq(c)
  PROVE  AllFit'
<1>1. PICK cl \in TaskCalls \cup {Call("async")} : Enter(c, cl)
  BY DEF UserCall, IdleCall, MboxIrq, ClearedMsg, TaskCalls
<1>2. /\ cl.op # "timer"
      /\ MboxIrq(c) => call'[c].op = "async"
      /\ ~MboxIrq(c) => mbox' = mbox /\ ~mbox[c]
      /\ MboxIrq(c) => mbox' = [mbox EXCEPT ![c] = FALSE]
  BY <1>1 DEF TaskCalls, Call, UserCall, IdleCall, MboxIrq, ClearedMsg, Enter, CoreTypes
<1>3. /\ pc[c] = "task" /\ pc' = [pc EXCEPT ![c] = "enter"]
      /\ call' = [call EXCEPT ![c] = cl]
      /\ UNCHANGED <<curr, state, first_quanta>>
  BY <1>1 DEF Enter, Goto, timeVars
<1>4. Frame(c)
  <2>1. TimerDue' => TimerDue
    BY <1>2, <1>3 DEF TimerDue, CoreTypes
  <2>2. \A d \in Cores : d # c => /\ pc'[d] = pc[d] /\ call'[d] = call[d]
                                  /\ curr'[d] = curr[d] /\ mbox'[d] = mbox[d]
    BY <1>2, <1>3 DEF CoreTypes
  <2> QED BY <1>3, <2>1, <2>2 DEF Frame, CoreTypes
<1>5. Fit(c)'
  <2>1. Fit(c)
    BY DEF AllFit
  <2>2. /\ pc'[c] = "enter" /\ call'[c] = cl /\ curr'[c] = curr[c] /\ pc'[Core0] # "boot"
        /\ state' = state /\ ~mbox'[c] /\ call[c] = NoCall
        /\ cl.op = "async" \/ ~mbox[c]
    BY <1>2, <1>3, <2>1 DEF CoreTypes, Fit
  <2>3. "PAUSED" \in state[curr[c]] => mbox[c]
    BY <2>1, <2>2 DEF Fit, NoCall
  <2>4. "PAUSED" \in state[curr[c]] => call'[c].op = "async"
    BY <1>2, <2>3
  <2> QED BY <1>2, <2>1, <2>2, <2>4, <1>3 DEF Fit
<1>6. NotIdle'
  BY <1>3 DEF AllFit, NotIdle
<1> QED BY <1>4, <1>5, <1>6, FrameFit DEF AllFit

LEMMA FitTimerIrq == ASSUME CoreTypes, AllFit, TimerIrq PROVE AllFit'
<1>1. /\ pc[Core0] = "task" /\ pc' = [pc EXCEPT ![Core0] = "enter"]
      /\ call' = [call EXCEPT ![Core0] = Call("timer")]
      /\ UNCHANGED <<curr, state, first_quanta, mbox>>
      /\ \A d \in Cores : pc[d] = "task" => ~mbox[d]
      /\ Core0 \in Cores
  BY CoresAssumption DEF TimerIrq, Enter, Goto, timeVars
<1>2. ASSUME NEW d \in Cores PROVE Fit(d)'
  <2>1. Fit(d)
    BY DEF AllFit
  <2>2. CASE d = Core0
    <3>1. pc'[d] = "enter" /\ call'[d].op = "timer" /\ call[d] = NoCall /\ ~mbox[d]
      BY <1>1, <2>1, <2>2 DEF CoreTypes, Call, Fit
    <3> QED BY <1>1, <2>1, <2>2, <3>1 DEF Fit, NoCall
  <2>3. CASE d # Core0
    <3>1. pc'[d] = pc[d] /\ call'[d] = call[d] /\ pc'[Core0] # "boot"
      BY <1>1, <2>3 DEF CoreTypes
    <3> QED BY <1>1, <2>1, <3>1 DEF Fit
  <2> QED BY <2>2, <2>3
<1> QED BY <1>1, <1>2 DEF AllFit, NotIdle

\* A core starts, or gets the lock.
LEMMA FitGo ==
  ASSUME CoreTypes, AllFit, NEW c \in Cores, Start(c) \/ Acquire(c)
  PROVE  AllFit'
<1>1. /\ \/ pc[c] = "boot" /\ pc' = [pc EXCEPT ![c] = "task"] /\ (c = Core0 \/ pc[Core0] # "boot")
         \/ pc[c] = "enter" /\ pc' = [pc EXCEPT ![c] = "cs"]
         \/ pc[c] = "rqenter" /\ pc' = [pc EXCEPT ![c] = "rqtick"]
      /\ UNCHANGED <<call, curr, mbox, state, first_quanta>>
  BY DEF Start, Acquire, Goto, timeVars
<1>2. Frame(c)
  <2>1. TimerDue' => TimerDue
    <3>1. CASE c = Core0
      <4>1. Fit(c) /\ pc \in [Cores -> PCs]
        BY DEF AllFit, CoreTypes
      <4> QED BY <1>1, <3>1, <4>1 DEF TimerDue, Fit, NoCall
    <3>2. CASE c # Core0
      BY <1>1, <3>2, CoresAssumption DEF TimerDue, CoreTypes
    <3> QED BY <3>1, <3>2
  <2> QED BY <1>1, <2>1, CoresAssumption DEF Frame, CoreTypes
<1>3. Fit(c)'
  <2>1. Fit(c) /\ pc \in [Cores -> PCs]
    BY DEF AllFit, CoreTypes
  <2>2. CASE pc[c] = "boot"
    <3>1. pc'[c] = "task" /\ call[c] = NoCall /\ pc'[Core0] # "boot"
      <4>1. call[c] = NoCall
        BY <2>1, <2>2 DEF Fit
      <4>2. pc' = [pc EXCEPT ![c] = "task"] /\ (c = Core0 \/ pc[Core0] # "boot")
        BY <1>1, <2>2
      <4> QED BY <2>1, <4>1, <4>2, CoresAssumption
    <3>2. mbox[c] => "PAUSED" \in state[curr[c]]
      BY <2>1, <2>2 DEF Fit
    <3> QED BY <1>1, <2>1, <2>2, <3>1, <3>2 DEF Fit, NoCall
  <2>3. CASE pc[c] # "boot"
    <3>1. /\ pc'[c] \in {"cs", "rqtick"} /\ pc[c] \in {"enter", "rqenter"}
          /\ pc'[c] = "rqtick" => pc[c] = "rqenter"
          /\ pc'[Core0] # "boot"
      BY <1>1, <2>1, <2>3, CoresAssumption DEF Fit
    <3> QED BY <1>1, <2>1, <3>1 DEF Fit
  <2> QED BY <2>2, <2>3
<1>4. NotIdle'
  BY <1>1 DEF AllFit, NotIdle
<1> QED BY <1>2, <1>3, <1>4, FrameFit DEF AllFit

---------------------------------------------------------------------------
(* The steps under the lock. *)

\* The task of core c gives it up in a yield, a wait or a timeout.
LEMMA FitLeave ==
  ASSUME CoreTypes, QueueTypes, FieldTypes, Placed, LockInv, AllFit, NEW c \in Cores,
         YieldCS(c) \/ (WaitCS(c) /\ ~Panic(c)) \/ (AsyncCS(c) /\ Goto(c, "select"))
  PROVE  AllFit'
<1>1. /\ pc[c] = "cs" /\ pc' = [pc EXCEPT ![c] = "select"]
      /\ UNCHANGED <<curr, mbox, first_quanta>>
  BY DEF YieldCS, WaitCS, SleepState, BlockState, AsyncCS, InCall, Goto, timeVars
<1>2. /\ call' = call /\ curr[c] \in Threads
      /\ \/ state' = state
         \/ state' = [state EXCEPT ![curr[c]] = (@ \ {"RUNNING"}) \cup {"READY"}]
         \/ state' = [state EXCEPT ![curr[c]] = (@ \ {"RUNNING"}) \cup {"WAITING", "BLOCKED"}]
         \/ state' = [state EXCEPT ![curr[c]] = (@ \ {"PAUSED"}) \cup {"READY"}]
  BY <1>1 DEF YieldCS, WaitCS, SleepState, BlockState, AsyncCS, Return, Goto, CoreTypes
<1>3. /\ \A u \in Threads : u # curr[c] => state'[u] = state[u]
      /\ \A x \in {"IDLE", "PAUSED"} : \A u \in Threads : x \in state'[u] => x \in state[u]
  BY <1>2 DEF FieldTypes
<1>4. Frame(c)
  <2>1. HoldsLock(c)
    BY <1>1 DEF HoldsLock
  <2>2. TimerDue' => TimerDue
    BY <1>1, <1>2, CoresAssumption DEF TimerDue, CoreTypes
  <2>3. \A d \in Cores : d # c => d # curr[c] /\ curr[d] # curr[c]
    BY <1>1, <2>1, NotOthers
  <2>4. /\ \A d \in Cores : d # c => /\ pc'[d] = pc[d] /\ call'[d] = call[d]
                                     /\ curr'[d] = curr[d] /\ mbox'[d] = mbox[d]
        /\ pc'[Core0] = "boot" => pc[Core0] = "boot"
    BY <1>1, <1>2, CoresAssumption DEF CoreTypes
  <2>5. \A u \in Threads : u # curr[c] => first_quanta'[u] = first_quanta[u]
    BY <1>1
  <2> QED BY <1>3, <2>2, <2>3, <2>4, <2>5, OneTask
<1>5. Fit(c)'
  <2>1. Fit(c) /\ c \in Threads /\ pc'[c] = "select" /\ pc'[Core0] # "boot"
    BY <1>1, CoresAssumption DEF AllFit, Fit, CoreTypes, Threads
  <2> QED BY <1>1, <1>2, <1>3, <2>1 DEF Fit
<1>6. NotIdle'
  BY <1>3 DEF AllFit, NotIdle, Threads
<1> QED BY <1>4, <1>5, <1>6, FrameFit DEF AllFit

\* A task is woken; the core goes on or leaves the scheduler.
LEMMA FitWake ==
  ASSUME CoreTypes, QueueTypes, FieldTypes, Placed, LockInv, AllFit, NEW c \in Cores,
         NEW b \in Buckets, NEW k \in 1 .. Len(wq[b]), Wake(b, k),
         pc[c] \in {"cs", "wqtick"}, call[c].op # "async",
         UNCHANGED <<pc, call>> \/ Return(c), UNCHANGED <<curr, mbox>>
  PROVE  AllFit'
<1> DEFINE t == wq[b][k]
<1>1. /\ t \in Tasks /\ t \in Threads /\ t \in Queued(wq)
      /\ state' = [state EXCEPT ![t] = (@ \ {"WAITING"}) \cup {"READY"}]
      /\ first_quanta' = first_quanta
  BY QueuedTypes, QueuedElements DEF Wake, Threads, QueueTypes, timeVars
<1> HIDE DEF t
<1>2. HoldsLock(c) /\ pc[c] \notin {"select", "switch"}
  BY DEF HoldsLock
<1>3. /\ \A u \in Threads : u # t => state'[u] = state[u]
      /\ \A x \in {"IDLE", "PAUSED"}, u \in Threads : x \in state'[u] <=> x \in state[u]
  BY <1>1 DEF FieldTypes
<1>4. /\ \A d \in Cores : d # c => pc'[d] = pc[d] /\ call'[d] = call[d]
      /\ \/ pc'[c] = pc[c] /\ call'[c] = call[c]
         \/ pc'[c] = "task" /\ call'[c] = NoCall
  BY DEF Return, Goto, CoreTypes
<1>5. Frame(c)
  <2>1. TimerDue' => TimerDue
    BY <1>4, CoresAssumption DEF TimerDue, NoCall
  <2>2. \A d \in Cores : d # c => d # t /\ curr[d] # t
    BY <1>1, <1>2, NotOthers
  <2>3. pc'[Core0] = "boot" => pc[Core0] = "boot"
    BY <1>4, CoresAssumption
  <2> QED BY <1>1, <1>3, <1>4, <2>1, <2>2, <2>3, OneTask
<1>6. Fit(c)'
  <2>1. Fit(c) /\ pc'[Core0] # "boot" /\ c \in Threads
    BY <1>2, <1>4, CoresAssumption DEF AllFit, Fit, Threads
  <2>2. curr[c] # t /\ curr[c] \in Threads
    BY <1>1, <1>2, Apart DEF CoreTypes
  <2>3. state'[curr[c]] = state[curr[c]] /\ curr'[c] = curr[c] /\ mbox' = mbox
    BY <1>3, <2>2
  <2>4. CASE pc'[c] = pc[c] /\ call'[c] = call[c]
    BY <1>2, <1>3, <2>1, <2>3, <2>4 DEF Fit
  <2>5. CASE pc'[c] = "task" /\ call'[c] = NoCall
    BY <1>2, <1>3, <2>1, <2>3, <2>5 DEF Fit, NoCall
  <2> QED BY <1>4, <2>4, <2>5
<1>7. NotIdle'
  BY <1>3 DEF AllFit, NotIdle, Threads
<1> QED BY <1>5, <1>6, <1>7, FrameFit DEF AllFit

\* A core leaves the scheduler as it came, or a tick's walk goes on.
LEMMA FitOn ==
  ASSUME CoreTypes, AllFit, NEW c \in Cores, pc[c] \in {"cs", "rqtick", "wqtick"},
         UNCHANGED <<curr, mbox, state, first_quanta>>,
         \/ Return(c) /\ (call[c].op = "async" => "PAUSED" \notin state[curr[c]])
         \/ call' = call /\ (pc' = pc \/ (Goto(c, "wqtick") /\ pc[c] = "rqtick"))
  PROVE  AllFit'
<1>1. /\ \A d \in Cores : d # c => pc'[d] = pc[d] /\ call'[d] = call[d]
      /\ \/ pc'[c] = pc[c] /\ call'[c] = call[c]
         \/ pc'[c] = "wqtick" /\ pc[c] = "rqtick" /\ call'[c] = call[c]
         \/ /\ pc'[c] = "task" /\ call'[c] = NoCall
            /\ call[c].op = "async" => "PAUSED" \notin state[curr[c]]
  BY DEF Return, Goto, CoreTypes
<1>2. Frame(c)
  <2>1. TimerDue' => TimerDue
    BY <1>1, CoresAssumption DEF TimerDue, NoCall
  <2>2. pc'[Core0] = "boot" => pc[Core0] = "boot"
    BY <1>1, CoresAssumption
  <2> QED BY <1>1, <2>1, <2>2 DEF Frame
<1>3. Fit(c)'
  <2>1. Fit(c) /\ pc'[Core0] # "boot"
    BY <1>1, CoresAssumption DEF AllFit, Fit
  <2>2. CASE pc'[c] = pc[c] /\ call'[c] = call[c]
    BY <2>1, <2>2 DEF Fit
  <2>3. CASE pc'[c] = "wqtick" /\ pc[c] = "rqtick" /\ call'[c] = call[c]
    BY <2>1, <2>3 DEF Fit
  <2>4. CASE /\ pc'[c] = "task" /\ call'[c] = NoCall
             /\ call[c].op = "async" => "PAUSED" \notin state[curr[c]]
    BY <2>1, <2>4 DEF Fit, NoCall
  <2> QED BY <1>1, <2>2, <2>3, <2>4
<1>4. NotIdle'
  BY DEF AllFit, NotIdle
<1> QED BY <1>2, <1>3, <1>4, FrameFit DEF AllFit

\* The next task is selected.
LEMMA FitSelect ==
  ASSUME CoreTypes, QueueTypes, FieldTypes, Placed, LockInv, AllFit, NEW c \in Cores,
         SelectReady(c) \/ SelectIdle(c)
  PROVE  AllFit'
<1>1. /\ pc[c] = "select" /\ pc' = [pc EXCEPT ![c] = "switch"]
      /\ UNCHANGED <<call, curr, mbox, first_quanta>>
  BY DEF SelectReady, SelectIdle, Goto, timeVars
<1>2. PICK t \in Threads : /\ t \in Queued(rq) \cup {c}
                           /\ state' = [state EXCEPT ![t] = @ \ {"READY"}]
  <2>1. CASE SelectReady(c)
    BY <2>1, HeadQueued, Apart DEF SelectReady, Threads
  <2>2. CASE SelectIdle(c)
    BY <2>2 DEF SelectIdle, Threads
  <2> QED BY <2>1, <2>2
<1>3. /\ \A u \in Threads : u # t => state'[u] = state[u]
      /\ \A x \in {"IDLE", "PAUSED"}, u \in Threads : x \in state'[u] <=> x \in state[u]
  BY <1>2 DEF FieldTypes
<1>4. Frame(c)
  <2>1. HoldsLock(c)
    BY <1>1 DEF HoldsLock
  <2>2. TimerDue' => TimerDue
    BY <1>1, CoresAssumption DEF TimerDue, CoreTypes
  <2>3. \A d \in Cores : d # c => d # t /\ curr[d] # t
    BY <1>2, <2>1, NotOthers
  <2> QED BY <1>1, <1>3, <2>2, <2>3, CoresAssumption, OneTask DEF CoreTypes
<1>5. Fit(c)'
  <2>1. Fit(c) /\ c \in Threads /\ curr[c] \in Threads /\ pc'[c] = "switch" /\ pc'[Core0] # "boot"
    BY <1>1, CoresAssumption DEF AllFit, Fit, CoreTypes, Threads
  <2> QED BY <1>1, <1>3, <2>1 DEF Fit
<1>6. NotIdle'
  BY <1>3 DEF AllFit, NotIdle, Threads
<1> QED BY <1>4, <1>5, <1>6, FrameFit DEF AllFit

\* The core switches to the task it selected: running, not paused, not billed.
LEMMA FitSwitch ==
  ASSUME CoreTypes, QueueTypes, FieldTypes, Placed, LockInv, AllFit, NEW c \in Cores, Switch(c)
  PROVE  AllFit'
<1> DEFINE t == next[c]
<1>1. /\ pc[c] = "switch" /\ pc' = [pc EXCEPT ![c] = "task"] /\ mbox' = mbox
      /\ call' = [call EXCEPT ![c] = NoCall] /\ curr' = [curr EXCEPT ![c] = t]
      /\ state' = [state EXCEPT ![t] = (@ \ {"WAITING", "PAUSED", "BLOCKED"}) \cup {"RUNNING"}]
      /\ first_quanta' = [first_quanta EXCEPT ![t] = TRUE]
  BY DEF Switch, Return, Goto, RunningState, Reload
<1>2. t \in Threads /\ c \in Threads
  BY DEF CoreTypes, Threads
<1>3. \A d \in Cores : d # c => d # t /\ curr[d] # t
  BY <1>1, NotOthers DEF HoldsLock
<1> HIDE DEF t
<1>4. /\ \A u \in Threads : u # t => state'[u] = state[u] /\ first_quanta'[u] = first_quanta[u]
      /\ \A x \in {"IDLE", "PAUSED"}, u \in Threads : x \in state'[u] => x \in state[u]
      /\ "PAUSED" \notin state'[t] /\ "RUNNING" \in state'[t] /\ first_quanta'[t] = TRUE
  BY <1>1, <1>2 DEF FieldTypes
<1>5. Frame(c)
  <2>1. TimerDue' => TimerDue
    BY <1>1, CoresAssumption DEF TimerDue, CoreTypes
  <2>2. /\ \A d \in Cores : d # c => /\ pc'[d] = pc[d] /\ call'[d] = call[d]
                                     /\ curr'[d] = curr[d] /\ mbox'[d] = mbox[d]
        /\ pc'[Core0] = "boot" => pc[Core0] = "boot"
    BY <1>1, CoresAssumption DEF CoreTypes
  <2> QED BY <1>3, <1>4, <2>1, <2>2, OneTask
<1>6. Fit(c)'
  <2>1. Fit(c) /\ pc'[c] = "task" /\ call'[c] = NoCall /\ curr'[c] = t /\ pc'[Core0] # "boot"
    BY <1>1, CoresAssumption DEF AllFit, Fit, CoreTypes
  <2> QED BY <1>1, <1>2, <1>4, <2>1 DEF Fit, NoCall
<1>7. NotIdle'
  BY <1>4 DEF AllFit, NotIdle, Threads
<1> QED BY <1>5, <1>6, <1>7, FrameFit DEF AllFit

\* A core that has a message unread is not sent another one.
LEMMA TimerNoPanic ==
  ASSUME LockInv, AllFit, NEW c \in Cores, TimerCS(c), NEW e, NEW d \in Expired(e)
  PROVE  ~mbox[d]
<1>1. /\ d \in Cores /\ ~first_quanta[curr[d]] /\ "PAUSED" \notin state[curr[d]]
  BY DEF Expired, Billed
<1>2. Fit(c) /\ Fit(d)
  BY <1>1 DEF AllFit
<1>3. TimerDue
  BY <1>2 DEF TimerCS, SentMsgs, InCall, Fit, TimerDue
<1>4. pc[d] \notin {"select", "switch"}
  BY <1>1 DEF TimerCS, SentMsgs, InCall, LockInv, HoldsLock
<1> QED BY <1>1, <1>2, <1>3, <1>4 DEF Fit

\* The billing loop pauses the task of a core and tells that core.
LEMMA FitTimer ==
  ASSUME CoreTypes, FieldTypes, Placed, LockInv, AllFit, NEW c \in Cores, TimerCS(c)
  PROVE  AllFit'
<1>0. PICK e \in Elapsed :
        /\ state' = [t \in Threads |->
             IF \E d \in Expired(e) : t = curr[d] THEN state[t] \cup {"PAUSED"} ELSE state[t]]
        /\ mbox' = [d \in Cores |-> mbox[d] \/ d \in Expired(e)]
        /\ Goto(c, IF ReadyTickRelocks THEN "rqenter" ELSE "rqtick")
        /\ UNCHANGED <<call, curr>> /\ InCall(c, "timer")
  BY TimerNoPanic DEF TimerCS, SentMsgs
<1>1. /\ pc[c] = "cs" /\ call[c].op = "timer" /\ c = Core0 /\ call' = call /\ curr' = curr
      /\ pc'[c] \in {"rqenter", "rqtick"} /\ \A d \in Cores : d # c => pc'[d] = pc[d]
  <2>1. pc[c] = "cs" /\ call[c].op = "timer" /\ Fit(c)
    BY <1>0 DEF InCall, AllFit
  <2> QED BY <1>0, <2>1 DEF Goto, Fit, CoreTypes
<1>2. /\ Expired(e) \subseteq Cores
      /\ \A d \in Expired(e) : "IDLE" \notin state[curr[d]]
  BY DEF Expired, Billed
<1>3. \A t \in Threads :
        /\ state[t] \subseteq state'[t]
        /\ \A x \in state'[t] : x \in state[t] \/ (x = "PAUSED" /\ \E d \in Expired(e) : t = curr[d])
        /\ (\E d \in Expired(e) : t = curr[d]) => "PAUSED" \in state'[t]
  BY <1>0
<1>4. \A d \in Cores : mbox'[d] <=> mbox[d] \/ d \in Expired(e)
  BY <1>0, Zenon
<1>5. \A d \in Cores : /\ pc[d] \notin {"select", "switch"}
                       /\ d \in Threads /\ curr[d] \in Threads
  BY <1>1 DEF LockInv, HoldsLock, CoreTypes, Threads
<1>6. ASSUME NEW d \in Cores PROVE Fit(d)'
  <2>1. Fit(d) /\ Fit(c) /\ pc'[Core0] # "boot" /\ ~TimerDue'
    BY <1>1 DEF AllFit, TimerDue
  <2>2. "PAUSED" \notin state'[d]
    <3>1. \A x \in Expired(e) : d # curr[x]
      BY <1>2 DEF FieldTypes
    <3> QED BY <1>3, <1>5, <2>1, <3>1 DEF Fit
  <2>3. "PAUSED" \in state'[curr[d]] => mbox'[d] \/ call[d].op = "async"
    <3>1. CASE "PAUSED" \in state[curr[d]]
      BY <1>4, <2>1, <3>1 DEF Fit
    <3>2. ASSUME NEW x \in Expired(e), curr[d] = curr[x] PROVE mbox'[d]
      <4>1. x \in Cores /\ curr[x] \in Tasks
        BY <1>2, PausedTask
      <4>2. Owns(d, curr[x]) /\ Owns(x, curr[x])
        BY <1>5, <3>2, <4>1 DEF Owns, Owner
      <4> QED BY <1>4, <4>1, <4>2, PlaceFacts
    <3> QED BY <1>3, <1>5, <3>1, <3>2
  <2>4. mbox'[d] /\ pc[d] \notin {"task", "select", "switch"} => "PAUSED" \in state'[curr[d]]
    BY <1>3, <1>4, <1>5, <2>1 DEF Fit
  <2>5. CASE d = c
    BY <1>1, <1>3, <1>5, <2>1, <2>2, <2>3, <2>4, <2>5 DEF Fit
  <2>6. CASE d # c
    BY <1>1, <1>3, <1>5, <2>1, <2>2, <2>3, <2>4, <2>6 DEF Fit
  <2> QED BY <2>5, <2>6
<1>7. NotIdle'
  BY <1>3 DEF AllFit, NotIdle, Threads
<1> QED BY <1>6, <1>7 DEF AllFit

\* A new task is nobody's current task.
LEMMA FitAdd ==
  ASSUME CoreTypes, FieldTypes, Placed, AllFit, NEW t \in Tasks, BootAdd(t)
  PROVE  AllFit'
<1>1. /\ UNCHANGED <<pc, call, curr, mbox>> /\ pc[Core0] = "boot" /\ t \notin added
      /\ state' = [state EXCEPT ![t] = {"READY"} \cap StartState[t]]
      /\ first_quanta' = [first_quanta EXCEPT ![t] = TRUE]
  BY DEF BootAdd, AddedState, Reload
<1>2. ASSUME NEW d \in Cores PROVE d # t /\ curr[d] # t /\ d \in Threads /\ curr[d] \in Threads
  <2>1. pc[d] = "boot"
    BY <1>1 DEF AllFit, Fit
  <2>2. Owns(d, curr[d])
    BY <2>1 DEF Owns, Owner
  <2> QED BY <1>1, <2>2, PlaceFacts, CoresAssumption DEF CoreTypes, Threads
<1>3. \A u \in Threads : u # t => state'[u] = state[u] /\ first_quanta'[u] = first_quanta[u]
  BY <1>1 DEF FieldTypes
<1>4. ASSUME NEW d \in Cores PROVE Fit(d)'
  <2>1. /\ Fit(d) /\ state'[d] = state[d] /\ state'[curr[d]] = state[curr[d]]
        /\ first_quanta'[curr[d]] = first_quanta[curr[d]] /\ (TimerDue' => TimerDue)
    BY <1>1, <1>2, <1>3 DEF AllFit, TimerDue
  <2> HIDE DEF TimerDue
  <2> QED BY <1>1, <2>1 DEF Fit
<1>5. NotIdle'
  BY <1>1, <1>3 DEF AllFit, NotIdle, Threads, FieldTypes
<1> QED BY <1>4, <1>5 DEF AllFit

\* The wait queues and the marks leave none of the assertions to fire.
LEMMA NoPanicFacts ==
  ASSUME CoreTypes, QueueTypes, CursorTypes, FieldTypes, Placed, WaitInv, AllFit, NEW c \in Cores
  PROVE  /\ WaitCS(c) => ~Panic(c)
         /\ SignalWake(c) => ~Panic(c)
         /\ WqTick(c) => ~Panic(c)
<1>1. ASSUME WaitCS(c) PROVE ~Panic(c)
  <2>1. /\ pc[c] = "cs" /\ curr[c] \in Tasks /\ curr[c] \notin Queued(wq)
    BY <1>1, Apart DEF WaitCS, SleepState, BlockState, InCall, CoreTypes
  <2>2. ev_id[curr[c]] = 0 /\ "RUNNING" \in state[curr[c]]
    BY <2>1 DEF WaitInv, AllFit, Fit
  <2>3. Goto(c, "select")
    BY <1>1, <2>1, <2>2 DEF WaitCS, SleepState, BlockState
  <2> QED BY <2>3 DEF Panic, Goto, CoreTypes
<1>2. ASSUME SignalWake(c) PROVE ~Panic(c)
  <2>1. PICK k \in FirstWaiter(call[c].ev) :
          IF ~Wakeable(wq[WaitHash(call[c].ev)][k]) THEN Panic(c)
          ELSE /\ Wake(WaitHash(call[c].ev), k)
               /\ IF call[c].op = "signal" THEN Return(c) ELSE UNCHANGED <<lock, pc, call>>
    BY <1>2 DEF SignalWake
  <2>2. WaitHash(call[c].ev) \in Buckets /\ k \in 1 .. Len(wq[WaitHash(call[c].ev)])
    BY <1>2, BucketFacts DEF SignalWake, FirstWaiter, Waiters
  <2>3. Wakeable(wq[WaitHash(call[c].ev)][k])
    BY <2>2 DEF WaitInv
  <2>4. Return(c) \/ pc' = pc
    BY <2>1, <2>3
  <2>5. pc[c] = "cs"
    BY <1>2 DEF SignalWake
  <2> QED BY <2>4, <2>5 DEF Panic, Return, Goto, CoreTypes
<1>3. ASSUME WqTick(c) PROVE ~Panic(c)
  <2>1. /\ pc[c] = "wqtick" /\ cursor.queue \in Buckets /\ cursor.pos \in 1 .. Len(wq[cursor.queue])
    BY <1>3, QueuedTypes DEF WqTick, CursorTypes
  <2>2. Wakeable(wq[cursor.queue][cursor.pos])
    BY <2>1 DEF WaitInv
  <2>3. pc' = pc
    BY <1>3, <2>2 DEF WqTick, coreVars
  <2> QED BY <2>1, <2>3 DEF Panic, Goto, CoreTypes
<1> QED BY <1>1, <1>2, <1>3

LEMMA FitStep ==
  ASSUME TypeOK, LockInv, Placed, WaitInv, AllFit, [Next]_vars
  PROVE  AllFit'
<1>0. CoreTypes /\ QueueTypes /\ CursorTypes /\ FieldTypes
  BY DEF TypeOK
<1>1. ASSUME NEW t \in Tasks, BootAdd(t) PROVE AllFit'
  BY <1>0, <1>1, FitAdd
<1>2. CASE TimerIrq
  BY <1>0, <1>2, FitTimerIrq
<1>3. ASSUME NEW c \in Cores, Start(c) \/ UserCall(c) \/ IdleCall(c) \/ MboxIrq(c) \/ Acquire(c)
      PROVE  AllFit'
  BY <1>0, <1>3, FitEnter, FitGo
<1>4. ASSUME NEW c \in Cores, Locked(c) PROVE AllFit'
  <2>1. CASE YieldCS(c) \/ WaitCS(c)
    BY <1>0, <2>1, FitLeave, NoPanicFacts
  <2>2. CASE SignalWake(c)
    <3>1. PICK k \in FirstWaiter(call[c].ev) : /\ Wake(WaitHash(call[c].ev), k)
                                               /\ UNCHANGED <<pc, call>> \/ Return(c)
      BY <1>0, <2>2, NoPanicFacts DEF SignalWake
    <3>2. /\ WaitHash(call[c].ev) \in Buckets /\ k \in 1 .. Len(wq[WaitHash(call[c].ev)])
          /\ pc[c] = "cs" /\ call[c].op # "async"
      BY <1>0, <2>2, BucketFacts DEF SignalWake, FirstWaiter, Waiters
    <3>3. UNCHANGED <<curr, mbox>>
      BY <1>0, <2>2, NoPanicFacts DEF SignalWake
    <3> QED BY <1>0, <3>1, <3>2, <3>3, FitWake
  <2>3. CASE SignalDone(c)
    BY <1>0, <2>3, FitOn DEF SignalDone, timeVars
  <2>4. CASE AsyncCS(c)
    <3>1. CASE Goto(c, "select")
      BY <1>0, <2>4, <3>1, FitLeave
    <3>2. CASE ~Goto(c, "select")
      <4>1. /\ Return(c) /\ pc[c] = "cs" /\ UNCHANGED <<curr, mbox, state, first_quanta>>
            /\ "PAUSED" \notin state[curr[c]] \/ "IDLE" \in state[curr[c]]
        BY <2>4, <3>2 DEF AsyncCS, InCall, timeVars
      <4>2. "PAUSED" \notin state[curr[c]]
        <5>1. CASE "IDLE" \in state[curr[c]]
          <6>1. curr[c] = c
            BY <1>0, <5>1 DEF AllFit, NotIdle, CoreTypes
          <6> QED BY <6>1 DEF AllFit, Fit
        <5> QED BY <4>1, <5>1
      <4> QED BY <1>0, <4>1, <4>2, FitOn
    <3> QED BY <3>1, <3>2
  <2>5. CASE TimerCS(c)
    BY <1>0, <2>5, FitTimer
  <2>6. CASE RqTick(c)
    BY <1>0, <2>6, FitOn DEF RqTick
  <2>7. CASE RqTickNext(c) \/ WqTickNext(c)
    <3>1. /\ pc[c] \in {"rqtick", "wqtick"} /\ UNCHANGED <<curr, mbox, state, first_quanta>>
          /\ \/ Return(c)
             \/ call' = call /\ (pc' = pc \/ (Goto(c, "wqtick") /\ pc[c] = "rqtick"))
      BY <2>7 DEF RqTickNext, WqTickNext, timeVars
    <3>2. call[c].op # "async"
      BY <3>1 DEF AllFit, Fit
    <3> QED BY <1>0, <3>1, <3>2, FitOn
  <2>8. CASE WqTick(c)
    <3>1. /\ pc[c] = "wqtick" /\ cursor.queue \in Buckets
          /\ cursor.pos \in 1 .. Len(wq[cursor.queue])
      BY <1>0, <2>8, QueuedTypes DEF WqTick, CursorTypes
    <3>2. call[c].op # "async" /\ UNCHANGED <<pc, call, curr, mbox>>
      <4>1. call[c].op = "timer"
        BY <3>1 DEF AllFit, Fit
      <4> QED BY <1>0, <2>8, <4>1, NoPanicFacts DEF WqTick, coreVars
    <3>3. CASE Wake(cursor.queue, cursor.pos)
      BY <1>0, <3>1, <3>2, <3>3, FitWake
    <3>4. CASE UNCHANGED <<state, timeVars>>
      BY <1>0, <3>1, <3>2, <3>4, FitOn DEF timeVars
    <3> QED BY <1>0, <2>8, <3>3, <3>4, NoPanicFacts DEF WqTick
  <2>9. CASE SelectReady(c) \/ SelectIdle(c)
    BY <1>0, <2>9, FitSelect
  <2>10. CASE Switch(c)
    BY <1>0, <2>10, FitSwitch
  <2> QED BY <1>4, <2>1, <2>2, <2>3, <2>4, <2>5, <2>6, <2>7, <2>8, <2>9, <2>10 DEF Locked
<1>5. CASE UNCHANGED vars
  <2>1. UNCHANGED <<pc, call, curr, mbox, state, first_quanta>>
    BY <1>5 DEF vars, coreVars, timeVars
  <2> QED BY <2>1 DEF AllFit, NotIdle, Fit, TimerDue
<1> QED BY <1>1, <1>2, <1>3, <1>4, <1>5 DEF Next

LEMMA FitAlways == Spec => []AllFit
<1>1. Basic => TypeOK /\ LockInv
  BY DEF Basic
<1>2. TypeOK /\ LockInv /\ Placed /\ WaitInv /\ AllFit /\ [Next]_vars => AllFit'
  BY FitStep
<1> QED BY <1>1, <1>2, FitInit, WaitAlways, PTL DEF Spec

\* No assertion fires: not in event_waiton, not in a wakeup, not in the mailbox.
THEOREM PanicFree == Spec => []NoPanic
<1>1. AllFit => NoPanic
  BY DEF AllFit, Fit, NoPanic
<1> QED BY <1>1, FitAlways, PTL

\* A paused task that keeps its core has its timeout under way: no task is
\* left running that billing will never look at again.
THEOREM TimeoutsArrive == Spec => []PauseDelivered
<1>1. AllFit => PauseDelivered
  BY DEF AllFit, Fit, PauseDelivered
<1> QED BY <1>1, FitAlways, PTL

---------------------------------------------------------------------------
(* The order of the tasks in the ready queues. *)

\* A task of the ready queues p is in a more urgent queue of q, or no further
\* back in the same one: what NoOvertaking says of a step from p to q.
Forward(p, q) ==
  \A i, j \in Levels : \A k \in 1 .. Len(p[i]), l \in 1 .. Len(q[j]) :
    p[i][k] = q[j][l] => j < i \/ (j = i /\ l <= k)

\* The same, for one entry of q: the m-th of queue a of p.
LEMMA ForwardPlace ==
  ASSUME NEW p \in [Levels -> Seq(Tasks)], NoDuplicates(p),
         NEW j \in Levels, NEW l, NEW a \in Levels, NEW m \in 1 .. Len(p[a]),
         j < a \/ (j = a /\ l <= m),
         NEW i \in Levels, NEW k \in 1 .. Len(p[i]), p[i][k] = p[a][m]
  PROVE  j < i \/ (j = i /\ l <= k)
<1>1. i \in DOMAIN p /\ a \in DOMAIN p
  OBVIOUS
<1>2. i = a /\ k = m
  BY <1>1 DEF NoDuplicates
<1> QED BY <1>2

LEMMA ForwardSame ==
  ASSUME NEW p \in [Levels -> Seq(Tasks)], NoDuplicates(p)
  PROVE  Forward(p, p)
<1> SUFFICES ASSUME NEW i \in Levels, NEW j \in Levels,
                    NEW k \in 1 .. Len(p[i]), NEW l \in 1 .. Len(p[j]), p[i][k] = p[j][l]
             PROVE  j < i \/ (j = i /\ l <= k)
  BY DEF Forward
<1>1. i \in DOMAIN p /\ j \in DOMAIN p
  OBVIOUS
<1>2. i = j /\ k = l
  BY <1>1 DEF NoDuplicates
<1>3. l <= k
  BY <1>2
<1> QED BY <1>2, <1>3

\* A task that was on no ready queue joins one.
LEMMA ForwardJoin ==
  ASSUME NEW p \in [Levels -> Seq(Tasks)], NoDuplicates(p),
         NEW i \in Levels, NEW t \in Tasks, t \notin Queued(p)
  PROVE  Forward(p, Enqueue(p, i, t))
<1> DEFINE q == Enqueue(p, i, t)
<1>1. \A j \in Levels : \A l \in 1 .. Len(q[j]) :
        \/ l \in 1 .. Len(p[j]) /\ q[j][l] = p[j][l]
        \/ j = i /\ l = Len(p[i]) + 1 /\ q[j][l] = t
  BY EnqueuePlaces
<1> HIDE DEF q
<1>2. SUFFICES ASSUME NEW a \in Levels, NEW j \in Levels,
                      NEW k \in 1 .. Len(p[a]), NEW l \in 1 .. Len(q[j]), p[a][k] = q[j][l]
               PROVE  j < a \/ (j = a /\ l <= k)
  BY DEF Forward, q
<1>3. p[a][k] \in Queued(p)
  BY QueuedElements
<1>4. l \in 1 .. Len(p[j]) /\ q[j][l] = p[j][l] /\ l <= l
  BY <1>1, <1>2, <1>3
<1> QED BY <1>2, <1>4, ForwardPlace

\* A task leaves a ready queue.
LEMMA ForwardLeave ==
  ASSUME NEW p \in [Levels -> Seq(Tasks)], NoDuplicates(p),
         NEW i \in Levels, NEW k \in 1 .. Len(p[i])
  PROVE  Forward(p, Dequeue(p, i, k))
<1> DEFINE q == Dequeue(p, i, k)
<1>1. \A j \in Levels : \A l \in 1 .. Len(q[j]) :
        \E m \in 1 .. Len(p[j]) : q[j][l] = p[j][m] /\ (m = IF j = i /\ l >= k THEN l + 1 ELSE l)
  BY DequeuePlaces
<1> HIDE DEF q
<1>2. SUFFICES ASSUME NEW a \in Levels, NEW j \in Levels,
                      NEW n \in 1 .. Len(p[a]), NEW l \in 1 .. Len(q[j]), p[a][n] = q[j][l]
               PROVE  j < a \/ (j = a /\ l <= n)
  BY DEF Forward, q
<1>3. PICK m \in 1 .. Len(p[j]) :
        q[j][l] = p[j][m] /\ (m = IF j = i /\ l >= k THEN l + 1 ELSE l)
  BY <1>1
<1>4. l <= m /\ p[a][n] = p[j][m]
  BY <1>2, <1>3
<1> QED BY <1>4, ForwardPlace

\* A task that has waited long enough moves up one queue.
LEMMA ForwardAge ==
  ASSUME NEW p \in [Levels -> Seq(Tasks)], NoDuplicates(p),
         NEW i \in Levels, NEW k \in 1 .. Len(p[i]), i > 0
  PROVE  Forward(p, Enqueue(Dequeue(p, i, k), i - 1, p[i][k]))
<1> DEFINE d == Dequeue(p, i, k)
<1>1. d \in [Levels -> Seq(Tasks)]
  BY DequeueFacts
<1>2. \A j \in Levels : \A l \in 1 .. Len(d[j]) :
        \E m \in 1 .. Len(p[j]) : d[j][l] = p[j][m] /\ (m = IF j = i /\ l >= k THEN l + 1 ELSE l)
  <2>1. p \in [Levels -> Seq(Tasks)] /\ i \in Levels /\ k \in 1 .. Len(p[i])
    OBVIOUS
  <2> QED BY ONLY <2>1, DequeuePlaces DEF d
<1> HIDE DEF d
<1>0. PICK e \in Levels : e = i - 1 /\ e < i /\ p[i][k] \in Tasks
  BY QueuesAssumption, ElementOfSeq DEF Levels
<1> DEFINE t == p[i][k]
           q == Enqueue(d, e, t)
<1>3. t \in Tasks
  BY <1>0
<1> HIDE DEF t
<1>4. \A j \in Levels : \A l \in 1 .. Len(q[j]) :
        \/ l \in 1 .. Len(d[j]) /\ q[j][l] = d[j][l]
        \/ j = e /\ l = Len(d[e]) + 1 /\ q[j][l] = t
  BY <1>1, <1>3, EnqueuePlaces
<1> HIDE DEF q
<1>5. ASSUME NEW a \in Levels, NEW j \in Levels,
             NEW n \in 1 .. Len(p[a]), NEW l \in 1 .. Len(q[j]), p[a][n] = q[j][l]
      PROVE  j < a \/ (j = a /\ l <= n)
  <2>1. CASE l \in 1 .. Len(d[j]) /\ q[j][l] = d[j][l]
    <3>1. PICK m \in 1 .. Len(p[j]) :
            d[j][l] = p[j][m] /\ (m = IF j = i /\ l >= k THEN l + 1 ELSE l)
      BY <1>2, <2>1
    <3>2. l <= m /\ p[a][n] = p[j][m]
      BY <1>5, <2>1, <3>1
    <3> QED BY <3>2, ForwardPlace
  <2>2. CASE j = e /\ q[j][l] = t
    <3>1. j < i /\ p[a][n] = p[i][k]
      BY <1>0, <1>5, <2>2 DEF t
    <3> QED BY <3>1, ForwardPlace
  <2> QED BY <1>4, <2>1, <2>2
<1>6. Forward(p, q)
  BY <1>5 DEF Forward
<1>7. q = Enqueue(Dequeue(p, i, k), i - 1, p[i][k])
  BY <1>0 DEF q, d, t
<1> QED BY <1>6, <1>7

\* The ready queues' part of every step.
LEMMA ForwardStep ==
  ASSUME TypeOK, Placed, [Next]_vars
  PROVE  Forward(rq, rq')
<1>0. /\ CoreTypes /\ QueueTypes /\ CursorTypes /\ FieldTypes
      /\ rq \in [Levels -> Seq(Tasks)] /\ NoDuplicates(rq)
      /\ \A t \in Tasks : StartPrio[t] \in Levels
  BY TasksAssumption, PlaceFacts DEF TypeOK, QueueTypes
<1>1. ASSUME rq' = rq PROVE Forward(rq, rq')
  BY <1>0, <1>1, ForwardSame
<1>2. ASSUME NEW t \in Tasks, t \notin Queued(rq), rq' = Enqueue(rq, StartPrio[t], t)
      PROVE  Forward(rq, rq')
  BY <1>0, <1>2, ForwardJoin
<1>3. ASSUME NEW b \in Buckets, NEW k \in 1 .. Len(wq[b]), Wake(b, k)
      PROVE  Forward(rq, rq')
  <2>1. wq[b][k] \in Tasks /\ wq[b][k] \in Queued(wq)
    BY <1>0, QueuedTypes, QueuedElements DEF QueueTypes
  <2>2. wq[b][k] \notin Queued(rq)
    BY <2>1, PlaceFacts
  <2>3. rq' = Enqueue(rq, StartPrio[wq[b][k]], wq[b][k])
    BY <1>3 DEF Wake
  <2> QED BY <1>2, <2>1, <2>2, <2>3
<1>4. ASSUME NEW t \in Tasks, BootAdd(t) PROVE Forward(rq, rq')
  <2>1. t \notin Queued(rq) /\ rq' = Enqueue(rq, StartPrio[t], t)
    BY <1>4, PlaceFacts DEF BootAdd
  <2> QED BY <1>2, <2>1
<1>5. ASSUME NEW c \in Cores, QuietStep(c) PROVE Forward(rq, rq')
  BY <1>1, <1>5, QuietFacts
<1>6. ASSUME NEW c \in Cores, Locked(c) PROVE Forward(rq, rq')
  <2>0. pc[c] = "cs" => curr[c] \notin Queued(rq)
    BY <1>0, Apart
  <2>1. CASE YieldCS(c)
    <3>1. CASE curr[c] \in Tasks
      <4>1. curr[c] \notin Queued(rq) /\ rq' = Enqueue(rq, StartPrio[curr[c]], curr[c])
        BY <2>0, <2>1, <3>1 DEF YieldCS, InCall
      <4> QED BY <1>2, <3>1, <4>1
    <3>2. CASE curr[c] \notin Tasks
      BY <1>1, <2>1, <3>2 DEF YieldCS
    <3> QED BY <3>1, <3>2
  <2>2. CASE WaitCS(c)
    <3>1. rq' = rq
      BY <2>2 DEF WaitCS, Panic, queueVars
    <3> QED BY <1>1, <3>1
  <2>3. CASE SignalWake(c)
    <3>1. CASE Panic(c)
      BY <1>1, <3>1 DEF Panic, queueVars
    <3>2. CASE ~Panic(c)
      <4>1. PICK k \in FirstWaiter(call[c].ev) : Wake(WaitHash(call[c].ev), k)
        BY <2>3, <3>2 DEF SignalWake
      <4>2. /\ WaitHash(call[c].ev) \in Buckets
            /\ k \in 1 .. Len(wq[WaitHash(call[c].ev)])
        BY <1>0, <2>3, BucketFacts DEF SignalWake, FirstWaiter, Waiters
      <4> QED BY <1>3, <4>1, <4>2
    <3> QED BY <3>1, <3>2
  <2>4. CASE AsyncCS(c)
    <3>1. CASE "PAUSED" \in state[curr[c]] /\ "IDLE" \notin state[curr[c]]
      <4>1. /\ curr[c] \in Tasks /\ curr[c] \notin Queued(rq)
            /\ rq' = Enqueue(rq, StartPrio[curr[c]], curr[c])
        BY <1>0, <2>0, <2>4, <3>1, PausedTask DEF AsyncCS, InCall
      <4> QED BY <1>2, <4>1
    <3>2. CASE ~("PAUSED" \in state[curr[c]] /\ "IDLE" \notin state[curr[c]])
      <4>1. rq' = rq
        BY <2>4, <3>2 DEF AsyncCS
      <4> QED BY <1>1, <4>1
    <3> QED BY <3>1, <3>2
  <2>5. CASE RqTick(c)
    <3>1. CASE rq' = rq
      BY <1>1, <3>1
    <3>2. CASE rq' = Enqueue(Dequeue(rq, cursor.queue, cursor.pos), cursor.queue - 1,
                             rq[cursor.queue][cursor.pos])
      <4>1. cursor.queue \in Levels /\ cursor.queue > 0
        BY <1>0, <2>5 DEF RqTick, CursorTypes
      <4>2. cursor.pos \in 1 .. Len(rq[cursor.queue])
        BY <1>0, <2>5, <4>1, QueuedTypes DEF RqTick, CursorTypes
      <4> QED BY <1>0, <3>2, <4>1, <4>2, ForwardAge
    <3> QED BY <2>5, <3>1, <3>2 DEF RqTick
  <2>6. CASE WqTick(c)
    <3>1. /\ cursor.queue \in Buckets /\ cursor.pos \in 1 .. Len(wq[cursor.queue])
      BY <1>0, <2>6, QueuedTypes DEF WqTick, CursorTypes
    <3>2. Wake(cursor.queue, cursor.pos) \/ rq' = rq
      BY <2>6 DEF WqTick, Panic, queueVars
    <3> QED BY <1>1, <1>3, <3>1, <3>2
  <2>7. CASE SelectReady(c)
    <3>1. PICK i \in Levels : rq[i] # <<>> /\ rq' = Dequeue(rq, i, 1)
      BY <2>7 DEF SelectReady
    <3>2. 1 \in 1 .. Len(rq[i])
      BY <1>0, <3>1, EmptySeq, LenProperties
    <3> QED BY <1>0, <3>1, <3>2, ForwardLeave
  <2> QED BY <1>5, <1>6, <2>1, <2>2, <2>3, <2>4, <2>5, <2>6, <2>7 DEF Locked, QuietStep
<1> QED BY <1>4, <1>5, <1>6, CoresAssumption DEF Next, QuietStep

\* No step of any core moves a ready task back: to a less urgent queue, or
\* behind a task of its queue that it stood in front of.
THEOREM NoneOvertaken == Spec => NoOvertaking
<1>1. TypeOK /\ Placed /\ [Next]_vars =>
        [\A i, j \in Levels : \A k \in 1 .. Len(rq[i]), l \in 1 .. Len(rq'[j]) :
           rq[i][k] = rq'[j][l] => j < i \/ (j = i /\ l <= k)]_vars
  BY ForwardStep DEF Forward
<1>2. Basic => TypeOK
  BY DEF Basic
<1> QED BY <1>1, <1>2, BasicInv, PlacedInv, PTL DEF Spec, NoOvertaking


---------------------------------------------------------------------------
(* The order of the waiters of an event. *)

\* What WakeOrder says of a step.
ServesInOrder ==
  \A t, u \in Tasks :
    /\ Before(t, u) /\ u \notin Queued(wq)' => pc[Core0] = "wqtick" \/ t \notin Queued(wq)'
    /\ Before(t, u) /\ {t, u} \subseteq Queued(wq)' => Before(t, u)'
    /\ t \in Queued(wq) /\ u \in Queued(wq)' \ Queued(wq) /\ ev_id[t] = ev_id'[u] => Before(t, u)'

\* Two waiters one of which is in front of the other are on a wait queue.
LEMMA BeforeQueued ==
  ASSUME QueueTypes, NEW t, NEW u, Before(t, u)
  PROVE  t \in Queued(wq) /\ u \in Queued(wq)
BY QueuedElements DEF QueueTypes, Before

LEMMA OrderStays ==
  ASSUME QueueTypes, wq' = wq, ev_id' = ev_id
  PROVE  ServesInOrder
<1>1. Queued(wq)' = Queued(wq)
  OBVIOUS
<1>2. \A t, u \in Tasks : Before(t, u)' <=> Before(t, u)
  BY DEF Before
<1> QED BY <1>1, <1>2, BeforeQueued DEF ServesInOrder

\* A task joins the queue of its event behind all that wait there.
LEMMA OrderJoins ==
  ASSUME QueueTypes, FieldTypes, WaitInv, NEW v \in Tasks, v \notin Queued(wq),
         NEW ev \in Events, WaitHash(ev) \in Buckets,
         wq' = Enqueue(wq, WaitHash(ev), v), ev_id' = [ev_id EXCEPT ![v] = ev]
  PROVE  ServesInOrder
<1> DEFINE b == WaitHash(ev)
<1>1. /\ wq \in [Buckets -> Seq(Tasks)] /\ b \in Buckets
      /\ ev_id \in [Threads -> Events \cup {0}] /\ v \in Threads
      /\ Tasks \subseteq Threads
  BY DEF QueueTypes, FieldTypes, Threads
<1> HIDE DEF b
<1>2. /\ wq' = Enqueue(wq, b, v) /\ Queued(wq)' = Queued(wq) \cup {v}
  BY <1>1, EnqueueFacts DEF b
<1>3. /\ \A a \in Buckets : \A k \in 1 .. Len(wq[a]) :
           k \in 1 .. Len(wq'[a]) /\ wq'[a][k] = wq[a][k]
      /\ Len(wq[b]) + 1 \in 1 .. Len(wq'[b])
      /\ wq'[b][Len(wq[b]) + 1] = v
  BY <1>1, <1>2, EnqueuePlaces
<1>4. \A t \in Tasks : t # v => ev_id'[t] = ev_id[t]
  BY <1>1
<1>5. ASSUME NEW t \in Tasks, NEW u \in Tasks, Before(t, u) PROVE Before(t, u)'
  <2>1. t # v /\ u # v
    BY <1>5, BeforeQueued
  <2>2. PICK a \in Buckets : \E k, l \in 1 .. Len(wq[a]) :
          k < l /\ wq[a][k] = t /\ wq[a][l] = u /\ ev_id[t] = ev_id[u]
    BY <1>5 DEF Before
  <2>3. \E k, l \in 1 .. Len(wq'[a]) :
          k < l /\ wq'[a][k] = t /\ wq'[a][l] = u /\ ev_id[t] = ev_id[u]
    BY <1>3, <2>2
  <2> QED BY <1>4, <2>1, <2>3 DEF Before
<1>6. ASSUME NEW t \in Tasks, t \in Queued(wq), ev_id[t] = ev PROVE Before(t, v)'
  <2>0. \A x \in Queued(wq) : \E a \in Buckets : \E k \in 1 .. Len(wq[a]) : x = wq[a][k]
    <3>1. wq \in [Buckets -> Seq(Tasks)]
      BY <1>1
    <3> QED BY ONLY <3>1, QueuedElements
  <2>1. PICK a \in Buckets : \E k \in 1 .. Len(wq[a]) : t = wq[a][k]
    BY <1>6, <2>0
  <2>2. PICK k \in 1 .. Len(wq[a]) : t = wq[a][k]
    BY <2>1
  <2>3. a = b
    BY <1>6, <2>2 DEF WaitInv, b
  <2>4. PICK n \in Nat : n = Len(wq[b]) /\ k \in 1 .. n
    BY <1>1, <2>2, <2>3, LenProperties
  <2>5. /\ k \in 1 .. Len(wq'[b]) /\ wq'[b][k] = t
        /\ n + 1 \in 1 .. Len(wq'[b]) /\ wq'[b][n + 1] = v /\ k < n + 1
    BY <1>3, <2>2, <2>3, <2>4
  <2>6. ev_id'[t] = ev_id'[v]
    BY <1>1, <1>6
  <2> QED BY <1>1, <2>5, <2>6 DEF Before
<1> SUFFICES ASSUME NEW t \in Tasks, NEW u \in Tasks
             PROVE  /\ Before(t, u) /\ u \notin Queued(wq)' => pc[Core0] = "wqtick" \/ t \notin Queued(wq)'
                    /\ Before(t, u) /\ {t, u} \subseteq Queued(wq)' => Before(t, u)'
                    /\ t \in Queued(wq) /\ u \in Queued(wq)' \ Queued(wq) /\ ev_id[t] = ev_id'[u]
                         => Before(t, u)'
  BY DEF ServesInOrder
<1>7. Before(t, u) => u \in Queued(wq)'
  BY <1>2, BeforeQueued
<1>8. ASSUME t \in Queued(wq), u \in Queued(wq)' \ Queued(wq), ev_id[t] = ev_id'[u]
      PROVE  Before(t, u)'
  <2>1. u = v /\ ev_id'[v] = ev
    BY <1>1, <1>2, <1>8
  <2> QED BY <1>6, <1>8, <2>1
<1> QED BY <1>5, <1>7, <1>8

\* A waiter is woken that is the first of its event, or whose time is over.
LEMMA OrderLeaves ==
  ASSUME QueueTypes, FieldTypes, Placed, WaitInv,
         NEW b \in Buckets, NEW k \in 1 .. Len(wq[b]), Wake(b, k),
         \/ pc[Core0] = "wqtick"
         \/ \A j \in 1 .. Len(wq[b]) : ev_id[wq[b][j]] = ev_id[wq[b][k]] => k <= j
  PROVE  ServesInOrder
<1> DEFINE v == wq[b][k]
<1>1. /\ wq \in [Buckets -> Seq(Tasks)] /\ NoDuplicates(wq)
      /\ ev_id \in [Threads -> Events \cup {0}] /\ v \in Threads /\ Tasks \subseteq Threads
  BY QueuedTypes, PlaceFacts DEF QueueTypes, FieldTypes, Threads
<1>2. wq' = Dequeue(wq, b, k) /\ ev_id' = [ev_id EXCEPT ![v] = 0]
  BY DEF Wake, RmWaitQueue
<1>3. Queued(wq)' = Queued(wq) \ {v}
  BY <1>1, <1>2, DequeueFacts
<1>4. \A a \in Buckets : \A m \in 1 .. Len(wq[a]) : (a = b => m # k) =>
        \E l \in 1 .. Len(wq'[a]) : /\ wq'[a][l] = wq[a][m]
                                    /\ l = IF a = b /\ m > k THEN m - 1 ELSE m
  BY <1>1, <1>2, DequeuePlaces
<1>5. \A t \in Tasks : t # v => ev_id'[t] = ev_id[t]
  BY <1>1, <1>2
<1>6. ASSUME NEW a \in Buckets, NEW m \in 1 .. Len(wq[a]), wq[a][m] = v
      PROVE  a = b /\ m = k
  <2>1. a \in DOMAIN wq /\ b \in DOMAIN wq
    BY <1>1
  <2> QED BY <1>1, <1>6, <2>1 DEF NoDuplicates
<1>7. \A t, u \in Tasks : Before(t, u) => t \in Queued(wq) /\ u \in Queued(wq)
  BY BeforeQueued
<1>8. v \in Queued(wq)
  BY <1>1, QueuedElements
<1> HIDE DEF v
<1> SUFFICES ASSUME NEW t \in Tasks, NEW u \in Tasks
             PROVE  /\ Before(t, u) /\ u \notin Queued(wq)' => pc[Core0] = "wqtick" \/ t \notin Queued(wq)'
                    /\ Before(t, u) /\ {t, u} \subseteq Queued(wq)' => Before(t, u)'
                    /\ t \in Queued(wq) /\ u \in Queued(wq)' \ Queued(wq) /\ ev_id[t] = ev_id'[u]
                         => Before(t, u)'
  BY DEF ServesInOrder
<1>9. ASSUME Before(t, u), u \notin Queued(wq)' PROVE pc[Core0] = "wqtick"
  <2>1. u = v
    BY <1>3, <1>7, <1>9
  <2>2. PICK a \in Buckets : \E m, l \in 1 .. Len(wq[a]) :
          m < l /\ wq[a][m] = t /\ wq[a][l] = u /\ ev_id[t] = ev_id[u]
    BY <1>9 DEF Before
  <2>3. PICK m \in 1 .. Len(wq[a]), l \in 1 .. Len(wq[a]) :
          m < l /\ wq[a][m] = t /\ wq[a][l] = u /\ ev_id[t] = ev_id[u]
    BY <2>2
  <2>4. a = b /\ l = k
    BY <1>6, <2>1, <2>3
  <2>5. m \in 1 .. Len(wq[b]) /\ ev_id[wq[b][m]] = ev_id[wq[b][k]] /\ ~(k <= m)
    BY <1>1, <2>3, <2>4
  <2> QED BY <2>5
<1>10. ASSUME Before(t, u), t \in Queued(wq)', u \in Queued(wq)' PROVE Before(t, u)'
  <2>1. t # v /\ u # v
    BY <1>3, <1>10
  <2>2. PICK a \in Buckets : \E m, l \in 1 .. Len(wq[a]) :
          m < l /\ wq[a][m] = t /\ wq[a][l] = u /\ ev_id[t] = ev_id[u]
    BY <1>10 DEF Before
  <2>3. PICK m \in 1 .. Len(wq[a]), l \in 1 .. Len(wq[a]) :
          m < l /\ wq[a][m] = t /\ wq[a][l] = u /\ ev_id[t] = ev_id[u]
    BY <2>2
  <2>4. a = b => m # k /\ l # k
    BY <2>1, <2>3 DEF v
  <2>5. PICK x \in 1 .. Len(wq'[a]) :
          wq'[a][x] = t /\ x = IF a = b /\ m > k THEN m - 1 ELSE m
    BY <1>4, <2>3, <2>4
  <2>6. PICK y \in 1 .. Len(wq'[a]) :
          wq'[a][y] = u /\ y = IF a = b /\ l > k THEN l - 1 ELSE l
    BY <1>4, <2>3, <2>4
  <2>7. x < y
    <3>1. m \in Int /\ l \in Int /\ k \in Int
      OBVIOUS
    <3> QED BY <2>3, <2>4, <2>5, <2>6, <3>1
  <2>8. ev_id'[t] = ev_id'[u]
    BY <1>5, <2>1, <2>3
  <2> QED BY <2>5, <2>6, <2>7, <2>8 DEF Before
<1> QED BY <1>3, <1>9, <1>10

\* The wait queues' part of every step.
LEMMA OrderStep ==
  ASSUME TypeOK, Placed, WaitInv, AllFit, [Next]_vars
  PROVE  ServesInOrder
<1>0. CoreTypes /\ QueueTypes /\ CursorTypes /\ FieldTypes
  BY DEF TypeOK
<1>1. ASSUME NEW t \in Tasks, BootAdd(t) PROVE ServesInOrder
  BY <1>0, <1>1, OrderStays DEF BootAdd, eventVars
<1>2. ASSUME NEW c \in Cores, QuietStep(c) PROVE ServesInOrder
  <2>1. ev_id' = ev_id
    BY <1>2 DEF QuietStep, TimerIrq, Start, UserCall, IdleCall, MboxIrq, ClearedMsg, Acquire,
          Enter, SignalDone, TimerCS, SentMsgs, Panic, RqTickNext, WqTickNext, SelectIdle,
          Switch, vars, eventVars
  <2> QED BY <1>0, <1>2, <2>1, QuietFacts, OrderStays
<1>3. ASSUME NEW c \in Cores, Locked(c) PROVE ServesInOrder
  <2>1. CASE YieldCS(c) \/ AsyncCS(c) \/ RqTick(c) \/ SelectReady(c)
    BY <1>0, <2>1, OrderStays DEF YieldCS, AsyncCS, RqTick, SelectReady, eventVars
  <2>2. CASE WaitCS(c)
    <3>1. ~Panic(c)
      BY <1>0, <2>2, NoPanicFacts
    <3>2. /\ call[c].ev \in Events /\ WaitHash(call[c].ev) \in Buckets
          /\ curr[c] \in Tasks /\ curr[c] \notin Queued(wq)
      BY <1>0, <2>2, BucketFacts, Apart DEF WaitCS, InCall, CoreTypes
    <3>3. /\ wq' = Enqueue(wq, WaitHash(call[c].ev), curr[c])
          /\ ev_id' = [ev_id EXCEPT ![curr[c]] = call[c].ev]
      BY <2>2, <3>1 DEF WaitCS
    <3> QED BY <1>0, <3>2, <3>3, OrderJoins
  <2>3. CASE SignalWake(c)
    <3>1. ~Panic(c)
      BY <1>0, <2>3, NoPanicFacts
    <3>2. PICK k \in FirstWaiter(call[c].ev) : Wake(WaitHash(call[c].ev), k)
      BY <2>3, <3>1 DEF SignalWake
    <3> DEFINE b == WaitHash(call[c].ev)
    <3>3. /\ b \in Buckets /\ k \in 1 .. Len(wq[b]) /\ ev_id[wq[b][k]] = call[c].ev
          /\ \A j \in 1 .. Len(wq[b]) : ev_id[wq[b][j]] = call[c].ev => k <= j
      BY <1>0, <2>3, BucketFacts DEF SignalWake, FirstWaiter, Waiters
    <3>4. Wake(b, k)
      BY <3>2
    <3> HIDE DEF b
    <3> QED BY <1>0, <3>3, <3>4, OrderLeaves
  <2>4. CASE WqTick(c)
    <3>1. ~Panic(c)
      BY <1>0, <2>4, NoPanicFacts
    <3>2. /\ pc[c] = "wqtick" /\ cursor.queue \in Buckets
          /\ cursor.pos \in 1 .. Len(wq[cursor.queue])
      BY <1>0, <2>4, QueuedTypes DEF WqTick, CursorTypes
    <3>3. pc[Core0] = "wqtick"
      <4>1. c = Core0
        BY <3>2 DEF AllFit, Fit
      <4> QED BY <3>2, <4>1
    <3>4. CASE Wake(cursor.queue, cursor.pos)
      BY <1>0, <3>2, <3>3, <3>4, OrderLeaves
    <3>5. CASE UNCHANGED <<queueVars, ev_id>>
      BY <1>0, <3>5, OrderStays DEF queueVars
    <3> QED BY <2>4, <3>1, <3>4, <3>5 DEF WqTick
  <2> QED BY <1>2, <1>3, <2>1, <2>2, <2>3, <2>4 DEF Locked, QuietStep
<1> QED BY <1>1, <1>2, <1>3, CoresAssumption DEF Next, QuietStep

\* Waiters of an event are served in the order they came: a waiter that joins
\* is behind the others, none overtakes another, and only a timeout, never a
\* signal, takes one and leaves an earlier one.
THEOREM ServedInOrder == Spec => WakeOrder
<1> DEFINE Serves ==
      \A t \in Tasks : t \in Queued(wq) => \A u \in Tasks :
        /\ Before(t, u) /\ u \notin Queued(wq)' =>
             pc[Core0] = "wqtick" \/ t \notin Queued(wq)'
        /\ Before(t, u) /\ {t, u} \subseteq Queued(wq)' => Before(t, u)'
        /\ u \in Queued(wq)' \ Queued(wq) /\ ev_id[t] = ev_id'[u] => Before(t, u)'
<1>0. ServesInOrder => Serves
  BY DEF ServesInOrder
<1>1. TypeOK /\ Placed /\ WaitInv /\ AllFit /\ [Next]_vars => [Serves]_vars
  BY <1>0, OrderStep
<1>2. Basic => TypeOK
  BY DEF Basic
<1>3. Spec => [][Serves]_vars
  BY <1>1, <1>2, WaitAlways, FitAlways, PTL DEF Spec
<1> QED BY <1>3 DEF WakeOrder
=============================================================================
