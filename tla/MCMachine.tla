----------------------------- MODULE MCMachine -----------------------------
(***************************************************************************)
(* The small state machines around the scheduler, checked side by side:    *)
(* they share no variable, and a behaviour is one of part.  One part is    *)
(* the scheduler itself on an instance for its liveness.                   *)
(***************************************************************************)
EXTENDS QueueLinks, IrqContext, Slock, Timer, CoreStart, MboxTags, RwLock

CONSTANT Parts   \* the machines to choose from

VARIABLE part

\* The scheduler: one core and two tasks, that start in the first and in the
\* last of three ready queues.
VARIABLES s_lock, s_pc, s_call, s_curr, s_next, s_rq, s_wq, s_mbox, s_added, s_cursor,
          s_state, s_first_quanta, s_time_left, s_sched_wait_ticks, s_ev_id, s_ev_left

schvars == <<s_lock, s_pc, s_call, s_curr, s_next, s_rq, s_wq, s_mbox, s_added, s_cursor,
             s_state, s_first_quanta, s_time_left, s_sched_wait_ticks, s_ev_id, s_ev_left>>

Sched == INSTANCE Sched WITH
           Cores <- {"core0"}, Core0 <- "core0", Tasks <- {"urgent", "patient"}, None <- "none",
           NumQueues <- 3, NumWaitQueues <- 1, Events <- {1}, WaitTimes <- {0, 2}, Elapsed <- {1, 2},
           StartPrio <- [urgent |-> 0, patient |-> 2], StartState <- [urgent |-> {}, patient |-> {}],
           Quanta <- 1, WaitTicks <- 1, ReadyTickRelocks <- FALSE,
           lock <- s_lock, pc <- s_pc, call <- s_call, curr <- s_curr, next <- s_next,
           rq <- s_rq, wq <- s_wq, mbox <- s_mbox, added <- s_added, cursor <- s_cursor,
           state <- s_state, first_quanta <- s_first_quanta, time_left <- s_time_left,
           sched_wait_ticks <- s_sched_wait_ticks, ev_id <- s_ev_id, ev_left <- s_ev_left

machines == <<qvars, ivars, svars, tvars, cvars, mvars, lockVars, schvars>>

MachineInit == /\ part \in Parts
               /\ QInit /\ IInit /\ SInit /\ TInit /\ CInit /\ MInit /\ LockInit /\ Sched!Init

MachineNext ==
  /\ UNCHANGED part
  /\ \/ part = "queues" /\ QNext       /\ UNCHANGED <<ivars, svars, tvars, cvars, mvars, lockVars, schvars>>
     \/ part = "irq"    /\ INext       /\ UNCHANGED <<qvars, svars, tvars, cvars, mvars, lockVars, schvars>>
     \/ part = "slock"  /\ SNext       /\ UNCHANGED <<qvars, ivars, tvars, cvars, mvars, lockVars, schvars>>
     \/ part = "timer"  /\ TNext       /\ UNCHANGED <<qvars, ivars, svars, cvars, mvars, lockVars, schvars>>
     \/ part = "start"  /\ CNext       /\ UNCHANGED <<qvars, ivars, svars, tvars, mvars, lockVars, schvars>>
     \/ part = "mbox"   /\ MNext       /\ UNCHANGED <<qvars, ivars, svars, tvars, cvars, lockVars, schvars>>
     \/ part = "rwlock" /\ LockNext    /\ UNCHANGED <<qvars, ivars, svars, tvars, cvars, mvars, schvars>>
     \/ part = "sched"  /\ Sched!Next  /\ UNCHANGED <<qvars, ivars, svars, tvars, cvars, mvars, lockVars>>

\* Each part is as fair as on its own.
MachineFair == \/ part = "irq"    /\ IFair
               \/ part = "slock"  /\ SFair
               \/ part = "start"  /\ CFair
               \/ part = "rwlock" /\ LockFair
               \/ part = "sched"  /\ Sched!Fairness
               \/ part \in {"queues", "timer", "mbox"}

MachineSpec == MachineInit /\ [][MachineNext]_<<part, machines>> /\ MachineFair

---------------------------------------------------------------------------
(* The liveness of the scheduler, on this instance of it. *)

\* sched_ready_queue_tick: a ready task is eventually given a core, however
\* urgent the others are.
ReadyRuns == Sched!ReadyRuns

\* sched_wait_queue_tick: a timed wait ends, also if nobody signals its event.
TimedWaitEnds == Sched!TimedWaitEnds
============================================================================
