------------------------------ MODULE SchedAbs -----------------------------
(***************************************************************************)
(* What the scheduler promises: a task that was added is ready, waiting or *)
(* running on one core, a core runs one task at a time, and a task only    *)
(* leaves its core to be ready again or to wait.  How tasks are queued,    *)
(* preempted, timed and locked is left to Sched.                           *)
(***************************************************************************)
CONSTANTS Cores, Tasks, Nobody

VARIABLES
  status,   \* what each task is doing
  on        \* the task each core runs, or Nobody: idle or between two tasks

vars == <<status, on>>

Init == /\ status = [t \in Tasks |-> "new"]
        /\ on = [c \in Cores |-> Nobody]

\* sched_task_add
Add(t) == /\ status[t] = "new"
          /\ status' = [status EXCEPT ![t] = "ready"]
          /\ UNCHANGED on

\* A free core takes a ready task.
Dispatch(c, t) == /\ on[c] = Nobody /\ status[t] = "ready"
                  /\ on' = [on EXCEPT ![c] = t]
                  /\ status' = [status EXCEPT ![t] = "running"]

\* The task of core c gives it up: it yields or is preempted, or it waits.
Leave(c, t, s) == /\ on[c] = t /\ status[t] = "running"
                  /\ on' = [on EXCEPT ![c] = Nobody]
                  /\ status' = [status EXCEPT ![t] = s]

\* A signal or the timeout of its wait.
Wake(t) == /\ status[t] = "waiting"
           /\ status' = [status EXCEPT ![t] = "ready"]
           /\ UNCHANGED on

Next == \/ \E t \in Tasks : Add(t) \/ Wake(t)
        \/ \E c \in Cores, t \in Tasks :
             \/ Dispatch(c, t)
             \/ \E s \in {"ready", "waiting"} : Leave(c, t, s)

Spec == Init /\ [][Next]_vars
=============================================================================
