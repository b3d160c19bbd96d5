------------------------------ MODULE MCSched ------------------------------
(* Values for the constants of Sched that a .cfg cannot write. *)
EXTENDS Sched

CONSTANTS c0, c1, c2, t1, t2, t3

\* Tasks added in increasing urgency: the first shares queue 0 with nobody.
PrioSpread  == [t \in Tasks |-> IF t = t1 THEN 0 ELSE NumQueues - 1]
PrioLowest  == [t \in Tasks |-> NumQueues - 1]
\* klog_init adds the flush task with TASK_UNINT, sched_test adds with 0.
StartNormal == [t \in Tasks |-> {}]
StartUnint  == [t \in Tasks |-> IF t = t1 THEN {"UNINT"} ELSE {}]

\* The bound of sched_safety: two tasks on two cores with one event, or three
\* tasks with all events while the second core has not started.
OneOrTwoCores ==
  pc[c1] = "boot" \/ ({t2, t3} \cap added # {t2, t3} /\ \A t \in Tasks : ev_id[t] \in {0, 1})

\* t2 and t3 have one priority and one start state in every configuration
\* that uses this.
LikeTasks == Permutations({t2, t3})
============================================================================
