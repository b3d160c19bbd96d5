------------------------------- MODULE Slock -------------------------------
(***************************************************************************)
(* The sleeping lock, src/src/kernel/slock.c.  A task that has tried often *)
(* enough waits for the lock's event, of which event_signal wakes the      *)
(* first waiter, or for WAIT_TIME_MS.                                      *)
(***************************************************************************)
EXTENDS Integers, Sequences, SequencesExt

CONSTANTS LockTasks,
          SlockTries,   \* SLOCK_TRIES, 20 in the code
          TimedWait     \* event_waiton has a time to wait, as in the code

ASSUME SlockAssumption == SlockTries \in Nat /\ TimedWait \in BOOLEAN

VARIABLES lock,     \* 0 or 1
          tries,
          spot,     \* where a task is: "out", "try", "count", "sleep", "in", "signal"
          sleepers  \* the wait queue of the lock's event

svars == <<lock, tries, spot, sleepers>>

SInit == /\ lock = 0 /\ sleepers = <<>>
         /\ tries = [t \in LockTasks |-> 0]
         /\ spot = [t \in LockTasks |-> "out"]

Goes(t, from, to) == spot[t] = from /\ spot' = [spot EXCEPT ![t] = to]

\* lock_slock is called.
LockSlock(t) == /\ Goes(t, "out", "try")
                /\ tries' = [tries EXCEPT ![t] = 0]
                /\ UNCHANGED <<lock, sleepers>>

\* Mutant of LockFree: the lock's value is not looked at.
NotCompared == TRUE

LockFree == lock = 0

\* lock_trylock takes it,
TryTakes(t) == /\ Goes(t, "try", "in")
               /\ LockFree
               /\ lock' = 1
               /\ UNCHANGED <<tries, sleepers>>

\* or does not, as it is taken or the store-exclusive failed.
TryFails(t) == Goes(t, "try", "count") /\ UNCHANGED <<lock, tries, sleepers>>

\* One more turn of the loop: another try,
Again(t) == /\ Goes(t, "count", "try")
            /\ tries[t] <= SlockTries
            /\ tries' = [tries EXCEPT ![t] = @ + 1]
            /\ UNCHANGED <<lock, sleepers>>

\* or the wait.  The lock may have been freed and the event signalled since
\* the last try.
Sleep(t) == /\ Goes(t, "count", "sleep")
            /\ tries[t] > SlockTries
            /\ tries' = [tries EXCEPT ![t] = 0]
            /\ sleepers' = Append(sleepers, t)
            /\ UNCHANGED lock

\* Mutant of TimesOut: a wait without a time.
NeverTimesOut(t) == FALSE

\* The wait's time is over.
TimesOut(t) == /\ TimedWait
               /\ Goes(t, "sleep", "try")
               /\ tries' = [tries EXCEPT ![t] = 1]
               /\ \E k \in DOMAIN sleepers : /\ sleepers[k] = t
                                             /\ sleepers' = RemoveAt(sleepers, k)
               /\ UNCHANGED lock

\* unlock_slock: the store,
Unlock(t) == /\ Goes(t, "in", "signal")
             /\ lock' = 0
             /\ UNCHANGED <<tries, sleepers>>

\* and event_signal.
SignalNone(t) == /\ Goes(t, "signal", "out")
                 /\ sleepers = <<>>
                 /\ UNCHANGED <<lock, tries, sleepers>>
SignalFirst(t) == /\ spot[t] = "signal" /\ sleepers # <<>>
                  /\ spot' = [spot EXCEPT ![t] = "out", ![Head(sleepers)] = "try"]
                  /\ tries' = [tries EXCEPT ![Head(sleepers)] = 1]
                  /\ sleepers' = Tail(sleepers)
                  /\ UNCHANGED lock

SStep(t) == \/ TryTakes(t) \/ TryFails(t) \/ Again(t) \/ Sleep(t) \/ TimesOut(t)
            \/ Unlock(t) \/ SignalNone(t) \/ SignalFirst(t)

SNext == \E t \in LockTasks : LockSlock(t) \/ SStep(t)

\* Tasks go on executing, time goes on, and a compare-exchange that is tried
\* again and again on a free lock succeeds.
SFair == \A t \in LockTasks : WF_svars(SStep(t)) /\ SF_svars(TryTakes(t))

SSpec == SInit /\ [][SNext]_svars /\ SFair

---------------------------------------------------------------------------
(* Properties. *)

Holds(t) == spot[t] = "in"
Wants(t) == spot[t] \in {"try", "count", "sleep"}

\* One task holds the lock at most, the lock's word says whether one does, and
\* the tasks that sleep are those the event's queue has, each once.
SlockInv == /\ lock \in {0, 1}
            /\ lock = 1 <=> \E t \in LockTasks : Holds(t)
            /\ \A t, u \in LockTasks : Holds(t) /\ Holds(u) => t = u
            /\ \A t \in LockTasks : spot[t] = "sleep" <=> t \in Range(sleepers)
            /\ IsInjective(sleepers)

\* A lock that is free and wanted is taken, though the signal may come before
\* the wait and be lost.
FreeLockTaken == (lock = 0 /\ \E t \in LockTasks : Wants(t)) ~> lock = 1
=============================================================================
