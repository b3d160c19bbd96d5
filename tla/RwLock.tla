------------------------------- MODULE RwLock -------------------------------
(***************************************************************************)
(* The reader-writer lock of src/src/common/lock.c on the semaphore of     *)
(* atomic_asm.S.  Readers take one of MaxReaders units, a writer all of    *)
(* them; waiting counts the writers, and holds back readers that have not  *)
(* looked at it yet.  One atomic instruction sequence is one step.  What   *)
(* is done with the lock held is added by the module that uses it.         *)
(***************************************************************************)
EXTENDS Integers, FiniteSets

CONSTANTS Readers, Writers,  \* who calls rwlock_read_lock, rwlock_write_lock
          MaxReaders         \* max_reader_count

ASSUME ProcsAssumption == Readers \cap Writers = {} /\ IsFiniteSet(Readers \cup Writers)
ASSUME UnitsAssumption == MaxReaders \in Nat \ {0}

VARIABLES waiting,  \* writer_waiting
          num,      \* sem.num
          at        \* where each process is

lockVars == <<waiting, num, at>>
Procs    == Readers \cup Writers

LockInit == /\ waiting = 0
            /\ num = MaxReaders
            /\ at = [p \in Procs |-> "out"]

Moves(p, from, to) == at[p] = from /\ at' = [at EXCEPT ![p] = to]

\* rwlock_read_lock: the call, the loop on writer_waiting, semaphore_take.
ReadLock(p) == Moves(p, "out", "test") /\ UNCHANGED <<waiting, num>>

\* Mutant of ReadTest: a reader that does not look at writer_waiting.
ReadTestNot(p) == Moves(p, "test", "take") /\ UNCHANGED <<waiting, num>>

ReadTest(p) == Moves(p, "test", "take") /\ waiting = 0 /\ UNCHANGED <<waiting, num>>

ReadTake(p) == Moves(p, "take", "in") /\ num > 0 /\ num' = num - 1 /\ UNCHANGED waiting

\* rwlock_read_unlock
ReadUnlock(p) == Moves(p, "in", "out") /\ num' = num + 1 /\ UNCHANGED waiting

\* Mutant of Available: a writer that waits for one unit only.
AnyUnit == num > 0

\* All units are back.
Available == num = MaxReaders

\* rwlock_write_lock: the increment of writer_waiting, the loop of
\* semaphore_set from max_reader_count to 0.
WriteLock(p) == Moves(p, "out", "set") /\ waiting' = waiting + 1 /\ UNCHANGED num

WriteTake(p) == Moves(p, "set", "in") /\ Available /\ num' = 0 /\ UNCHANGED waiting

\* Mutant of WriteUnlock: semaphore_give instead of semaphore_set.
WriteGiveOne(p) == Moves(p, "in", "leave") /\ num' = num + 1 /\ UNCHANGED waiting

\* rwlock_write_unlock: semaphore_set back from 0, the decrement.
WriteUnlock(p) == Moves(p, "in", "leave") /\ num = 0 /\ num' = MaxReaders /\ UNCHANGED waiting

WriteLeave(p) == Moves(p, "leave", "out") /\ waiting' = waiting - 1 /\ UNCHANGED num

\* The lock by itself: whoever is in or out may stay there, or call again.
ReaderGoesOn(p) == ReadTest(p) \/ ReadTake(p) \/ ReadUnlock(p)
WriterGoesOn(p) == WriteTake(p) \/ WriteUnlock(p) \/ WriteLeave(p)

LockNext == \/ \E p \in Readers : ReadLock(p) \/ ReaderGoesOn(p)
            \/ \E p \in Writers : WriteLock(p) \/ WriterGoesOn(p)

LockSpec == LockInit /\ [][LockNext]_lockVars

\* A caller that is in the lock or on its way there goes on executing, and a
\* compare-exchange that is tried while the semaphore stays as it should be
\* succeeds.
LockFair == /\ \A p \in Readers : WF_lockVars(ReaderGoesOn(p))
            /\ \A p \in Writers : WF_lockVars(WriterGoesOn(p))

---------------------------------------------------------------------------
\* A writer is alone: no reader, not even one that looked at writer_waiting
\* before the writer raised it, and no other writer is in with it.
Exclusive == \A w \in Writers : at[w] = "in" => \A p \in Procs \ {w} : at[p] # "in"

\* The semaphore accounts for those inside: no unit is lost to a reader that
\* left or to a writer, so the next writer can have them all.
UnitsKept == num = IF \E w \in Writers : at[w] = "in" THEN 0
                   ELSE MaxReaders - Cardinality({r \in Readers : at[r] = "in"})

\* While writers wait one of them gets in, although readers call again and
\* again: those that come are held back by writer_waiting, those that have
\* passed it leave, and each writer's unlock lets the next one in.
AWriterGetsIn == (\E w \in Writers : at[w] = "set") ~> \E w \in Writers : at[w] = "in"
=============================================================================
