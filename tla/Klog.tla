-------------------------------- MODULE Klog --------------------------------
(***************************************************************************)
(* The kernel log, src/src/kernel/klog.c: a ring of messages that tasks    *)
(* write as readers of the log's rw_lock, so several at a time, and that   *)
(* the flush task prints as its writer.  The indices are only read and     *)
(* written with the lock held.  A message is a pair of halves, each the    *)
(* name of the task that copied it there.                                  *)
(***************************************************************************)
EXTENDS RwLock, Sequences

CONSTANTS Flusher,        \* flush_task, the only one of Writers that calls
          None,           \* an empty half
          Slots,          \* KLOG_BUF_SIZE, 1024 in the code
          FullTestWraps   \* FALSE: WRITE_FULL as in klog.c:17.  TRUE: w_i + 1
                          \* is taken modulo KLOG_BUF_SIZE.

ASSUME FlusherAssumption == Flusher \in Writers /\ None \notin Readers
ASSUME SlotsAssumption   == Slots \in Nat \ {0, 1} /\ FullTestWraps \in BOOLEAN

Index == 0 .. Slots - 1

VARIABLES read_index, write_index, msgs,
          w_i, r_i,  \* the local variables of reserve and of flush
          step       \* what a process that is in the lock does next

logVars == <<read_index, write_index, msgs, w_i, r_i, step>>
vars    == <<lockVars, logVars>>

\* END_INDEX
Succ(i) == IF i = Slots - 1 THEN 0 ELSE i + 1

\* WRITE_FULL; 1 % KLOG_BUF_SIZE is 1.
WriteFull(r, w) == r = IF FullTestWraps THEN Succ(w) ELSE w + 1

\* klog_init
Init == /\ LockInit
        /\ read_index = 0 /\ write_index = 0
        /\ msgs = [i \in Index |-> [first |-> None, second |-> None]]
        /\ w_i = [p \in Procs |-> 0]
        /\ r_i = 0
        /\ step = [p \in Procs |-> "none"]

Does(p, from, to) == /\ at[p] = "in" /\ step[p] = from
                     /\ step' = [step EXCEPT ![p] = to]
                     /\ UNCHANGED lockVars

---------------------------------------------------------------------------
(* klog_write, by a task p. *)

\* klog_printf is called.
Printf(p) == /\ ReadLock(p)
             /\ UNCHANGED logVars

ReadWaits(p) == ReadTest(p) /\ UNCHANGED logVars

ReadEnters(p) == /\ ReadTake(p)
                 /\ step' = [step EXCEPT ![p] = "load"]
                 /\ UNCHANGED <<read_index, write_index, msgs, w_i, r_i>>

\* reserve loads the indices; read_index cannot change under the lock.
Load(p) == /\ Does(p, "load", IF WriteFull(read_index, write_index) THEN "done" ELSE "cas")
           /\ w_i' = [w_i EXCEPT ![p] = IF WriteFull(read_index, write_index) THEN 0
                                        ELSE write_index]
           /\ UNCHANGED <<read_index, write_index, msgs, r_i>>

\* Mutant of StillThere: a store that does not look at the index again.
NoCompare(p) == TRUE

StillThere(p) == write_index = w_i[p]

\* The atomic_cmpxchg_64 of reserve takes the slot,
Reserve(p) == /\ Does(p, "cas", "copy")
              /\ StillThere(p)
              /\ write_index' = Succ(w_i[p])
              /\ UNCHANGED <<read_index, msgs, w_i, r_i>>

\* or fails: the index has moved, or the store-exclusive failed.
Retry(p) == /\ Does(p, "cas", "load")
            /\ w_i' = [w_i EXCEPT ![p] = 0]
            /\ UNCHANGED <<read_index, write_index, msgs, r_i>>

\* The memcpy into the slot, its first and its second half.
Copy(p) == /\ Does(p, "copy", "copy2")
           /\ msgs' = [msgs EXCEPT ![w_i[p]].first = p]
           /\ UNCHANGED <<read_index, write_index, w_i, r_i>>

Copy2(p) == /\ Does(p, "copy2", "done")
            /\ msgs' = [msgs EXCEPT ![w_i[p]].second = p]
            /\ w_i' = [w_i EXCEPT ![p] = 0]
            /\ UNCHANGED <<read_index, write_index, r_i>>

Written(p) == /\ step[p] = "done"
              /\ ReadUnlock(p)
              /\ step' = [step EXCEPT ![p] = "none"]
              /\ UNCHANGED <<read_index, write_index, msgs, w_i, r_i>>

---------------------------------------------------------------------------
(* klog_flush_task: flush with the lock, sched_yield, and again. *)

Flush == WriteLock(Flusher) /\ UNCHANGED logVars

FlushEnters == /\ WriteTake(Flusher)
               /\ step' = [step EXCEPT ![Flusher] = "load"]
               /\ UNCHANGED <<read_index, write_index, msgs, w_i, r_i>>

\* Mutant of FlushLoad: a flush that begins at the start of the ring.
FlushFromStart == /\ Does(Flusher, "load", "print")
                  /\ w_i' = [w_i EXCEPT ![Flusher] = write_index]
                  /\ r_i' = 0
                  /\ UNCHANGED <<read_index, write_index, msgs>>

FlushLoad == /\ Does(Flusher, "load", "print")
             /\ w_i' = [w_i EXCEPT ![Flusher] = write_index]
             /\ r_i' = read_index
             /\ UNCHANGED <<read_index, write_index, msgs>>

\* The handler prints msgs[r_i].
PrintNext == /\ Does(Flusher, "print", "print")
         /\ r_i # w_i[Flusher]
         /\ r_i' = Succ(r_i)
         /\ UNCHANGED <<read_index, write_index, msgs, w_i>>

\* atomic_str_64 is a store-exclusive without a load of its own: it is lost
\* when an interrupt was taken since the last load-exclusive.
FlushStore == /\ Does(Flusher, "print", "done")
              /\ r_i = w_i[Flusher]
              /\ read_index' \in {r_i, read_index}
              /\ r_i' = 0
              /\ w_i' = [w_i EXCEPT ![Flusher] = 0]
              /\ UNCHANGED <<write_index, msgs>>

FlushLeaves == /\ step[Flusher] = "done"
               /\ WriteUnlock(Flusher)
               /\ step' = [step EXCEPT ![Flusher] = "none"]
               /\ UNCHANGED <<read_index, write_index, msgs, w_i, r_i>>

FlushOut == WriteLeave(Flusher) /\ UNCHANGED logVars

WriterStep(p) == \/ ReadWaits(p) \/ ReadEnters(p) \/ Load(p) \/ Reserve(p) \/ Retry(p)
                 \/ Copy(p) \/ Copy2(p) \/ Written(p)
FlushStep     == \/ Flush \/ FlushEnters \/ FlushLoad \/ PrintNext \/ FlushStore
                 \/ FlushLeaves \/ FlushOut

Next == FlushStep \/ \E p \in Readers : Printf(p) \/ WriterStep(p)

Spec == Init /\ [][Next]_vars

\* Every task goes on executing, and a compare-exchange that is tried again and
\* again on the right value succeeds.  Nothing is assumed of the store of
\* FlushStore, nor that the lock is fair to readers.
FairSpec == /\ Spec
            /\ WF_vars(FlushStep)
            /\ \A p \in Readers : WF_vars(WriterStep(p)) /\ SF_vars(Reserve(p))

---------------------------------------------------------------------------
(* Properties. *)

Steps == {"none", "load", "cas", "copy", "copy2", "done", "print"}
Half  == Readers \cup {None}

\* Every variable has its type.
TypeOK == /\ waiting \in Int /\ num \in 0 .. MaxReaders
          /\ at \in [Procs -> {"out", "test", "take", "set", "in", "leave"}]
          /\ read_index \in Index /\ write_index \in Index /\ r_i \in Index
          /\ msgs \in [Index -> [first : Half, second : Half]]
          /\ w_i \in [Procs -> Index]
          /\ step \in [Procs -> Steps]
          /\ \A p \in Procs : at[p] = "in" <=> step[p] # "none"

\* Slot i has been reserved and not been let go of.
Unread(i) == IF read_index <= write_index THEN read_index <= i /\ i < write_index
             ELSE read_index <= i \/ i < write_index

Whole(i) == msgs[i].first \in Readers /\ msgs[i].first = msgs[i].second

Copies(p, i) == step[p] \in {"copy", "copy2"} /\ w_i[p] = i

\* Two tasks never copy to the same slot, a task copies to a slot it has
\* reserved, and every other reserved slot holds one whole message.
RingInv ==
  /\ \A p \in Readers : \A i \in Index :
       Copies(p, i) => Unread(i) /\ \A q \in Readers \ {p} : ~Copies(q, i)
  /\ \A i \in Index : Unread(i) /\ (\A p \in Readers : ~Copies(p, i)) =>
       Whole(i)

\* The flush prints slots that were reserved, and whole messages: no half that
\* is still being copied, and nothing the slot held before.
PrintsWhole ==
  step[Flusher] = "print" /\ r_i # w_i[Flusher] =>
    Unread(r_i) /\ Whole(r_i)

\* A task that goes on to reserve a slot has found the log not full: the index
\* it is about to publish is not that of the oldest unread message.
\* klog.c:25: "w_i - first index that is free to write to".
LeavesRoom == \A p \in Readers : step[p] = "cas" /\ StillThere(p) => Succ(w_i[p]) # read_index

\* A reserved message is printed, or has been and is let go of: the flush task
\* gets the lock against tasks that never stop writing.
GetsPrinted ==
  \A i \in Index :
    Unread(i) ~> \/ step[Flusher] = "print" /\ r_i = i /\ r_i # w_i[Flusher]
                 \/ ~Unread(i)

\* Whose message slot i holds or is about to hold.
Sender(i) == IF \E p \in Readers : Copies(p, i) THEN CHOOSE p \in Readers : Copies(p, i)
             ELSE msgs[i].first

Distance(i, j) == (j - i + Slots) % Slots

Abs == INSTANCE LogAbs WITH
         Callers <- Readers, Capacity <- Slots - 1,
         queue <- [k \in 1 .. Distance(read_index, write_index) |->
                     Sender((read_index + k - 1) % Slots)],
         out <- IF step[Flusher] = "print" THEN Distance(read_index, r_i) ELSE 0

\* The log is a bounded queue: in order, nothing dropped before it is printed.
IsQueue == Abs!Spec
=============================================================================
