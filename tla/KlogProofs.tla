----------------------------- MODULE KlogProofs -----------------------------
(***************************************************************************)
(* Proofs about RwLock and Klog: the writer is alone, the semaphore keeps  *)
(* count, and the ring holds whole messages, with the test for a full log  *)
(* that wraps or as long as no full log ends at the last slot.             *)
(***************************************************************************)
EXTENDS Klog, FiniteSetTheorems, SequenceTheorems, TLAPS

---------------------------------------------------------------------------
(* The lock, for any readers and writers. *)

Inside == {r \in Readers : at[r] = "in"}
WriterIn == \E w \in Writers : at[w] = "in"

LockTypes == /\ waiting \in Int /\ num \in 0 .. MaxReaders
             /\ at \in [Procs -> {"out", "test", "take", "set", "in", "leave"}]

LockGood == LockTypes /\ Exclusive /\ UnitsKept

\* The semaphore is at its maximum only if nobody is inside, and a unit is
\* left only if no writer is.
LEMMA UnitsFree ==
  ASSUME LockGood
  PROVE  /\ IsFiniteSet(Inside) /\ Cardinality(Inside) \in Nat
         /\ num > 0 => ~WriterIn /\ num = MaxReaders - Cardinality(Inside)
         /\ num = MaxReaders => \A p \in Procs : at[p] # "in"
<1>1. IsFiniteSet(Inside) /\ Cardinality(Inside) \in Nat
  <2>1. Inside \subseteq Readers \cup Writers
    BY DEF Inside
  <2> QED BY <2>1, ProcsAssumption, FS_Subset, FS_CardinalityType
<1>2. num > 0 => ~WriterIn /\ num = MaxReaders - Cardinality(Inside)
  BY DEF LockGood, UnitsKept, Inside, WriterIn
<1>3. ASSUME num = MaxReaders PROVE \A p \in Procs : at[p] # "in"
  <2>1. ~WriterIn /\ Cardinality(Inside) = 0
    BY <1>1, <1>2, <1>3, UnitsAssumption
  <2>2. Inside = {}
    BY <1>1, <2>1, FS_EmptySet
  <2> QED BY <2>1, <2>2 DEF Inside, WriterIn, Procs
<1> QED BY <1>1, <1>2, <1>3

\* The moves that neither enter nor leave.
LEMMA LockOutside ==
  ASSUME LockGood, NEW p \in Procs, NEW from, NEW to, Moves(p, from, to),
         from # "in", to \in {"out", "test", "take", "set", "leave"},
         waiting' \in Int, num' = num
  PROVE  LockGood'
<1>1. \A q \in Procs : at'[q] = "in" <=> at[q] = "in"
  BY DEF LockGood, LockTypes, Moves
<1>2. LockTypes' /\ Exclusive'
  BY <1>1 DEF LockGood, LockTypes, Exclusive, Moves, Procs
<1>3. Inside' = Inside /\ (WriterIn' <=> WriterIn)
  BY <1>1 DEF Inside, WriterIn, Procs
<1> QED BY <1>2, <1>3 DEF LockGood, UnitsKept, Inside, WriterIn

LEMMA ReaderEnters ==
  ASSUME LockGood, NEW p \in Readers, ReadTake(p)
  PROVE  LockGood'
<1>1. /\ p \in Procs /\ at[p] = "take" /\ at' = [at EXCEPT ![p] = "in"]
      /\ num > 0 /\ num' = num - 1 /\ waiting' = waiting
  BY DEF ReadTake, Moves, Procs
<1>2. /\ IsFiniteSet(Inside) /\ Cardinality(Inside) \in Nat
      /\ ~WriterIn /\ num = MaxReaders - Cardinality(Inside)
  BY <1>1, UnitsFree
<1>3. Inside' = Inside \cup {p} /\ p \notin Inside
  BY <1>1 DEF Inside, LockGood, LockTypes, Procs
<1>4. Cardinality(Inside') = Cardinality(Inside) + 1
  BY <1>2, <1>3, FS_AddElement
<1>5. ~WriterIn'
  BY <1>1, <1>2, ProcsAssumption DEF WriterIn, LockGood, LockTypes, Procs
<1>6. LockTypes'
  BY <1>1, UnitsAssumption DEF LockGood, LockTypes
<1>7. num' = MaxReaders - Cardinality(Inside')
  BY <1>1, <1>2, <1>4, UnitsAssumption
<1> QED BY <1>5, <1>6, <1>7 DEF LockGood, Exclusive, UnitsKept, WriterIn, Inside

LEMMA ReaderLeaves ==
  ASSUME LockGood, NEW p \in Readers, ReadUnlock(p)
  PROVE  LockGood'
<1>1. /\ p \in Procs /\ at[p] = "in" /\ at' = [at EXCEPT ![p] = "out"]
      /\ num' = num + 1 /\ waiting' = waiting /\ num \in 0 .. MaxReaders
  BY DEF ReadUnlock, Moves, Procs, LockGood, LockTypes
<1>2. IsFiniteSet(Inside) /\ Cardinality(Inside) \in Nat /\ p \in Inside
  BY <1>1, UnitsFree DEF Inside
<1>3. ~WriterIn
  BY <1>1, ProcsAssumption DEF LockGood, Exclusive, WriterIn, Procs
<1>4. num = MaxReaders - Cardinality(Inside)
  BY <1>3 DEF LockGood, UnitsKept, WriterIn, Inside
<1>5. Inside' = Inside \ {p}
  BY <1>1 DEF Inside, LockGood, LockTypes, Procs
<1>6. Cardinality(Inside') = Cardinality(Inside) - 1 /\ Cardinality(Inside') \in Nat
  BY <1>2, <1>5, FS_RemoveElement, FS_CardinalityType
<1>7. ~WriterIn'
  BY <1>1, <1>3, ProcsAssumption DEF WriterIn, LockGood, LockTypes, Procs
<1>8. num' = MaxReaders - Cardinality(Inside') /\ num' \in 0 .. MaxReaders
  BY <1>1, <1>2, <1>4, <1>6, UnitsAssumption
<1>9. LockTypes'
  BY <1>1, <1>8 DEF LockGood, LockTypes
<1> QED BY <1>7, <1>8, <1>9 DEF LockGood, Exclusive, UnitsKept, WriterIn, Inside

LEMMA WriterEnters ==
  ASSUME LockGood, NEW p \in Writers, WriteTake(p)
  PROVE  LockGood'
<1>1. /\ p \in Procs /\ at' = [at EXCEPT ![p] = "in"] /\ num = MaxReaders
      /\ num' = 0 /\ waiting' = waiting
  BY DEF WriteTake, Available, Moves, Procs
<1>2. \A q \in Procs : at[q] # "in"
  BY <1>1, UnitsFree
<1>3. LockTypes'
  BY <1>1, UnitsAssumption DEF LockGood, LockTypes
<1>4. Exclusive' /\ WriterIn'
  BY <1>1, <1>2 DEF LockGood, LockTypes, Exclusive, WriterIn, Procs
<1> QED BY <1>1, <1>3, <1>4 DEF LockGood, UnitsKept, WriterIn

LEMMA WriterLeaves ==
  ASSUME LockGood, NEW p \in Writers, WriteUnlock(p)
  PROVE  LockGood'
<1>1. /\ p \in Procs /\ at[p] = "in" /\ at' = [at EXCEPT ![p] = "leave"]
      /\ num' = MaxReaders /\ waiting' = waiting
  BY DEF WriteUnlock, Moves, Procs
<1>2. \A q \in Procs : at'[q] # "in"
  BY <1>1 DEF LockGood, LockTypes, Exclusive
<1>3. LockTypes'
  BY <1>1, UnitsAssumption DEF LockGood, LockTypes
<1>4. Inside' = {} /\ ~WriterIn' /\ Exclusive'
  BY <1>2 DEF Inside, WriterIn, Exclusive, Procs
<1>5. Cardinality(Inside') = 0
  BY <1>4, FS_EmptySet
<1>6. num' = MaxReaders - Cardinality(Inside')
  BY <1>1, <1>5, UnitsAssumption
<1> QED BY <1>3, <1>4, <1>6 DEF LockGood, UnitsKept, WriterIn, Inside

LEMMA LockStarts == LockInit => LockGood
<1> SUFFICES ASSUME LockInit PROVE LockGood
  OBVIOUS
<1>1. \A p \in Procs : at[p] = "out"
  BY DEF LockInit
<1>2. LockTypes
  BY UnitsAssumption DEF LockInit, LockTypes
<1>3. Inside = {} /\ ~WriterIn /\ Exclusive
  BY <1>1 DEF Inside, WriterIn, Exclusive, Procs
<1>4. num = MaxReaders - Cardinality(Inside)
  BY <1>3, FS_EmptySet, UnitsAssumption DEF LockInit
<1> QED BY <1>2, <1>3, <1>4 DEF LockGood, UnitsKept, WriterIn, Inside

LEMMA LockInitial == Init => LockGood
BY LockStarts DEF Init

LEMMA LockStep == LockGood /\ [Next]_vars => LockGood'
<1> SUFFICES ASSUME LockGood, [Next]_vars PROVE LockGood'
  OBVIOUS
<1> USE FlusherAssumption
<1>0. ASSUME UNCHANGED lockVars PROVE LockGood'
  BY <1>0 DEF lockVars, LockGood, LockTypes, Exclusive, UnitsKept
<1>1. ASSUME NEW p \in Readers, Printf(p) \/ ReadWaits(p) PROVE LockGood'
  BY <1>1, LockOutside DEF Printf, ReadWaits, ReadLock, ReadTest, Procs, LockGood, LockTypes
<1>2. ASSUME NEW p \in Readers, ReadEnters(p) PROVE LockGood'
  BY <1>2, ReaderEnters DEF ReadEnters
<1>3. ASSUME NEW p \in Readers, Load(p) \/ Reserve(p) \/ Retry(p) \/ Copy(p) \/ Copy2(p)
      PROVE  LockGood'
  BY <1>0, <1>3 DEF Load, Reserve, Retry, Copy, Copy2, Does
<1>4. ASSUME NEW p \in Readers, Written(p) PROVE LockGood'
  BY <1>4, ReaderLeaves DEF Written
<1>5. CASE Flush \/ FlushOut
  <2>1. Flusher \in Procs /\ waiting \in Int
    BY DEF Procs, LockGood, LockTypes
  <2>2. waiting' \in Int /\ num' = num
    BY <1>5, <2>1 DEF Flush, FlushOut, WriteLock, WriteLeave
  <2>3. Moves(Flusher, "out", "set") \/ Moves(Flusher, "leave", "out")
    BY <1>5 DEF Flush, FlushOut, WriteLock, WriteLeave
  <2> QED BY <2>1, <2>2, <2>3, LockOutside
<1>6. CASE FlushEnters
  BY <1>6, WriterEnters DEF FlushEnters
<1>7. CASE FlushLoad \/ PrintNext \/ FlushStore
  BY <1>0, <1>7 DEF FlushLoad, PrintNext, FlushStore, Does
<1>8. CASE FlushLeaves
  BY <1>8, WriterLeaves DEF FlushLeaves
<1>9. CASE UNCHANGED vars
  BY <1>0, <1>9 DEF vars
<1> QED BY <1>1, <1>2, <1>3, <1>4, <1>5, <1>6, <1>7, <1>8, <1>9
        DEF Next, FlushStep, WriterStep

\* A step of the lock by itself.
LEMMA LockAlone == LockGood /\ [LockNext]_lockVars => LockGood'
<1> SUFFICES ASSUME LockGood, [LockNext]_lockVars PROVE LockGood'
  OBVIOUS
<1>1. CASE UNCHANGED lockVars
  BY <1>1 DEF lockVars, LockGood, LockTypes, Exclusive, UnitsKept
<1>2. ASSUME NEW p \in Readers, ReadLock(p) \/ ReadTest(p) PROVE LockGood'
  BY <1>2, LockOutside DEF ReadLock, ReadTest, Procs, LockGood, LockTypes
<1>3. ASSUME NEW p \in Writers, WriteLock(p) \/ WriteLeave(p) PROVE LockGood'
  <2>1. /\ p \in Procs /\ waiting' \in Int /\ num' = num
        /\ Moves(p, "out", "set") \/ Moves(p, "leave", "out")
    BY <1>3 DEF WriteLock, WriteLeave, Procs, LockGood, LockTypes
  <2> QED BY <2>1, LockOutside
<1> QED BY <1>1, <1>2, <1>3, ReaderEnters, ReaderLeaves, WriterEnters, WriterLeaves
        DEF LockNext, ReaderGoesOn, WriterGoesOn

\* A writer in the lock is alone, whoever else reads or writes (rwlock_read_lock
\* and rwlock_write_lock, with any numbers of readers, writers and units).
THEOREM WriterAlone == LockSpec => []Exclusive
<1>1. LockGood => Exclusive
  BY DEF LockGood
<1> QED BY <1>1, LockStarts, LockAlone, PTL DEF LockSpec

\* The units of the semaphore are all accounted for, so that they all come back
\* when those inside have left.
THEOREM NoUnitLost == LockSpec => []UnitsKept
<1>1. LockGood => UnitsKept
  BY DEF LockGood
<1> QED BY <1>1, LockStarts, LockAlone, PTL DEF LockSpec

---------------------------------------------------------------------------
(* The ring. *)

\* The types of the log; with LockTypes, all of TypeOK.
LogTypes == /\ read_index \in Index /\ write_index \in Index /\ r_i \in Index
            /\ msgs \in [Index -> [first : Half, second : Half]]
            /\ w_i \in [Procs -> Index]
            /\ step \in [Procs -> Steps]
            /\ \A p \in Procs : at[p] = "in" <=> step[p] # "none"

LEMMA IndexFacts ==
  0 \in Index /\ \A i \in Index : i \in Int /\ Succ(i) \in Index
BY SlotsAssumption DEF Index, Succ

LEMMA ProcFacts == Flusher \in Procs /\ Readers \subseteq Procs /\ Flusher \notin Readers
BY FlusherAssumption, ProcsAssumption DEF Procs

LEMMA TypesInitial == Init => LogTypes
BY IndexFacts, FlusherAssumption DEF Init, LockInit, LogTypes, Half, Steps, Procs

LEMMA TypesStep == LockTypes /\ LogTypes /\ [Next]_vars => LogTypes'
<1> SUFFICES ASSUME LockTypes, LogTypes, [Next]_vars PROVE LogTypes'
  OBVIOUS
<1> USE IndexFacts, ProcFacts
<1>1. ASSUME NEW p \in Readers, Printf(p) \/ ReadWaits(p) PROVE LogTypes'
  BY <1>1 DEF Printf, ReadWaits, ReadLock, ReadTest, Moves, logVars, LockTypes, LogTypes
<1>2. ASSUME NEW p \in Readers, ReadEnters(p) PROVE LogTypes'
  BY <1>2 DEF ReadEnters, ReadTake, Moves, Steps, LockTypes, LogTypes
<1>3. ASSUME NEW p \in Readers, Load(p) \/ Reserve(p) \/ Retry(p) PROVE LogTypes'
  BY <1>3 DEF Load, Reserve, Retry, Does, Steps, lockVars, LogTypes
<1>4. ASSUME NEW p \in Readers, Copy(p) \/ Copy2(p) PROVE LogTypes'
  <2>1. p \in Half /\ w_i[p] \in Index
    BY DEF Half, LogTypes
  <2>2. msgs' \in [Index -> [first : Half, second : Half]]
    BY <1>4, <2>1 DEF Copy, Copy2, LogTypes
  <2> QED BY <1>4, <2>2 DEF Copy, Copy2, Does, Steps, lockVars, LogTypes
<1>5. ASSUME NEW p \in Readers, Written(p) PROVE LogTypes'
  BY <1>5 DEF Written, ReadUnlock, Moves, Steps, LockTypes, LogTypes
<1>6. CASE Flush \/ FlushOut
  BY <1>6 DEF Flush, FlushOut, WriteLock, WriteLeave, Moves, logVars, LockTypes, LogTypes
<1>7. CASE FlushEnters \/ FlushLeaves
  BY <1>7 DEF FlushEnters, FlushLeaves, WriteTake, WriteUnlock, Moves, Steps, LockTypes, LogTypes
<1>8. CASE FlushLoad \/ PrintNext \/ FlushStore
  <2>1. CASE FlushLoad
    BY <2>1 DEF FlushLoad, Does, Steps, lockVars, LogTypes
  <2>2. CASE PrintNext
    BY <2>2 DEF PrintNext, Does, Steps, lockVars, LogTypes
  <2>3. CASE FlushStore
    BY <2>3 DEF FlushStore, Does, Steps, lockVars, LogTypes
  <2> QED BY <1>8, <2>1, <2>2, <2>3
<1>9. CASE UNCHANGED vars
  BY <1>9 DEF vars, lockVars, logVars, LogTypes
<1> QED BY <1>1, <1>2, <1>3, <1>4, <1>5, <1>6, <1>7, <1>8, <1>9
        DEF Next, FlushStep, WriterStep

\* Type correctness.
THEOREM LogTypeCorrect == Spec => []TypeOK
<1>1. Init => LockGood /\ LogTypes
  BY LockInitial, TypesInitial
<1>2. LockGood /\ LogTypes /\ [Next]_vars => (LockGood /\ LogTypes)'
  BY LockStep, TypesStep DEF LockGood
<1>3. LockGood /\ LogTypes => TypeOK
  BY DEF LockGood, LockTypes, LogTypes, TypeOK
<1> QED BY <1>1, <1>2, <1>3, PTL DEF Spec

\* What each process in the lock may rely on: a task at the compare-exchange
\* that the log was not full, half way through its copy that the first half is
\* still there, the flush that it is within the reserved slots.
TaskFits(p) == /\ step[p] \in Steps \ {"print"}
               /\ step[p] = "cas" => Succ(w_i[p]) # read_index
               /\ step[p] = "copy2" => msgs[w_i[p]].first = p
FlushFits   == /\ step[Flusher] \in {"none", "load", "print", "done"}
               /\ step[Flusher] = "print" =>
                    /\ w_i[Flusher] = write_index
                    /\ r_i = write_index \/ Unread(r_i)

RingGood == RingInv /\ FlushFits /\ \A p \in Readers : TaskFits(p)

\* The next slot comes into the window, and the oldest is its first.
LEMMA WindowFacts ==
  ASSUME LogTypes
  PROVE  /\ ~Unread(write_index)
         /\ read_index = write_index \/ Unread(read_index)
         /\ \A i \in Index : Unread(i) => Succ(i) = write_index \/ Unread(Succ(i))
BY SlotsAssumption DEF LogTypes, Unread, Index, Succ

LEMMA WindowGrows ==
  ASSUME LogTypes, Succ(write_index) # read_index,
         write_index' = Succ(write_index), read_index' = read_index
  PROVE  \A i \in Index : Unread(i)' <=> Unread(i) \/ i = write_index
BY SlotsAssumption DEF LogTypes, Unread, Index, Succ

LEMMA RingInitial == Init => RingGood
<1> SUFFICES ASSUME Init PROVE RingGood
  OBVIOUS
<1>1. \A i \in Index : ~Unread(i)
  BY DEF Init, Unread, Index
<1>2. \A p \in Procs : step[p] = "none"
  BY DEF Init
<1> QED BY <1>1, <1>2, ProcFacts DEF RingGood, RingInv, FlushFits, TaskFits, Copies, Steps

\* A step that touches neither the ring nor a copy keeps the ring.
LEMMA RingKept ==
  ASSUME RingInv, UNCHANGED <<read_index, write_index, msgs>>,
         \A p \in Readers, i \in Index : Copies(p, i)' <=> Copies(p, i)
  PROVE  RingInv'
BY DEF RingInv, Unread, Whole

\* A task that comes to a full log, one whose next write index is the read index,
\* finds it full.  With WRITE_FULL as it is, no other load is wrong than that of
\* a full log that ends at the last slot.
FindsFull == \A p \in Readers : Load(p) /\ read_index = Succ(write_index) =>
                                WriteFull(read_index, write_index)

\* The steps of a task: the flush is outside.
LEMMA RingTask ==
  ASSUME LockGood, LogTypes, RingGood, FindsFull, NEW p \in Readers, WriterStep(p)
  PROVE  RingGood'
<1> USE ProcFacts
<1>0. CASE ReadWaits(p)
  BY <1>0 DEF ReadWaits, logVars, RingGood, RingInv, FlushFits, TaskFits, Copies, Unread, Whole
<1>1. CASE ReadEnters(p)
  <2>1. /\ step' = [step EXCEPT ![p] = "load"] /\ step[p] = "none"
        /\ UNCHANGED <<read_index, write_index, msgs, w_i, r_i>>
    BY <1>1 DEF ReadEnters, ReadTake, Moves, LogTypes
  <2>2. RingInv'
    BY <2>1, RingKept DEF RingGood, Copies, LogTypes
  <2>3. FlushFits' /\ \A q \in Readers : TaskFits(q)'
    BY <2>1 DEF RingGood, FlushFits, TaskFits, Unread, LogTypes, Steps
  <2> QED BY <2>2, <2>3 DEF RingGood
<1>2. CASE ~ReadWaits(p) /\ ~ReadEnters(p)
  <2>1. at[p] = "in"
    BY <1>2 DEF WriterStep, Load, Reserve, Retry, Copy, Copy2, Written, ReadUnlock, Moves, Does
  <2>2. step[Flusher] = "none"
    BY <2>1, FlusherAssumption DEF LockGood, Exclusive, LogTypes
  <2>3. /\ \E l \in Steps \ {"print"} : step' = [step EXCEPT ![p] = l]
        /\ read_index' = read_index
        /\ \A q \in Readers \ {p} : w_i'[q] = w_i[q] /\ step'[q] = step[q]
    BY <1>2 DEF WriterStep, Load, Reserve, Retry, Copy, Copy2, Written, Does, Steps, LogTypes
  <2>4. FlushFits'
    BY <2>2, <2>3 DEF FlushFits, LogTypes
  <2>5. \A q \in Readers \ {p} : \A i \in Index : Copies(q, i)' <=> Copies(q, i)
    BY <2>3 DEF Copies
  <2>6. p \in Procs /\ w_i[p] \in Index /\ write_index \in Index
    BY DEF LogTypes
  <2>7. CASE Load(p) \/ Retry(p) \/ Written(p)
    <3>1. /\ UNCHANGED <<read_index, write_index, msgs>>
          /\ step[p] \in {"load", "cas", "done"} /\ step'[p] \in {"load", "cas", "done", "none"}
      BY <2>6, <2>7 DEF Load, Retry, Written, Does, LogTypes
    <3>2. RingInv'
      BY <2>5, <3>1, RingKept DEF RingGood, Copies
    <3>3. TaskFits(p)'
      <4>1. step'[p] = "cas" => Succ(w_i'[p]) # read_index'
        BY <2>6, <2>7 DEF Load, Retry, Written, Does, FindsFull, LogTypes
      <4> QED BY <3>1, <4>1 DEF TaskFits, Steps
    <3>4. \A q \in Readers \ {p} : TaskFits(q)'
      BY <2>3, <3>1 DEF RingGood, TaskFits
    <3> QED BY <2>4, <3>2, <3>3, <3>4 DEF RingGood
  <2>8. CASE Reserve(p)
    <3>1. /\ step[p] = "cas" /\ step'[p] = "copy" /\ w_i[p] = write_index
          /\ write_index' = Succ(write_index) /\ UNCHANGED <<read_index, msgs, w_i, r_i>>
      BY <2>6, <2>8 DEF Reserve, StillThere, Does, LogTypes
    <3>2. Succ(write_index) # read_index
      BY <3>1 DEF RingGood, TaskFits
    <3>3. \A i \in Index : Unread(i)' <=> Unread(i) \/ i = write_index
      BY <3>1, <3>2, WindowGrows
    <3>4. ~Unread(write_index) /\ \A q \in Readers : ~Copies(q, write_index)
      BY <2>6, WindowFacts DEF RingGood, RingInv
    <3>5. \A i \in Index : (Copies(p, i)' <=> i = write_index) /\ ~Copies(p, i)
      BY <3>1 DEF Copies
    <3>6. ASSUME NEW q \in Readers, NEW i \in Index, Copies(q, i)'
          PROVE  Unread(i)' /\ \A r \in Readers \ {q} : ~Copies(r, i)'
      BY <2>5, <3>3, <3>4, <3>5, <3>6 DEF RingGood, RingInv
    <3>7. ASSUME NEW i \in Index, Unread(i)', \A q \in Readers : ~Copies(q, i)'
          PROVE  Whole(i)'
      <4>1. i # write_index /\ Unread(i) /\ \A q \in Readers : ~Copies(q, i)
        BY <2>5, <3>3, <3>5, <3>7
      <4> QED BY <3>1, <4>1 DEF RingGood, RingInv, Whole
    <3>8. \A q \in Readers : TaskFits(q)'
      BY <2>3, <3>1 DEF RingGood, TaskFits, Steps
    <3> QED BY <2>4, <3>6, <3>7, <3>8 DEF RingGood, RingInv
  <2>9. CASE Copy(p) \/ Copy2(p)
    <3> DEFINE w == w_i[p]
    <3>1. /\ UNCHANGED <<read_index, write_index>> /\ Copies(p, w)
          /\ \A i \in Index \ {w} : msgs'[i] = msgs[i]
      BY <2>6, <2>9 DEF Copy, Copy2, Does, Copies, LogTypes
    <3>2. \A q \in Readers \ {p} : ~Copies(q, w)
      BY <2>6, <3>1 DEF RingGood, RingInv
    <3>3. \A i \in Index : Unread(i)' <=> Unread(i)
      BY <3>1 DEF Unread
    <3>4. \A i \in Index : Copies(p, i)' => i = w
      BY <2>6, <2>9 DEF Copy, Copy2, Does, Copies, LogTypes
    <3>5. ASSUME NEW q \in Readers, NEW i \in Index, Copies(q, i)'
          PROVE  Unread(i)' /\ \A r \in Readers \ {q} : ~Copies(r, i)'
      <4>1. CASE q = p
        BY <2>5, <2>6, <3>1, <3>2, <3>3, <3>4, <3>5, <4>1 DEF RingGood, RingInv
      <4>2. CASE q # p
        <5>1. Copies(q, i) /\ i # w
          BY <2>5, <3>2, <3>5, <4>2
        <5> QED BY <2>5, <3>3, <3>4, <4>2, <5>1 DEF RingGood, RingInv
      <4> QED BY <4>1, <4>2
    <3>6. ASSUME NEW i \in Index, Unread(i)', \A q \in Readers : ~Copies(q, i)'
          PROVE  Whole(i)'
      <4>1. CASE i # w
        <5>1. ~Copies(p, i)
          BY <4>1 DEF Copies
        <5>2. \A q \in Readers : ~Copies(q, i)
          BY <2>5, <3>6, <5>1
        <5> QED BY <3>1, <3>3, <3>6, <4>1, <5>2 DEF RingGood, RingInv, Whole
      <4>2. CASE i = w
        <5>1. Copy2(p)
          BY <2>6, <2>9, <3>6, <4>2 DEF Copy, Does, Copies, LogTypes
        <5>2. msgs[w].first = p /\ msgs[w] \in [first : Half, second : Half]
          BY <2>6, <5>1 DEF Copy2, Does, RingGood, TaskFits, LogTypes
        <5>3. msgs'[w].first = p /\ msgs'[w].second = p
          BY <2>6, <5>1, <5>2 DEF Copy2, LogTypes
        <5> QED BY <4>2, <5>3 DEF Whole
      <4> QED BY <4>1, <4>2
    <3>7. TaskFits(p)'
      <4>1. step'[p] = "copy2" => msgs'[w_i'[p]].first = p
        BY <2>6, <2>9 DEF Copy, Copy2, Does, LogTypes
      <4>2. step'[p] \in {"copy2", "done"}
        BY <2>6, <2>9 DEF Copy, Copy2, Does, LogTypes
      <4> QED BY <4>1, <4>2 DEF TaskFits, Steps
    <3>8. ASSUME NEW q \in Readers \ {p} PROVE TaskFits(q)'
      <4>1. step[q] = "copy2" => w_i[q] \in Index \ {w}
        BY <3>2 DEF Copies, LogTypes
      <4> QED BY <2>3, <3>1, <4>1 DEF RingGood, TaskFits
    <3> QED BY <2>4, <3>5, <3>6, <3>7, <3>8 DEF RingGood, RingInv
  <2> QED BY <1>2, <2>7, <2>8, <2>9 DEF WriterStep
<1> QED BY <1>0, <1>1, <1>2

\* The steps of the flush: inside, it is alone.
LEMMA RingFlush ==
  ASSUME LockGood, LogTypes, RingGood, FlushStep
  PROVE  RingGood'
<1> USE ProcFacts
<1>0. CASE Flush \/ FlushOut
  BY <1>0 DEF Flush, FlushOut, logVars, RingGood, RingInv, FlushFits, TaskFits, Copies, Unread, Whole
<1>1. ASSUME \A p \in Readers : step[p] = "none", \A p \in Readers : step'[p] = step[p],
             UNCHANGED <<write_index, msgs>>, read_index' \in {read_index, write_index}
      PROVE  RingInv' /\ \A p \in Readers : TaskFits(p)'
  <2>1. \A p \in Readers, i \in Index : ~Copies(p, i) /\ ~Copies(p, i)'
    BY <1>1 DEF Copies
  <2>2. \A p \in Readers : TaskFits(p)'
    BY <1>1 DEF TaskFits, Steps
  <2>3. CASE read_index' = read_index
    BY <1>1, <2>1, <2>2, <2>3, RingKept DEF RingGood
  <2>4. CASE read_index' = write_index
    <3>1. \A i \in Index : ~Unread(i)'
      BY <1>1, <2>4 DEF LogTypes, Unread, Index
    <3> QED BY <2>1, <2>2, <3>1 DEF RingInv
  <2> QED BY <1>1, <2>3, <2>4
<1>2. CASE FlushEnters \/ FlushLeaves \/ FlushLoad \/ PrintNext \/ FlushStore
  <2>1. at[Flusher] = "in" \/ at'[Flusher] = "in"
    BY <1>2 DEF FlushEnters, FlushLeaves, FlushLoad, PrintNext, FlushStore, Does, WriteTake,
                WriteUnlock, Moves, LockGood, LockTypes
  <2>2. \A p \in Readers : step[p] = "none"
    <3>1. CASE at[Flusher] = "in"
      BY <3>1, FlusherAssumption DEF LockGood, Exclusive, LogTypes
    <3>2. CASE FlushEnters
      BY <3>2, UnitsFree DEF FlushEnters, WriteTake, Available, LogTypes
    <3>3. FlushEnters \/ at[Flusher] = "in"
      BY <1>2 DEF FlushLeaves, FlushLoad, PrintNext, FlushStore, Does, WriteUnlock, Moves
    <3> QED BY <3>1, <3>2, <3>3
  <2>3. /\ \A p \in Readers : step'[p] = step[p]
        /\ UNCHANGED <<write_index, msgs>>
    BY <1>2 DEF FlushEnters, FlushLeaves, FlushLoad, PrintNext, FlushStore, Does, LogTypes
  <2>4. read_index' \in {read_index, write_index}
    <3>1. CASE FlushStore
      BY <3>1 DEF FlushStore, Does, RingGood, FlushFits
    <3>2. CASE ~FlushStore
      BY <1>2, <3>2 DEF FlushEnters, FlushLeaves, FlushLoad, PrintNext
    <3> QED BY <3>1, <3>2
  <2>5. FlushFits'
    <3>1. CASE FlushEnters \/ FlushLeaves \/ FlushStore
      <4>1. step'[Flusher] \in {"load", "none", "done"}
        BY <3>1 DEF FlushEnters, FlushLeaves, FlushStore, Does, LogTypes
      <4> QED BY <4>1 DEF FlushFits
    <3>2. CASE FlushLoad
      <4>1. /\ step'[Flusher] = "print" /\ w_i'[Flusher] = write_index /\ r_i' = read_index
            /\ UNCHANGED <<read_index, write_index>>
        BY <3>2 DEF FlushLoad, Does, LogTypes
      <4>2. read_index = write_index \/ Unread(read_index)
        BY WindowFacts
      <4> QED BY <4>1, <4>2 DEF FlushFits, Unread
    <3>3. CASE PrintNext
      <4>1. /\ step'[Flusher] = "print" /\ w_i' = w_i /\ r_i' = Succ(r_i) /\ r_i \in Index
            /\ w_i[Flusher] = write_index /\ Unread(r_i)
            /\ UNCHANGED <<read_index, write_index>>
        BY <3>3 DEF PrintNext, Does, RingGood, FlushFits, LogTypes
      <4>2. Succ(r_i) = write_index \/ Unread(Succ(r_i))
        BY <4>1, WindowFacts
      <4> QED BY <4>1, <4>2 DEF FlushFits, Unread
    <3> QED BY <1>2, <3>1, <3>2, <3>3
  <2> QED BY <1>1, <2>2, <2>3, <2>4, <2>5 DEF RingGood
<1> QED BY <1>0, <1>2 DEF FlushStep

LEMMA RingStep ==
  ASSUME LockGood, LogTypes, RingGood, [Next]_vars, [FindsFull]_vars
  PROVE  RingGood'
<1>1. ASSUME NEW p \in Readers, Printf(p) PROVE RingGood'
  BY <1>1 DEF Printf, logVars, RingGood, RingInv, FlushFits, TaskFits, Copies, Unread, Whole
<1>2. CASE UNCHANGED vars
  BY <1>2 DEF vars, logVars, RingGood, RingInv, FlushFits, TaskFits, Copies, Unread, Whole
<1>3. CASE FindsFull
  BY <1>1, <1>2, <1>3, RingTask, RingFlush DEF Next
<1> QED BY <1>2, <1>3

\* What the flush prints next was reserved and is whole.
LEMMA RingPrints == LockGood /\ LogTypes /\ RingGood => PrintsWhole
<1> SUFFICES ASSUME LockGood, LogTypes, RingGood, step[Flusher] = "print", r_i # w_i[Flusher]
             PROVE  Unread(r_i) /\ Whole(r_i)
  BY DEF PrintsWhole
<1>1. Unread(r_i) /\ r_i \in Index
  BY DEF RingGood, FlushFits, LogTypes
<1>2. \A p \in Readers : step[p] = "none"
  BY ProcFacts, FlusherAssumption DEF LockGood, Exclusive, LogTypes
<1>3. \A p \in Readers : ~Copies(p, r_i)
  BY <1>2 DEF Copies
<1> QED BY <1>1, <1>3 DEF RingGood, RingInv

\* The invariant of the ring holds as long as full logs are found full.
LEMMA RingInvariance ==
  Spec /\ [][FindsFull]_vars => [](LockGood /\ LogTypes /\ RingGood)
<1>1. Init => LockGood /\ LogTypes /\ RingGood
  BY LockInitial, TypesInitial, RingInitial
<1>2. LockGood /\ LogTypes /\ RingGood /\ [Next]_vars /\ [FindsFull]_vars
        => (LockGood /\ LogTypes /\ RingGood)'
  BY LockStep, TypesStep, RingStep DEF LockGood
<1> QED BY <1>1, <1>2, PTL DEF Spec

\* A test that wraps finds every full log.
LEMMA WrapFinds == FullTestWraps => FindsFull
BY DEF FindsFull, WriteFull

\* So the invariant of the ring always holds when the test for a full log wraps.
LEMMA RingWraps == FullTestWraps => (Spec => [](LockGood /\ LogTypes /\ RingGood))
<1> SUFFICES ASSUME FullTestWraps PROVE Spec => [](LockGood /\ LogTypes /\ RingGood)
  OBVIOUS
<1>1. [Next]_vars => [FindsFull]_vars
  BY WrapFinds
<1> QED BY <1>1, RingInvariance, PTL DEF Spec

\* If the full test wraps: no two tasks write to one slot, every reserved slot
\* that is not being written holds a whole message, and a task that goes on to
\* reserve one has found the log not full (reserve in klog.c).
THEOREM RingSafe == FullTestWraps => (Spec => [](RingInv /\ LeavesRoom))
<1>1. LockGood /\ LogTypes /\ RingGood => RingInv /\ LeavesRoom
  BY DEF RingGood, TaskFits, LeavesRoom
<1> QED BY <1>1, RingWraps, PTL

\* If the full test wraps: the flush of klog.c prints slots that were reserved,
\* and of those only whole messages.
THEOREM PrintsSafe == FullTestWraps => (Spec => []PrintsWhole)
<1> QED BY RingPrints, RingWraps, PTL

---------------------------------------------------------------------------
(* The log implements LogAbs: it is a bounded queue. *)

Queue == [k \in 1 .. Distance(read_index, write_index) |->
            Sender((read_index + k - 1) % Slots)]
Out   == IF step[Flusher] = "print" THEN Distance(read_index, r_i) ELSE 0

\* Remainders of what is below twice the size of the ring.
LEMMA WrapFacts ==
  ASSUME NEW x \in Nat, x < 2 * Slots
  PROVE  x % Slots = IF x < Slots THEN x ELSE x - Slots
<1>1. Slots \in Nat /\ Slots > 1
  BY SlotsAssumption
<1>2. CASE x < Slots
  BY <1>1, <1>2
<1>3. CASE x >= Slots
  <2>1. x - Slots \in Nat /\ x - Slots < Slots /\ x = (x - Slots) + Slots
    BY <1>1, <1>3
  <2>2. (x - Slots) % Slots = x - Slots
    BY <1>1, <2>1
  <2>3. x % Slots = (x - Slots) % Slots
    BY <1>1, <2>1
  <2> QED BY <1>1, <1>3, <2>2, <2>3
<1> QED BY <1>1, <1>2, <1>3

\* How far one index is behind another.
LEMMA DistanceFacts ==
  ASSUME NEW i \in Index, NEW j \in Index
  PROVE  /\ Distance(i, j) = IF i <= j THEN j - i ELSE j - i + Slots
         /\ Distance(i, j) \in Nat /\ Distance(i, j) < Slots
<1>1. /\ Slots \in Nat /\ j - i + Slots \in Nat /\ j - i + Slots < 2 * Slots
      /\ i \in Nat /\ j \in Nat /\ i < Slots /\ j < Slots
  BY SlotsAssumption DEF Index
<1>2. Distance(i, j) = IF j - i + Slots < Slots THEN j - i + Slots ELSE j - i
  BY <1>1, WrapFacts DEF Distance
<1> QED BY <1>1, <1>2

\* The k-th slot from an index.
LEMMA SlotFacts ==
  ASSUME NEW i \in Index, NEW j \in Index, NEW k \in 1 .. Distance(i, j)
  PROVE  /\ (i + k - 1) % Slots = IF i + k - 1 < Slots THEN i + k - 1 ELSE i + k - 1 - Slots
         /\ (i + k - 1) % Slots \in Index
<1>1. /\ Slots \in Nat /\ i \in Nat /\ i < Slots /\ k \in Nat /\ k >= 1 /\ k < Slots
  <2>1. PICK n \in Nat : n = Distance(i, j) /\ n < Slots
    BY DistanceFacts
  <2>2. Slots \in Nat /\ i \in Nat /\ i < Slots
    BY SlotsAssumption DEF Index
  <2> QED BY <2>1, <2>2
<1>2. PICK x \in Nat : x = i + k - 1 /\ x < 2 * Slots
  <2>1. i + k - 1 \in Nat /\ i + k - 1 < 2 * Slots
    BY <1>1
  <2> QED BY <2>1
<1>3. x % Slots = IF x < Slots THEN x ELSE x - Slots
  BY <1>2, WrapFacts
<1> QED BY <1>1, <1>2, <1>3 DEF Index

\* The slots of the queue are the reserved ones.
LEMMA QueueUnread ==
  ASSUME LogTypes, NEW k \in 1 .. Distance(read_index, write_index)
  PROVE  (read_index + k - 1) % Slots \in Index /\ Unread((read_index + k - 1) % Slots)
<1>1. /\ read_index \in Index /\ write_index \in Index
      /\ Slots \in Nat /\ read_index \in Nat /\ read_index < Slots
      /\ write_index \in Nat /\ write_index < Slots
  BY SlotsAssumption DEF LogTypes, Index
<1>2. k \in Nat /\ k >= 1 /\ k <= IF read_index <= write_index THEN write_index - read_index
                                  ELSE write_index - read_index + Slots
  BY <1>1, DistanceFacts
<1> DEFINE i == (read_index + k - 1) % Slots
<1>3. /\ i = IF read_index + k - 1 < Slots THEN read_index + k - 1 ELSE read_index + k - 1 - Slots
      /\ i \in Index
  BY <1>1, SlotFacts
<1> HIDE DEF i
<1>4. Unread(i)
  BY <1>1, <1>2, <1>3 DEF Unread
<1> QED BY <1>3, <1>4 DEF i

\* Who sent the message of a slot.
LEMMA SenderFacts ==
  ASSUME LogTypes, RingInv, NEW i \in Index
  PROVE  /\ \A p \in Readers : Copies(p, i) => Sender(i) = p
         /\ (\A p \in Readers : ~Copies(p, i)) => Sender(i) = msgs[i].first
         /\ Sender(i) \in Half
<1>1. \A p \in Readers : Copies(p, i) => \A q \in Readers \ {p} : ~Copies(q, i)
  BY DEF RingInv
<1>2. ASSUME NEW p \in Readers, Copies(p, i) PROVE Sender(i) = p
  <2> DEFINE c == CHOOSE q \in Readers : Copies(q, i)
  <2>1. c \in Readers /\ Copies(c, i) /\ Sender(i) = c
    BY <1>2 DEF Sender
  <2> QED BY <1>1, <1>2, <2>1
<1>3. (\A p \in Readers : ~Copies(p, i)) => Sender(i) = msgs[i].first
  BY DEF Sender
<1>4. msgs[i].first \in Half
  BY DEF LogTypes
<1> QED BY <1>2, <1>3, <1>4 DEF Half

\* The queue is a sequence as long as the indices are apart.
LEMMA QueueFacts ==
  ASSUME LogTypes, RingInv
  PROVE  /\ Queue \in Seq(Half) /\ Len(Queue) = Distance(read_index, write_index)
         /\ Len(Queue) \in Nat /\ Len(Queue) < Slots
<1> DEFINE n == Distance(read_index, write_index)
<1>1. n \in Nat /\ n < Slots
  BY DistanceFacts DEF LogTypes
<1>2. \A k \in 1 .. n : Sender((read_index + k - 1) % Slots) \in Half
  BY QueueUnread, SenderFacts
<1> HIDE DEF n
<1>3. Queue = [k \in 1 .. n |-> Sender((read_index + k - 1) % Slots)]
  BY DEF Queue, n
<1>4. Queue \in Seq(Half) /\ Len(Queue) = n
  BY <1>1, <1>2, <1>3
<1> QED BY <1>1, <1>4 DEF n

\* The queue changes only with the indices and the senders of reserved slots.
LEMMA QueueStays ==
  ASSUME LogTypes, UNCHANGED <<read_index, write_index>>,
         \A i \in Index : Unread(i) => Sender(i)' = Sender(i)
  PROVE  Queue' = Queue
<1>1. \A k \in 1 .. Distance(read_index, write_index) :
        Sender((read_index + k - 1) % Slots)' = Sender((read_index + k - 1) % Slots)
  BY QueueUnread
<1>2. Distance(read_index, write_index)' = Distance(read_index, write_index)
  BY DEF Distance
<1> QED BY <1>1, <1>2 DEF Queue

\* Neither copies nor messages change: nor do the senders.
LEMMA SendersStay ==
  ASSUME msgs' = msgs, \A p \in Readers, i \in Index : Copies(p, i)' <=> Copies(p, i)
  PROVE  \A i \in Index : Sender(i)' = Sender(i)
<1> SUFFICES ASSUME NEW i \in Index PROVE Sender(i)' = Sender(i)
  OBVIOUS
<1>1. \A p \in Readers : Copies(p, i)' = Copies(p, i)
  BY DEF Copies
<1>2. (CHOOSE p \in Readers : Copies(p, i)') = (CHOOSE p \in Readers : Copies(p, i))
  BY <1>1
<1> QED BY <1>1, <1>2 DEF Sender

\* The steps that the queue does not see.
LEMMA QuietSteps ==
  ASSUME LogTypes, UNCHANGED <<read_index, write_index, msgs, r_i>>,
         \A p \in Readers, i \in Index : Copies(p, i)' <=> Copies(p, i),
         step'[Flusher] = "print" <=> step[Flusher] = "print"
  PROVE  Queue' = Queue /\ Out' = Out
<1>1. Queue' = Queue
  BY SendersStay, QueueStays
<1> QED BY <1>1 DEF Out, Distance

\* reserve appends to the queue.
LEMMA ReserveAccepts ==
  ASSUME LockGood, LogTypes, RingGood, NEW p \in Readers, Reserve(p), RingInv', LogTypes'
  PROVE  Abs!Accept(p)
<1> USE ProcFacts
<1>1. /\ step[p] = "cas" /\ step' = [step EXCEPT ![p] = "copy"] /\ w_i[p] = write_index
      /\ write_index' = Succ(write_index) /\ UNCHANGED <<read_index, msgs, w_i, r_i>>
      /\ p \in Procs /\ at[p] = "in" /\ write_index \in Index /\ read_index \in Index
  BY DEF Reserve, StillThere, Does, LogTypes
<1>2. step[Flusher] = "none" /\ step'[Flusher] = "none"
  <2>1. step[Flusher] = "none"
    BY <1>1, FlusherAssumption DEF LockGood, Exclusive, LogTypes
  <2> QED BY <1>1, <2>1 DEF LogTypes
<1>3. Out = 0 /\ Out' = 0
  BY <1>2 DEF Out
<1>4. Succ(write_index) # read_index
  BY <1>1 DEF RingGood, TaskFits
<1>5. PICK n \in Nat, u \in Index, w \in Index :
        u = read_index /\ w = write_index /\ n = Distance(u, w)
  BY <1>1, DistanceFacts
<1>6. /\ Queue \in Seq(Half) /\ Len(Queue) = n
      /\ \A k \in 1 .. n : Queue[k] = Sender((u + k - 1) % Slots)
  BY <1>5, QueueFacts DEF RingGood, Queue
<1>7. Distance(read_index, write_index)' = n + 1 /\ n < Slots - 1
  <2>1. Succ(write_index) \in Index
    BY <1>1, IndexFacts
  <2>2. Distance(read_index, write_index)' = Distance(read_index, Succ(write_index))
    BY <1>1 DEF Distance
  <2>3. Distance(read_index, Succ(write_index)) =
          IF read_index <= Succ(write_index) THEN Succ(write_index) - read_index
          ELSE Succ(write_index) - read_index + Slots
    BY <1>1, <2>1, DistanceFacts
  <2>4. n = IF read_index <= write_index THEN write_index - read_index
            ELSE write_index - read_index + Slots
    BY <1>1, <1>5, DistanceFacts
  <2> QED BY <1>1, <1>4, <2>2, <2>3, <2>4, SlotsAssumption DEF Succ, Index
\* The slot of the new message, and the slots of the others.
<1>8. (u + (n + 1) - 1) % Slots = w
  <2>1. n = IF u <= w THEN w - u ELSE w - u + Slots
    BY <1>5, DistanceFacts
  <2>2. PICK x \in Nat : x = u + (n + 1) - 1 /\ x < 2 * Slots
    <3>1. u + (n + 1) - 1 \in Nat /\ u + (n + 1) - 1 < 2 * Slots
      BY <1>7, SlotsAssumption DEF Index
    <3> QED BY <3>1
  <2>3. x % Slots = IF x < Slots THEN x ELSE x - Slots
    BY <2>2, WrapFacts
  <2> QED BY <2>1, <2>2, <2>3, SlotsAssumption DEF Index
<1>9. Sender(w)' = p
  <2>1. Copies(p, w)'
    BY <1>1, <1>5 DEF Copies, LogTypes
  <2>2. \A q \in Readers \ {p} : ~Copies(q, w)
    BY <1>5, WindowFacts DEF RingGood, RingInv
  <2>3. \A q \in Readers \ {p} : ~Copies(q, w)'
    BY <1>1, <2>2 DEF Copies, LogTypes
  <2> QED BY <2>1, <2>3 DEF Sender
<1>10. ASSUME NEW i \in Index, Unread(i) PROVE Sender(i)' = Sender(i)
  <2>1. i # w
    BY <1>5, <1>10, WindowFacts
  <2>2. \A q \in Readers : Copies(q, i)' = Copies(q, i)
    BY <1>1, <1>5, <2>1 DEF Copies, LogTypes
  <2>3. (CHOOSE q \in Readers : Copies(q, i)') = (CHOOSE q \in Readers : Copies(q, i))
    BY <2>2
  <2> QED BY <1>1, <2>2, <2>3 DEF Sender
<1>11. Queue' = [k \in 1 .. n + 1 |-> Sender((u + k - 1) % Slots)']
  BY <1>1, <1>5, <1>7 DEF Queue, Sender
<1>12. Queue' = Append(Queue, p)
  <2>1. \A k \in 1 .. n : Sender((u + k - 1) % Slots)' = Queue[k]
    BY <1>5, <1>6, <1>10, QueueUnread
  <2>2. \A k \in 1 .. n + 1 : k = n + 1 => Sender((u + k - 1) % Slots)' = p
    BY <1>8, <1>9
  <2>3. \A k \in 1 .. n + 1 : Queue'[k] = IF k = n + 1 THEN p ELSE Queue[k]
    <3>1. \A k \in 1 .. n + 1 : k = n + 1 \/ k \in 1 .. n
      OBVIOUS
    <3> QED BY <1>11, <2>1, <2>2, <3>1
  <2>4. p \in Half
    BY DEF Half
  <2>5. Queue' \in Seq(Half) /\ Len(Queue') = n + 1
    <3>1. \A k \in 1 .. n + 1 : Queue'[k] \in Half
      BY <1>6, <2>3, <2>4, ElementOfSeq
    <3> QED BY <1>11, <3>1
  <2>6. /\ Append(Queue, p) \in Seq(Half) /\ Len(Append(Queue, p)) = n + 1
        /\ \A k \in 1 .. n : Append(Queue, p)[k] = Queue[k]
        /\ Append(Queue, p)[n + 1] = p
    BY <1>6, <2>4, AppendProperties
  <2>7. \A k \in 1 .. n + 1 : Queue'[k] = Append(Queue, p)[k]
    BY <2>3, <2>6
  <2> QED BY <2>5, <2>6, <2>7, SeqEqual
<1> QED BY <1>3, <1>6, <1>7, <1>12 DEF Abs!Accept, Queue, Out

\* The two halves of a copy leave the sender of the slot what it was.
LEMMA CopyQuiet ==
  ASSUME LogTypes, RingGood, NEW p \in Readers, Copy(p) \/ Copy2(p)
  PROVE  Queue' = Queue /\ Out' = Out
<1> USE ProcFacts
<1>0. PICK w \in Index : w = w_i[p]
  BY DEF LogTypes
<1>1. /\ UNCHANGED <<read_index, write_index, r_i>> /\ Copies(p, w)
      /\ \A i \in Index \ {w} : msgs'[i] = msgs[i]
      /\ step'[Flusher] = step[Flusher]
  BY <1>0 DEF Copy, Copy2, Does, Copies, LogTypes
<1>2. \A q \in Readers \ {p}, i \in Index : Copies(q, i)' = Copies(q, i)
  BY DEF Copy, Copy2, Does, Copies, LogTypes
<1>3. ASSUME NEW i \in Index \ {w} PROVE Sender(i)' = Sender(i)
  <2>1. \A q \in Readers : Copies(q, i)' = Copies(q, i)
    <3>1. ~Copies(p, i) /\ ~Copies(p, i)'
      BY <1>0, <1>1 DEF Copy, Copy2, Does, Copies, LogTypes
    <3>2. \A q \in Readers : q = p \/ q \in Readers \ {p}
      OBVIOUS
    <3>3. Copies(p, i)' = Copies(p, i)
      BY <3>1 DEF Copies
    <3> QED BY <1>2, <3>2, <3>3
  <2>2. (CHOOSE q \in Readers : Copies(q, i)') = (CHOOSE q \in Readers : Copies(q, i))
    BY <2>1
  <2> QED BY <1>1, <2>1, <2>2 DEF Sender
<1>4. Sender(w) = p
  BY <1>1, SenderFacts DEF RingGood
<1>5. \A q \in Readers \ {p} : ~Copies(q, w)'
  BY <1>1, <1>2 DEF RingGood, RingInv
<1>6. Sender(w)' = p
  <2>1. CASE Copy(p)
    <3>1. Copies(p, w)'
      BY <1>0, <2>1 DEF Copy, Does, Copies, LogTypes
    <3> QED BY <1>5, <3>1 DEF Sender
  <2>2. CASE Copy2(p)
    <3>1. ~Copies(p, w)'
      BY <1>0, <2>2 DEF Copy2, Does, Copies, LogTypes
    <3>2. msgs[w].first = p /\ msgs[w] \in [first : Half, second : Half]
      BY <1>0, <1>1, <2>2 DEF Copy2, Does, RingGood, TaskFits, LogTypes
    <3>3. msgs'[w].first = p
      BY <1>0, <1>1, <2>2, <3>2 DEF Copy2, LogTypes
    <3> QED BY <1>5, <3>1, <3>3 DEF Sender
  <2> QED BY <2>1, <2>2
<1>7. \A i \in Index : Sender(i)' = Sender(i)
  BY <1>3, <1>4, <1>6
<1>8. Queue' = Queue
  BY <1>1, <1>7, QueueStays
<1> QED BY <1>1, <1>8 DEF Out, Distance

\* The flush prints the queue from its head on, and empties it or not.
LEMMA FlushImplements ==
  ASSUME LockGood, LogTypes, RingGood, FlushLoad \/ PrintNext \/ FlushStore
  PROVE  [Abs!Next]_<<Queue, Out>>
<1> USE ProcFacts
<1>1. \A p \in Readers, i \in Index : Copies(p, i)' <=> Copies(p, i)
  BY DEF FlushLoad, PrintNext, FlushStore, Does, Copies, LogTypes
<1>2. msgs' = msgs /\ write_index' = write_index /\ read_index \in Index /\ write_index \in Index
  BY DEF FlushLoad, PrintNext, FlushStore, LogTypes
<1>3. read_index' = read_index => Queue' = Queue
  BY <1>1, <1>2, SendersStay, QueueStays
<1>4. Len(Queue) = Distance(read_index, write_index)
  BY QueueFacts DEF RingGood
<1>5. CASE FlushLoad
  <2>1. /\ step[Flusher] = "load" /\ step'[Flusher] = "print" /\ r_i' = read_index
        /\ read_index' = read_index
    BY <1>5 DEF FlushLoad, Does, LogTypes
  <2>2. Out = 0 /\ Out' = Distance(read_index, read_index)
    BY <2>1 DEF Out, Distance
  <2>3. Distance(read_index, read_index) = 0
    BY <1>2, DistanceFacts DEF Index
  <2> QED BY <1>3, <2>1, <2>2, <2>3
<1>6. CASE PrintNext
  <2>1. /\ step[Flusher] = "print" /\ step'[Flusher] = "print" /\ r_i \in Index
        /\ r_i # w_i[Flusher] /\ w_i[Flusher] = write_index /\ Unread(r_i)
        /\ r_i' = Succ(r_i) /\ read_index' = read_index
    BY <1>6 DEF PrintNext, Does, RingGood, FlushFits, LogTypes
  <2>2. Out = Distance(read_index, r_i) /\ Out' = Distance(read_index, Succ(r_i))
    BY <2>1 DEF Out, Distance
  <2>3. /\ Distance(read_index, r_i) < Distance(read_index, write_index)
        /\ Distance(read_index, Succ(r_i)) = Distance(read_index, r_i) + 1
    <3> DEFINE d(j) == IF read_index <= j THEN j - read_index ELSE j - read_index + Slots
    <3>1. Succ(r_i) \in Index
      BY <2>1, IndexFacts
    <3>2. \A j \in Index : Distance(read_index, j) = d(j)
      BY <1>2, DistanceFacts
    <3>3. d(r_i) < d(write_index) /\ d(Succ(r_i)) = d(r_i) + 1
      BY <1>2, <2>1, SlotsAssumption DEF Unread, Succ, Index
    <3> QED BY <1>2, <2>1, <3>1, <3>2, <3>3
  <2>4. Abs!PrintNext
    BY <1>3, <1>4, <2>1, <2>2, <2>3 DEF Abs!PrintNext, Queue, Out
  <2> QED BY <2>4 DEF Abs!Next
<1>7. CASE FlushStore
  <2>1. /\ step[Flusher] = "print" /\ step'[Flusher] = "done" /\ r_i = write_index
        /\ (read_index' = write_index \/ read_index' = read_index)
    BY <1>7 DEF FlushStore, Does, RingGood, FlushFits, LogTypes
  <2>2. Out = Len(Queue) /\ Out' = 0
    BY <1>4, <2>1 DEF Out
  <2>3. Queue' = <<>> \/ Queue' = Queue
    <3>1. CASE read_index' = read_index
      BY <1>3, <3>1
    <3>2. CASE read_index' = write_index
      <4>1. Distance(read_index, write_index)' = Distance(write_index, write_index)
        BY <1>2, <3>2 DEF Distance
      <4>2. Distance(write_index, write_index) = 0
        BY <1>2, DistanceFacts DEF Index
      <4>3. Queue' = [k \in 1 .. 0 |-> Sender((read_index + k - 1) % Slots)']
        BY <4>1, <4>2 DEF Queue
      <4>4. Queue' = <<>>
        BY <4>3
      <4> QED BY <4>4
    <3> QED BY <2>1, <3>1, <3>2
  <2>4. Abs!Flushed
    BY <2>2, <2>3 DEF Abs!Flushed, Queue, Out
  <2> QED BY <2>4 DEF Abs!Next
<1> QED BY <1>5, <1>6, <1>7

\* Every step of the log is one of the queue, or none.
LEMMA LogSteps ==
  ASSUME LockGood, LogTypes, RingGood, LogTypes', RingGood', [Next]_vars
  PROVE  [Abs!Next]_<<Queue, Out>>
<1> USE ProcFacts
<1>1. ASSUME NEW p \in Readers, Printf(p) \/ ReadWaits(p) PROVE Queue' = Queue /\ Out' = Out
  BY <1>1, QuietSteps DEF Printf, ReadWaits, logVars, Copies
<1>2. ASSUME NEW p \in Readers, ReadEnters(p) \/ Load(p) \/ Retry(p) \/ Written(p)
      PROVE  Queue' = Queue /\ Out' = Out
  <2>1. /\ UNCHANGED <<read_index, write_index, msgs, r_i>> /\ step'[Flusher] = step[Flusher]
    BY <1>2 DEF ReadEnters, Load, Retry, Written, Does, LogTypes
  <2>2. /\ step[p] \in {"none", "load", "cas", "done"} /\ step'[p] \in {"none", "load", "cas", "done"}
        /\ \A q \in Readers \ {p} : step'[q] = step[q] /\ w_i'[q] = w_i[q]
    BY <1>2 DEF ReadEnters, ReadTake, Moves, Load, Retry, Written, Does, LogTypes
  <2>3. \A q \in Readers, i \in Index : Copies(q, i)' <=> Copies(q, i)
    BY <2>2 DEF Copies
  <2> QED BY <2>1, <2>3, QuietSteps
<1>3. ASSUME NEW p \in Readers, Reserve(p) PROVE Abs!Next
  <2>1. Abs!Accept(p)
    BY <1>3, ReserveAccepts DEF RingGood
  <2> QED BY <2>1 DEF Abs!Next
<1>4. ASSUME NEW p \in Readers, Copy(p) \/ Copy2(p) PROVE Queue' = Queue /\ Out' = Out
  BY <1>4, CopyQuiet
<1>5. CASE Flush \/ FlushOut
  BY <1>5, QuietSteps DEF Flush, FlushOut, logVars, Copies
<1>6. CASE FlushEnters \/ FlushLeaves
  <2>1. /\ UNCHANGED <<read_index, write_index, msgs, r_i, w_i>>
        /\ step[Flusher] # "print" /\ step'[Flusher] # "print"
        /\ \A q \in Readers : step'[q] = step[q]
    BY <1>6 DEF FlushEnters, WriteTake, Moves, FlushLeaves, LogTypes
  <2>2. \A q \in Readers, i \in Index : Copies(q, i)' <=> Copies(q, i)
    BY <2>1 DEF Copies
  <2> QED BY <2>1, <2>2, QuietSteps
<1>7. CASE FlushLoad \/ PrintNext \/ FlushStore
  BY <1>7, FlushImplements
<1>8. CASE UNCHANGED vars
  BY <1>8, QuietSteps DEF vars, logVars, Copies
<1> QED BY <1>1, <1>2, <1>3, <1>4, <1>5, <1>6, <1>7, <1>8 DEF Next, FlushStep, WriterStep

\* The log is a bounded queue as long as full logs are found full.
LEMMA QueueFollows == Spec /\ [][FindsFull]_vars => IsQueue
<1>1. Init => Abs!Init
  <2> SUFFICES ASSUME Init PROVE Queue = <<>> /\ Out = 0
    BY DEF Abs!Init, Queue, Out
  <2>1. read_index = 0 /\ write_index = 0 /\ step[Flusher] = "none"
    BY ProcFacts DEF Init
  <2>2. Distance(read_index, write_index) = 0
    BY <2>1, IndexFacts, DistanceFacts
  <2>3. Queue = [k \in 1 .. 0 |-> Sender((read_index + k - 1) % Slots)]
    BY <2>2 DEF Queue
  <2> QED BY <2>1, <2>3 DEF Out
<1> DEFINE Inv == LockGood /\ LogTypes /\ RingGood
<1>2. Inv /\ Inv' /\ [Next]_vars => [Abs!Next]_<<Queue, Out>>
  BY LogSteps
<1>3. Spec /\ [][FindsFull]_vars => []Inv
  BY RingInvariance
<1> QED BY <1>1, <1>2, <1>3, PTL DEF Spec, IsQueue, Abs!Spec, Abs!vars, Queue, Out

\* If the full test wraps, the kernel log is a bounded queue: messages are
\* printed in the order of the successful reserves, and none is dropped unprinted.
THEOREM LogImplements == FullTestWraps => (Spec => IsQueue)
<1> SUFFICES ASSUME FullTestWraps PROVE Spec => IsQueue
  OBVIOUS
<1>1. [Next]_vars => [FindsFull]_vars
  BY WrapFinds
<1> QED BY <1>1, QueueFollows, PTL DEF Spec

\* No task comes to a full log that ends at the last slot.
NeverFullAtEnd == \A p \in Readers : Load(p) => ~ (read_index = 0 /\ write_index = Slots - 1)

\* The log as it is, with WRITE_FULL of klog.c:17: the ring and what is printed
\* are right, and the log is a bounded queue, until a task comes to a full log
\* that ends at the last slot.  That test is the only thing wrong with the log.
THEOREM WrongOnlyAtEnd ==
  Spec /\ [][NeverFullAtEnd]_vars => [](RingInv /\ LeavesRoom /\ PrintsWhole) /\ IsQueue
<1>1. TypeOK /\ NeverFullAtEnd => FindsFull
  <2> SUFFICES ASSUME TypeOK, NEW p \in Readers, Load(p), read_index = Succ(write_index),
                      ~ (read_index = 0 /\ write_index = Slots - 1)
               PROVE  WriteFull(read_index, write_index)
    BY DEF NeverFullAtEnd, FindsFull
  <2>1. write_index # Slots - 1 /\ read_index = write_index + 1
    BY DEF Succ
  <2> QED BY <2>1 DEF WriteFull
<1>2. TypeOK /\ [NeverFullAtEnd]_vars => [FindsFull]_vars
  BY <1>1
<1>3. LockGood /\ LogTypes /\ RingGood => RingInv /\ LeavesRoom /\ PrintsWhole
  BY RingPrints DEF RingGood, TaskFits, LeavesRoom
<1>4. Spec /\ [][NeverFullAtEnd]_vars => [][FindsFull]_vars
  BY <1>2, LogTypeCorrect, PTL
<1> QED BY <1>3, <1>4, RingInvariance, QueueFollows, PTL
=============================================================================
