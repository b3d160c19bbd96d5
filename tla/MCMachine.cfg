CONSTANTS
  QHeads = {q1, q2}
  QEntries = {e1, e2, e3}
  NoEntry = NoEntry
  IrqTasks = {idle, t1, t2}
  Idle = idle
  Boot = boot
  Junk = junk
  MaxFrames = 4
  MaskedRestore = TRUE
  TickAfterStart = TRUE
  LockTasks = {t1, t2, t3}
  SlockTries = 1
  TimedWait = TRUE
  Word = 3
  MaxWait = 4
  Children = {1, 2, 3}
  Tags = {arm, vc}
  MboxDepth = 2
  Offsets = {0, 16, 48}
  Readers = {r1, r2, r3}
  Writers = {w1, w2}
  MaxReaders = 2
  Parts = {"queues", "irq", "slock", "timer", "start", "mbox", "rwlock", "sched"}
SPECIFICATION MachineSpec
INVARIANTS RingLinked VisitsAll RestoresOwn SlockInv AnswerRight Exclusive
PROPERTIES IrqServed FreeLockTaken TimeRight AllStart AWriterGetsIn ReadyRuns TimedWaitEnds
CHECK_DEADLOCK FALSE
