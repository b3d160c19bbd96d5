CONSTANTS
  QHeads = {q1}
  QEntries = {e1}
  NoEntry = NoEntry
  IrqTasks = {idle, t1}
  Idle = idle
  Boot = boot
  Junk = junk
  MaxFrames = 4
  MaskedRestore = FALSE
  TickAfterStart = TRUE
  LockTasks = {t1}
  SlockTries = 1
  TimedWait = TRUE
  Word = 2
  MaxWait = 1
  Children = {1}
  Tags = {arm}
  MboxDepth = 1
  Offsets = {0}
  Readers = {r1}
  Writers = {w1}
  MaxReaders = 1
  Parts = {"irq"}
SPECIFICATION MachineSpec
INVARIANTS RestoresOwn
CHECK_DEADLOCK FALSE
