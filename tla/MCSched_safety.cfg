CONSTANTS
  c0 = c0  c1 = c1  c2 = c2  t1 = t1  t2 = t2  t3 = t3
  Cores = {c0, c1}
  Core0 = c0
  Tasks = {t1, t2, t3}
  None = None
  NumQueues = 2
  NumWaitQueues = 2
  Events = {1, 3}
  WaitTimes = {0, 1}
  Elapsed = {1}
  StartPrio <- PrioSpread
  StartState <- StartNormal
  Quanta = 1
  WaitTicks = 1
  ReadyTickRelocks = FALSE
SPECIFICATION Spec
CONSTRAINT OneOrTwoCores
SYMMETRY LikeTasks
INVARIANTS LockInv OnePlace NoneLost NoPanic PauseDelivered WaitInv
PROPERTIES NoOvertaking Implements WakeOrder
