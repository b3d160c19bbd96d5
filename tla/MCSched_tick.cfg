CONSTANTS
  c0 = c0  c1 = c1  c2 = c2  t1 = t1  t2 = t2  t3 = t3
  Core0 = c0
  None = None
  Cores = {c0, c1}
  Tasks = {t1, t2}
  NumQueues = 2
  NumWaitQueues = 1
  Events = {1}
  WaitTimes = {0}
  Elapsed = {1}
  StartPrio <- PrioLowest
  StartState <- StartNormal
  Quanta = 1
  WaitTicks = 1
  ReadyTickRelocks = TRUE
SPECIFICATION FairSpec
PROPERTIES TickReturns
CHECK_DEADLOCK FALSE
