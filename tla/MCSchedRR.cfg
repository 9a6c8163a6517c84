SPECIFICATION RRSpec
CONSTANTS
  t1 = t1
  t2 = t2
  t3 = t3
  Task = {Idle, t1, t2, t3}
  Idle = Idle
  RRTicks = 2
  MAX_LOCK_COUNT = 127
  MaxPrio = 1
  LockBound = 1
  WaitUsed = {"WAIT_SEM"}
PROPERTY EveryoneRuns
