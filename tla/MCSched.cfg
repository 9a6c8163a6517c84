SPECIFICATION Spec
CONSTANTS
  t1 = t1
  t2 = t2
  t3 = t3
  Task = {Idle, t1, t2, t3}
  Idle = Idle
  RRTicks = 0
  MAX_LOCK_COUNT = 127
  MaxPrio = 2
  LockBound = 2
  WaitUsed = {"WAIT_SEM", "WAIT_SIG"}
SYMMETRY Symmetry
INVARIANTS TypeOK ListsMatchStates HeadRunsIdleLast HighestRuns PendingOnlyWhileLocked NoPanic
PROPERTIES LockHoldsOffInterrupts
