SPECIFICATION Spec
CONSTANTS
  t1 = t1
  t2 = t2
  t3 = t3
  s1 = s1
  s2 = s2
  Task = {Idle, t1, t2, t3}
  Idle = Idle
  NULL = NULL
  Sem = {s1, s2}
  RRTicks = 0
  MAX_LOCK_COUNT = 127
  PREALLOCHOLDERS = 0
  NNESTPRIO = 0
  PriorityInheritance = FALSE
  Discipline = FALSE
  EarlyEnds = {"timeout", "irq", "kill"}
  MaxPrio = 2
  InitCount = 1
  CountBound = 1
SYMMETRY Symmetry
INVARIANTS SchedulerIntact NoStaleTimeout
PROPERTIES BestWaiterFirst ImplementsCountingSem
