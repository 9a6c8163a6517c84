SPECIFICATION Spec
CONSTANTS
  t1 = t1
  t2 = t2
  t3 = t3
  s1 = s1
  s2 = s2
  Task = {Idle, t1, t2, t3}
  Idle = Idle
  NULL = NULL
  Sem = {s1}
  RRTicks = 0
  MAX_LOCK_COUNT = 127
  PREALLOCHOLDERS = 1
  NNESTPRIO = 2
  PriorityInheritance = TRUE
  Discipline = TRUE
  EarlyEnds = {}
  MaxPrio = 3
  InitCount = 1
  CountBound = 1
SYMMETRY Symmetry
INVARIANT BoostEnds
CHECK_DEADLOCK FALSE
