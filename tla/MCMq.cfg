SPECIFICATION Spec
CONSTANTS
  t1 = t1
  t2 = t2
  t3 = t3
  m1 = m1
  m2 = m2
  m3 = m3
  q1 = q1
  Task = {Idle, t1, t2, t3}
  Idle = Idle
  NULL = NULL
  Queue = {q1}
  Fixed = {m1}
  Irq = {m2}
  Dyn = {m3}
  MaxMsgs = 1
  MsgPrio = {0, 1}
  MaxPrio = 2
  RRTicks = 0
  MAX_LOCK_COUNT = 127
SYMMETRY Symmetry
INVARIANTS WaitCountsExact NoLostWakeup MessagesConserved OldestOfHighest
CHECK_DEADLOCK FALSE
