SPECIFICATION Spec
CONSTANTS
  t1 = t1
  t2 = t2
  t3 = t3
  Thread = {t1, t2, t3}
  NoThread = NoThread
  Sem = {"mutex", "cond", "barrier"}
  BarrierCount = 2
  Interruptible = {"mutex", "cond"}
  NestBound = 2
  ItemBound = 2
SYMMETRY Symmetry
INVARIANT EveryItemWakes
CHECK_DEADLOCK FALSE
