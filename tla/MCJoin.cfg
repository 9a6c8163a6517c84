SPECIFICATION Spec
CONSTANTS
  NoThread = NoThread
  t1 = t1
  t2 = t2
  t3 = t3
  Thread = {t1, t2, t3}
  Child = {t3}
  Value = {"value"}
  Canceled = "canceled"
  Sem <- MCSem
  Interruptible <- MCInterruptible
SYMMETRY Symmetry
INVARIANTS JoinGetsValue NoJoinerForgotten JoinInfoReleased
CHECK_DEADLOCK FALSE
