SPECIFICATION Spec
CONSTANTS
  NoThread = NoThread
  t1 = t1
  t2 = t2
  t3 = t3
  Thread = {t1, t2, t3}
  Sem <- MCSem
  Interruptible = {"rd"}
  Size = 3
  NPollWaiters = 1
  Modes = {"O_RDONLY", "O_WRONLY"}
  ReadLengths = {2}
  WriteLengths = {3}
  PollFor <- MCPollFor
  PollPosts = 1
SYMMETRY Symmetry
CHECK_DEADLOCK FALSE
INVARIANT PollerWoken
