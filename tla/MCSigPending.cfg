SPECIFICATION Spec
CONSTANTS
  Signal = {1, 2}
  SaMask <- MCSaMask
  Container = {1, 2, 3}
  Masks = {{}, {1}, {2}}
  NoOne = NoOne
  DepthBound = 3
INVARIANT OnePending
CHECK_DEADLOCK FALSE
