SPECIFICATION Spec
CONSTANTS
  Signal = {1, 2}
  SaMask <- MCSaMask
  Container = {1, 2, 3}
  Masks = {{}, {1}, {2}}
  NoOne = NoOne
  DepthBound = 3
INVARIANTS MaskRestored NothingLeftBehind NoSleeperMissesSignal ContainersSound
CHECK_DEADLOCK FALSE
