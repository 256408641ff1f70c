SPECIFICATION Spec
CONSTANTS
  Options <- MCOptions
  MaxVos = 2
  MaxFrames = 2
  MaxConfigs = 1
  MaxSettings = 1
INVARIANTS NoDanglingVo
