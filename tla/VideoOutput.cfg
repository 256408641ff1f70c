SPECIFICATION FairSpec
CONSTANTS
  Options <- MCOptions
  MaxVos = 2
  MaxFrames = 3
  MaxConfigs = 2
  MaxSettings = 1
INVARIANTS TypeOK GoneIsUnused
PROPERTIES RenderedAsConfigured ShownInOrder FlipReturns QueuedIsShown UninitReturns
