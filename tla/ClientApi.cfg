SPECIFICATION FairSpec
CONSTANTS
  N = 2
  Valued = {2}
  MaxEvents = 2
  MaxChanges = 1
  MaxSent = 2
  MaxHooks = 1
  MaxSets = 1
INVARIANTS TypeOK RepliesFit QuietIsCurrent HookSettingsApply
PROPERTIES NoSilentLoss WaitReturns HookEnds EventsArrive
