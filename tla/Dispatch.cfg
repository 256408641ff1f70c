SPECIFICATION FairSpec
CONSTANTS
  t1 = t1
  t2 = t2
  shared = shared
  Threads = {t1, t2}
  Handles = {shared}
  HandleOf <- MCHandleOf
  Core = Core
  NoOne = NoOne
  MaxCalls = 2
INVARIANTS TypeOK SuspendStopsCore OneUser ResumeIsLegal
PROPERTIES CallsReturn CoreGoesOn ImplementsAccess
