SPECIFICATION FairSpec
CONSTANTS
  N = 2
  A = 2
  CallLevels = {1, 4}
  Async = {4}
  MaxCalls = 3
  MaxFault = 0
  Faults = {}
INVARIANT NoCollision
PROPERTY HeadsStop
