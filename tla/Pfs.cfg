SPECIFICATION FairSpec
CONSTANTS
  N = 2
  K = 2
  CallLevels = {1, 4}
  MaxCalls = 2
  MaxCrash = 1
  MaxLost = 1
  MaxFault = 0
  Faults = {}
  UninitRes = {1}
  Short = {}
  KeepLast = TRUE
INVARIANT AckedIsStored
PROPERTY Durable
INVARIANT RestartFlag
INVARIANT KeptAtEnd
PROPERTY CallReturns
