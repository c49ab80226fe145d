SPECIFICATION Spec
CONSTANTS
  N = 2
  K = 1
  CallLevels = {1}
  MaxCalls = 2
  MaxCrash = 0
  MaxLost = 0
  MaxFault = 1
  Faults = {"write"}
  UninitRes = {1}
  Short = {}
  KeepLast = FALSE
INVARIANT RestartFlag
