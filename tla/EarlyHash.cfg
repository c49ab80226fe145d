SPECIFICATION RestartSpec
CONSTANTS
  N = 2
  Var = {x, y}
  Formats = {"ftiff"}
  CallLevels = {1}
  Async = {}
  Computes = TRUE
  MaxCalls = 1
  MaxFault = 0
  Faults = {}
  UninitRes = {1}
  MaxCrash = 1
  MaxLost = 0
PROPERTY NewestRestored
