SPECIFICATION RestartSpec
CONSTANTS
  N = 2
  Var = {x, y}
  Formats = {"posix", "ftiff"}
  CallLevels = {1, 2, 4}
  Async = {4}
  Computes = FALSE
  MaxCalls = 3
  MaxFault = 1
  Faults = {"open", "write", "post"}
  UninitRes = {1}
  MaxCrash = 2
  MaxLost = 1
INVARIANT TypeOK
INVARIANT CommittedWhole
INVARIANT FlagSet
INVARIANT OneAnswer
INVARIANT Agreed
INVARIANT RestoredTogether
PROPERTY NewestRestored
PROPERTY DoneIsStored
SYMMETRY VarSymmetry
