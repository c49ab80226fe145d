SPECIFICATION Spec
CONSTANTS
  N = 3
  K = 1
  CallLevels = {2, 3}
  MaxCalls = 2
  MaxCrash = 2
  MaxLost = 3
  MaxFault = 1
  Faults = {"write", "post"}
  UninitRes = {1}
  Short <- ShortTwo
  KeepLast = FALSE
INVARIANT TypeOK
INVARIANT LevelOrder
INVARIANT AckedIsStored
INVARIANT RestoredTogether
PROPERTY Durable
