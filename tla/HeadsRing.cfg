SPECIFICATION FairSpec
CONSTANTS
  N = 3
  A = 1
  CallLevels = {2, 3}
  Async = {2, 3}
  MaxCalls = 2
  MaxFault = 1
  Faults = {"write", "meta", "post"}
INVARIANT TypeOK
INVARIANT AckedIsStored
INVARIANT LastLevelKnown
INVARIANT NoStrayMessages
PROPERTY HeadsStop
