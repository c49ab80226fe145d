SPECIFICATION Spec
CONSTANTS
  NVar = 2
  MaxSize = 3
  Block = 2
  Dcp = TRUE
  Kinds = {"plain", "dcp"}
  MaxCkpt = 2
  MaxEdit = 2
  MaxFault = 1
  MaxCrash = 1
  SlotLeft = {"other"}
  FlagLeft = {TRUE, FALSE}
INVARIANT LayoutSound
INVARIANT CleanIsOnFile
INVARIANT DoneRecoverable
INVARIANT RestoredIsSaved
CHECK_DEADLOCK FALSE
