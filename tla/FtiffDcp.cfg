SPECIFICATION Spec
CONSTANTS
  NVar = 3
  MaxSize = 3
  Block = 2
  Dcp = TRUE
  Kinds = {"dcp"}
  MaxCkpt = 4
  MaxEdit = 3
  MaxFault = 0
  MaxCrash = 0
  SlotLeft = {"last", "other"}
  FlagLeft = {TRUE}
INVARIANT TypeOK
INVARIANT LayoutSound
INVARIANT CleanIsOnFile
INVARIANT DoneRecoverable
CHECK_DEADLOCK FALSE
