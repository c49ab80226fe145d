SPECIFICATION Spec
CONSTANTS
  NVar = 2
  MaxSize = 3
  Block = 2
  Dcp = TRUE
  Kinds = {"plain", "dcp"}
  MaxCkpt = 3
  MaxEdit = 3
  MaxFault = 0
  MaxCrash = 0
  SlotLeft = {"last", "other"}
  FlagLeft = {TRUE}
CHECK_DEADLOCK FALSE
INVARIANT DoneIsRecovered
