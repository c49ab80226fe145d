SPECIFICATION FairSpec
CONSTANTS
  A = 2
  MaxNum = 1
  MaxSends = 1
  MaxFault = 0
INVARIANT ServedBeforeEnd
