SPECIFICATION FairSpec
CONSTANTS
  A = 2
  MaxNum = 2
  MaxSends = 3
  MaxFault = 1
INVARIANT TypeOK
INVARIANT NoLostUpdate
INVARIANT TableMatches
INVARIANT BufferKept
INVARIANT IdsAccounted
INVARIANT AnswerIsTrue

PROPERTY ServiceKept
