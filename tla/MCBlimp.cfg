CONSTANTS
  NAddr = 8
  NumAregs = 3
  NumPregs = 6
  NSeq = 8
  MaxFetches = 2
  FifoDepth = 2
  ReclaimWidth = 2
  RstAddr = 0
  Programs <- MCPrograms
SPECIFICATION FairSpec
INVARIANTS NoIssuedIsSquashed RespHasRoom
PROPERTIES ImplementsIsa MeetsAssumptions RetiresForever ImplementsStream
