CONSTANTS
  NumAregs = 3
  NumPregs = 5
  MaxIssued = 4
SPECIFICATION FairSpec
INVARIANTS Partition TableIsProgramOrder PendingIsExact NoWriteAfterFree
PROPERTIES AllocAgain
