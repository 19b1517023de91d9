CONSTANTS
  NSeq = 8
  ReclaimWidth = 2
  MaxInFlight = 7
SPECIFICATION FairSpec
INVARIANTS UniqueInFlight AgeIsProgramOrder ListIsInFlight
PROPERTIES AllocAgain
