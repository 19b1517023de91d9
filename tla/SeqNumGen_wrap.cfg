CONSTANTS
  NSeq = 8
  ReclaimWidth = 2
  MaxInFlight = 16
SPECIFICATION Spec
INVARIANTS UniqueInFlight
