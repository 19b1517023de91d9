CONSTANTS
  NSeq = 4
  NumPipes = 2
  MaxInFlight = 4
  Results <- MCResults
  NAddr = 4
  RstAddr = 1
  MaxFetches = 3
  FifoDepth = 3
SPECIFICATION StageSpec
INVARIANTS CommitIsOldest RobHoldsCompleted
PROPERTIES EveryCommits ImplementsStream Delivers
