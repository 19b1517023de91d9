CONSTANTS
  NumInFlight = 2
  MemDepth = 2
  NByte = 4
  Ops <- MCOps
SPECIFICATION FairSpec
INVARIANTS AnswersMatch
PROPERTIES ImplementsMemory Answered
