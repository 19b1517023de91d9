CONSTANTS
  FifoDepth = 2
  KeyDepth = 1
  FetchMax = 2
  DataMax = 2
  MaxStall = 1
  SpiGap = 4
  Addr = {"x"}
  DataOps <- LoadStore
SPECIFICATION RunSpec
INVARIANTS AnswersMatchRequests SpiIsNotBackpressured
