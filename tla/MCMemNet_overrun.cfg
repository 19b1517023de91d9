CONSTANTS
  FifoDepth = 4
  KeyDepth = 1
  FetchMax = 8
  DataMax = 9
  MaxStall = 1
  SpiGap = 8
  Addr = {"x"}
  DataOps <- Loads
SPECIFICATION LoadSpec
INVARIANT NoWordIsLost
