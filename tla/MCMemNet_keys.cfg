CONSTANTS
  FifoDepth = 2
  KeyDepth = 1
  FetchMax = 1
  DataMax = 2
  MaxStall = 1
  SpiGap = 8
  Addr = {"x"}
  DataOps <- LoadStore
SPECIFICATION Spec
PROPERTY KeyPerRead
