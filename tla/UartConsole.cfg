SPECIFICATION FairSpec
CONSTANTS
  RingSize = 3
  FifoDepth = 2
  ReadLens = {1, 2}
  MaxKeys = 5
INVARIANTS EveryByteAccounted NoLostEdge
PROPERTIES RingIsQueue EveryByteRead
