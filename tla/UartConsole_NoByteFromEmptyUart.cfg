SPECIFICATION Spec
CONSTANTS
  RingSize = 3
  FifoDepth = 2
  ReadLens = {1, 2}
  MaxKeys = 2
INVARIANT NoByteFromEmptyUart
