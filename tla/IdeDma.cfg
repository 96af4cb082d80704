SPECIFICATION FairSpec
CONSTANTS
  Blocks = {0, 5}
  MaxCount = 5
  PrdMax = 2
  DrqInDma = FALSE
INVARIANTS ReadCorrect
PROPERTIES DmaStaysInChunk CallReturns
