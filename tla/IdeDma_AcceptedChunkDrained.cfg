SPECIFICATION Spec
CONSTANTS
  Blocks = {0, 5}
  MaxCount = 3
  PrdMax = 2
  DrqInDma = TRUE
PROPERTY AcceptedChunkDrained
