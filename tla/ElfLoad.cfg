SPECIFICATION Spec
CONSTANTS
  W = 16
  FLASH_RANGE_START = 13
  Dram = 11
  Load = 4
  MAX_PHNUM = 2
  Slack = 2
  Grain = 2
  Headers <- MCHeaders
  Images <- MCImages
  Vaddrs = {0, 3, 5, 11, 12}
  Offsets = {3, 15}
  Sizes = {0, 1, 4}
  Entries = {2, 11}
  Lens = {4, 7}
CHECK_DEADLOCK FALSE
INVARIANT RejectedLeavesMemory
INVARIANT ImagePlaced
INVARIANT FlashUntouched
INVARIANT HandoffSound
