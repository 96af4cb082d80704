SPECIFICATION ProbeSpec
CONSTANTS
  Top = 48
  Step = 4
  Floor = 5
  AnchorAt = 1
  Conservative = 16
  Sizes = {4, 8, 12, 16, 24, 32, 48}
CHECK_DEADLOCK FALSE
INVARIANT FallbackIsConservative
