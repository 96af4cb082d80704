SPECIFICATION Spec
CHECK_DEADLOCK FALSE
CONSTANTS
  Top = 12
  Step = 4
  Floor = 4
  AnchorAt = 2
  Conservative = 8
  Sizes = {4, 8, 12}
  M = 16
  Base = 2
  PoolBase = 3
  PoolSize = 1
  ForthPairs = 11
  MaxFree = 1
  ClaimAddrs = {2, 4, 6}
  ClaimSizes = {0, 1, 2, 12}
  Aligns = {2}
  MaxClaims = 2
  MaxWraps = 1
  W = 32
  TbPerMs = 6
  Milli = 4
  Sleeps = {0, 3, 10}
  MaxGap = 3
  MaxElapsed = 16
  Timeouts = {0, 1}
  DefaultTimeout = 2
  StepMs = 1
  MaxSlept = 12
INVARIANT TopIsExact
INVARIANT MemoryRestored
INVARIANT SleptLongEnough
INVARIANT ClaimsDisjoint
INVARIANT ClaimsHaveDram
INVARIANT AvailableNotHeld
INVARIANT CountdownLasts
PROPERTY StartupEnds
PROPERTY ServesMemory
