SPECIFICATION PciSpec
CONSTANTS
  Sizes <- MCLargeSizes
  Granule <- MCGranule
  ArenaStart <- MCArenaStart
  ArenaEnd <- MCArenaEnd
  Fits = FALSE
  MaxBars = 3
  MaxBus = 3
CHECK_DEADLOCK FALSE
INVARIANT ArenasApart
