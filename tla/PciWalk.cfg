SPECIFICATION PciSpec
CONSTANTS
  Sizes <- MCSizes
  Granule <- MCGranule
  ArenaStart <- MCArenaStart
  ArenaEnd <- MCArenaEnd
  Fits = TRUE
  MaxBars = 3
  MaxBus = 3
CHECK_DEADLOCK FALSE
INVARIANTS
  BarsDisjoint
  WindowsRoute
  BusesRoute
