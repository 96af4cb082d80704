SPECIFICATION FairSpec
CONSTANTS
  DecReload = 1
  TickMod = 3
  MaxKeys = 3
INVARIANTS NoInterruptLost InterruptsServed
PROPERTIES BootCompletes MainlineNotStarved
