SPECIFICATION Spec
CONSTANTS
  DecReload = 1
  TickMod = 3
  MaxKeys = 3
INVARIANT EiInitBeforeEe
