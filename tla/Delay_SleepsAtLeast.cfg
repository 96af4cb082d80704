SPECIFICATION SleepSpec
CONSTANTS
  W = 64
  TbPerMs = 6
  Milli = 4
  Sleeps = {0, 1, 3, 10, 20}
  MaxGap = 3
  MaxElapsed = 32
INVARIANT SleepsAtLeast
