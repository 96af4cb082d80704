SPECIFICATION Spec
CONSTANTS
  Handles = {h1, h2}
  Null = Null
  Names = {p1, p2, p3}
  LongNames = {p3}
  Depth = 6
INVARIANTS CallLeavesNoTrace EnumerationComplete
