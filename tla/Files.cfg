SPECIFICATION Spec
CONSTANTS
  Volumes <- MCVolumes
  Unit = 2
  DirGuard = 4
  FileGuard = 4
  Wrap = 64
  ProbeMids <- MCProbeMids
  DbMax = 2
  Hash <- MCHash
  MaxDepth = 3
  Apb = 2
  Epi = 2
  RootAnode = 5
  Spc = 2
  Slots = 4
  FatPer = 12
  Positions = {0, 1, 3, 6, 8, 9}
  Lengths = {0, 1, 3, 5, 9}
INVARIANT LoadsWhatIsStored
INVARIANT ListsWhatIsStored
INVARIANT ReadsPartition
PROPERTY LoadEnds
