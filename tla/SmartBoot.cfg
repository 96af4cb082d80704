SPECIFICATION FairSpec
CONSTANTS
  Disks <- MCDisks
  PriorityLists <- MCPriorityLists
  TypedCommands <- MCTypedCommands
  BootDevices <- MCBootDevices
  MaxPartitions = 3
  MaxCommands = 2
CHECK_DEADLOCK FALSE
INVARIANTS
  NumberingAgrees
  SmartBootFollowsPriority
  JumpIsSound
PROPERTIES
  CommandsEnd
