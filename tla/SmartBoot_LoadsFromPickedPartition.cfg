SPECIFICATION Spec
CONSTANTS
  Disks <- MCDisks
  PriorityLists <- MCPriorityLists
  TypedCommands <- MCTypedCommands
  BootDevices <- MCBootDevices
  MaxPartitions = 3
  MaxCommands = 1
CHECK_DEADLOCK FALSE
INVARIANTS
  LoadsFromPickedPartition
