CONSTANTS
  FirstCapacity = 1
  Content <- Contents
  Gone = Gone
  Hash <- Collide
  Configs <- MCConfigs
  Sniffed = 1
  MaxChanges = 0
  MaxFaults = 1
SPECIFICATION Spec
INVARIANT DiffsShowDifference
