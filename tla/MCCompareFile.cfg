CONSTANTS
  FirstCapacity = 1
  Content <- Contents
  Gone = Gone
  Hash <- Collide
  Configs <- MCConfigs
  Sniffed = 1
  MaxChanges = 1
  MaxFaults = 1
SPECIFICATION Spec
INVARIANTS
  TypeOK
  VerdictWasTrue
  DiffsExact
  CopiesOwned
