CONSTANTS
  d = d
  f = f
  Name = {d, f}
  Path <- Paths
  Size = {1, 2}
  Worlds <- Trees
  MaxChanges = 2
  MaxFaults = 1
SPECIFICATION Spec
INVARIANTS
  TypeOK
  UntouchedFound
  NothingInvented
  QuietScanExact
PROPERTY ScanEnds
