CONSTANTS
  Path = {1, 2, 3, 4, 5, 6}
  MaxRecords = 6
  MaxRepeats = 1
SPECIFICATION Spec
INVARIANTS
  TypeOK
  TreeBalanced
  ReportSorted
PROPERTY ImplementsPathMap
