SPECIFICATION Spec
CONSTANTS
  NumKeys = 5
  NumDirs = 2
  Parent <- MCParent
  Dirs <- MCDirs
  Self = 1
  Matching <- MCMatching
  Target = 2
  Size <- MCSize
  MaxU64 = 2
  VectorSize = 2
  Kinds <- AllKinds
INVARIANTS CompleteScan NothingInvented RowsInOrder TotalsAreBetween
PROPERTIES ScanAdvances ScanEnds
CHECK_DEADLOCK FALSE
