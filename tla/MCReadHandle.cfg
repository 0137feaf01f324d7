SPECIFICATION Spec
CONSTANTS
  MaxInt64 = 3
  MaxLength = 3
  Chunks <- MCChunks
INVARIANTS StreamIsTheFile EndIsTheEnd FullReadIsInFile ReaderIsOwned
