SPECIFICATION Spec
CONSTANTS
  s1 = s1
  s2 = s2
  s3 = s3
  d = d
  small = small
  large = large
  Nil = Nil
  Objects <- MCObjects
  Sources <- MCSources
  Contents <- MCContents
  BlocksOf <- MCBlocksOf
  Dest <- IntoItself
  ChunkSize = 2
  VectorSize = 2
  MaxChanges = 0
PROPERTIES RowPerCommit
CHECK_DEADLOCK FALSE
