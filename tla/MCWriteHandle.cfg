SPECIFICATION FairSpec
CONSTANTS
  Handles = {h1}
  Timed = {h1}
  MaxInt64 = 3
  Nobody = Nobody
INVARIANTS TypeOK OkMeansCommitted LayersAgree
PROPERTIES NoCommitAfterFailure NoSilentOrphan ImplementsAtomicPut HandlesAreReleased
CHECK_DEADLOCK FALSE
