SPECIFICATION Spec
CONSTANTS
  Handles = {h1, h2}
  Timed = {}
  MaxInt64 = 1
  Nobody = Nobody
SYMMETRY HandleSymmetry
INVARIANT ImageIsWhole
PROPERTY ImplementsAtomicPut
CHECK_DEADLOCK FALSE
