SPECIFICATION Spec
CONSTANTS
  Threads = {t1, t2}
  Targets = {bucket1, bucket2}
  Ops = {o1, o2}
  Nil = Nil
  v1 = v1
  v2 = v2
  Globals <- MCGlobals
  Secrets <- MCSecrets
INVARIANTS UsedIsLive Ownership CurrentConfig
PROPERTY ImplementsSharedOperators
CHECK_DEADLOCK FALSE
SYMMETRY Symmetry
