SPECIFICATION Spec
CONSTANTS
  Threads = {t1}
  Targets = {bucket}
  Ops = {o1, o2}
  Nil = Nil
  v1 = v1
  v2 = v2
  Globals <- CollidingGlobals
  Secrets <- CollidingSecrets
INVARIANTS CurrentConfig
CHECK_DEADLOCK FALSE
