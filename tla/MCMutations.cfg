SPECIFICATION Spec
CONSTANTS
  Clients = {c1, c2}
  temporary = temporary
  target = target
  other = other
  Configs = {g1, g2}
  Paths <- MCPaths
  Tree <- MCTree
  Services <- MCServices
  MaxVersion = 1
  MaxRetries = 1
  Nil = Nil
INVARIANTS MoveKeepsContent OkMeansDone TargetStays
SYMMETRY Symmetry
