\* Three handles and four objects: all of them are used and the counter wraps.
SPECIFICATION Spec
CONSTANTS
  Threads = {t1, t2}
  HandleSpace = 4
  MaxCreates = 4
  MaxRefs = 1
INVARIANTS DrainReachesAll
  CurrentSurfaceBound CountExplained
SYMMETRY Symmetry
CHECK_DEADLOCK FALSE
