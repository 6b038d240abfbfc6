\* Liveness and refinement; no symmetry, which TLC does not support for liveness.
CONSTANTS
  o1 = o1  o2 = o2  o3 = o3
  l1 = l1  l2 = l2
  f = f
  NULL = NULL
  Obj = {o1, o2, o3}
  Local = {l1, l2}
  Slot = {f}
  SOFT_CAP = 2
  COLLECT_BATCH = 1
  FREE_BUDGET = 1
  FREE_PUMP = 1
  DROP_CAP0 = 8
  TRIM_CAP = 8
  Collector = TRUE
  Shape <- AnyShape
SPECIFICATION FairSpec
INVARIANT IInv
PROPERTIES ImplementsManagedHeap RuntimeProgresses ShutdownCompletes OperationsReturn
CHECK_DEADLOCK FALSE
