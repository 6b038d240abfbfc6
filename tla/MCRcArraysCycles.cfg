\* The same operations in a build with the cycle collector: any array may hold any other.
CONSTANTS
  o1 = o1  o2 = o2  o3 = o3
  l1 = l1  l2 = l2
  NULL = NULL
  Obj = {o1, o2, o3}
  Local = {l1, l2}
  Slot = {0}
  Arrays = {o1, o2, o3}
  SOFT_CAP = 2
  COLLECT_BATCH = 1
  FREE_BUDGET = 1
  FREE_PUMP = 1
  DROP_CAP0 = 8
  TRIM_CAP = 8
  Collector = TRUE
  Shape <- AnyShape
SPECIFICATION SpecArrays
INVARIANT CollectedIsUnreachable
CHECK_DEADLOCK FALSE
