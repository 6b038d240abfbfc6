\* A NO_CYCLES build: the declared types form a linear order, o1 and o2 are arrays.
CONSTANTS
  o1 = o1  o2 = o2  o3 = o3
  l1 = l1  l2 = l2
  NULL = NULL
  Obj = {o1, o2, o3}
  Local = {l1, l2}
  Slot = {0, 1}
  Arrays = {o1, o2}
  SOFT_CAP = 2
  COLLECT_BATCH = 1
  FREE_BUDGET = 1
  FREE_PUMP = 1
  DROP_CAP0 = 8
  TRIM_CAP = 8
  Collector = FALSE
  Shape <- AcyclicShape
SPECIFICATION SpecArrays
INVARIANTS RcExactWithArrays CollectedIsUnreachable ZeroLiveAtExit IInvArrays
PROPERTY ImplementsHeapWithArrays
CHECK_DEADLOCK FALSE
