\* A drop queue that outgrows the trim size while a collection step runs.
CONSTANTS
  o1 = o1  o2 = o2  o3 = o3
  l1 = l1  l2 = l2
  f = f  g = g
  NULL = NULL
  Obj = {o1, o2, o3}
  Local = {l1, l2}
  Slot = {f, g}
  SOFT_CAP = 2
  COLLECT_BATCH = 1
  FREE_BUDGET = 4
  FREE_PUMP = 1
  DROP_CAP0 = 1
  TRIM_CAP = 1
  Collector = TRUE
  Shape <- AnyShape
SPECIFICATION Spec
SYMMETRY Symmetry
INVARIANT ZeroLiveAtExit
CHECK_DEADLOCK FALSE
