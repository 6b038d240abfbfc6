\* Three objects with two fields each: cycles, diamonds and chains; a root buffer that
\* overflows at two candidates and batches of one, so that steps are partial.
CONSTANTS
  o1 = o1  o2 = o2  o3 = o3
  l1 = l1  l2 = l2
  f = f  g = g
  NULL = NULL
  Obj = {o1, o2, o3}
  Local = {l1, l2}
  Slot = {f, g}
  SOFT_CAP = 2
  COLLECT_BATCH = 1
  FREE_BUDGET = 1
  FREE_PUMP = 1
  DROP_CAP0 = 8
  TRIM_CAP = 8
  Collector = TRUE
  Shape <- AnyShape
SPECIFICATION Spec
SYMMETRY Symmetry
INVARIANTS
  RcExact NoDangling ConsistentBetweenSteps BufferedBitMatchesRoots RootBufferBounded
  QueuedAreUnreachable NoForgottenGarbage ZeroLiveAtExit LeakInv
\* The program ends: state "done" has no successor.
CHECK_DEADLOCK FALSE
