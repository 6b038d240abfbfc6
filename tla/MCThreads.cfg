\* Main and a worker, over objects that can hold one another; shared cells are accessed in
\* synchronized blocks, which may nest, and synchronized methods are called too.
CONSTANTS
  o1 = o1  o2 = o2
  s1 = s1  f = f  g = g
  main = main  w1 = w1
  NULL = NULL
  Obj = {o1, o2}
  Static = {s1}
  Slot = {f, g}
  Main = main
  Worker = {w1}
  Shape <- AcyclicShape
  MAX_NESTING = 2
  Locked = TRUE
  SyncMethods = TRUE
SPECIFICATION Spec
SYMMETRY Symmetry
INVARIANTS RcExactThreads AccessesAreLive BlocksExclude ZeroLiveAfterJoin IInv
PROPERTY ImplementsSharedHeap
\* The program ends: nothing follows the return of main.
CHECK_DEADLOCK FALSE
