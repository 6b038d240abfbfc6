\* The same threads without synchronization: racy loads and stores of shared fields.
CONSTANTS
  o1 = o1  o2 = o2
  s1 = s1  f = f  g = g
  main = main  w1 = w1
  NULL = NULL
  Obj = {o1, o2}
  Static = {s1}
  Slot = {f, g}
  Main = main
  Worker = {w1}
  Shape <- AcyclicShape
  MAX_NESTING = 0
  Locked = FALSE
  SyncMethods = FALSE
SPECIFICATION Spec
INVARIANT AccessesAreLive
CHECK_DEADLOCK FALSE
