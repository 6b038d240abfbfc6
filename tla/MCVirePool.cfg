\* Two workers, the caller and a thread spawned before on one channel; three nodes, so that the list can grow while
\* a node is in a receiver's hands.
CONSTANTS
  main = main  w1 = w1  w2 = w2  s1 = s1
  n1 = n1  n2 = n2  n3 = n3
  a = a  b = b
  NULL = NULL
  Proc = {main, w1, w2, s1}
  Node = {n1, n2, n3}
  Value = {a, b}
  N = 2
  worker <- TwoWorkers
  Main = main
SPECIFICATION SpecPool
SYMMETRY Symmetry
INVARIANTS ListIsQueue NoLostWakeup MapIsComplete CountsAreExact IInv
PROPERTY ImplementsFifo
