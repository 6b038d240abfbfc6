----------------------------- MODULE MCThreads -----------------------------
(* Small instances of Threads for TLC. *)
EXTENDS ThreadsInv, TLC

CONSTANTS o1, o2

\* Programs without cycles: the threaded build has no cycle collector.
AcyclicShape == {<<o1, o2>>}

\* Fields are alike; the properties are of single steps, for which symmetry is sound.
Symmetry == Permutations(Slot)
=============================================================================
