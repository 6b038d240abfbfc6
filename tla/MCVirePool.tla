----------------------------- MODULE MCVirePool -----------------------------
(* Small instances of VirePool for TLC. *)
EXTENDS VirePoolInv, TLC

CONSTANTS main, w1, w2, s1

TwoWorkers == <<w1, w2>>

Symmetry == Permutations(Node) \cup Permutations(Value)
=============================================================================
