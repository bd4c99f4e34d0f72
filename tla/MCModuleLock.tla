---------------------------- MODULE MCModuleLock ----------------------------
EXTENDS ModuleLock

CONSTANTS t1, t2, t3, l1, l2, l3

Symmetry == Permutations(Thread) \cup Permutations(Lock)
=============================================================================
