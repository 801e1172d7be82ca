---- MODULE MCRuntimePersistence ----
EXTENDS RuntimePersistence, TLC
Symmetry == Permutations(Threads) \cup Permutations(Requests)
====
