--------------------------- MODULE MCSharedClock ---------------------------
EXTENDS SharedClock, TLC

Symmetry == Permutations(Proxies)
=============================================================================
