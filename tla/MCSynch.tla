------------------------------ MODULE MCSynch -------------------------------
EXTENDS Synch, TLC
Symmetry == Permutations(Thread) \cup Permutations(Lock)
=============================================================================
