------------------------------ MODULE MCBcache ------------------------------
EXTENDS Bcache, TLC

Symmetry == Permutations(Proc) \cup Permutations(Sector) \cup Permutations(Val)
=============================================================================
