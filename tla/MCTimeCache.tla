---------------------------- MODULE MCTimeCache ----------------------------
EXTENDS TimeCache, TLC

Symmetry == Permutations(Slows)
=============================================================================
