--------------------------- MODULE MCSegmentStore ---------------------------
EXTENDS SegmentStore, TLC
Symmetry == Permutations(Requests) \cup Permutations(Tasks) \cup Permutations(Segments)
=============================================================================
