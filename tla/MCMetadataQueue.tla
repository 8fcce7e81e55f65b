-------------------------- MODULE MCMetadataQueue --------------------------
EXTENDS MetadataQueue, TLC

MCMovieOf == [k \in Keys |-> k]      \* each player of a movie of its own

Symmetry == Permutations(Calls) \cup Permutations(Metas) \cup Permutations(Keys)
=============================================================================
