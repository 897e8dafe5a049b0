---------------------------- MODULE MCNoiseSession ----------------------------
EXTENDS NoiseSession, TLC
\* Both sides initiate: the sides and the indexes are interchangeable.
Symmetry == Permutations(Nodes) \cup Permutations(Indexes)
\* One side initiates: only the indexes are.
IndexSymmetry == Permutations(Indexes)
=============================================================================
