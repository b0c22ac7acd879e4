--------------------------- MODULE MCEnvelopeStore ---------------------------
EXTENDS EnvelopeStore, TLC

CONSTANTS a1, q1, w1, w2, k1, k2

MCSymmetry == Permutations(Writers) \cup Permutations(Keys)
=============================================================================
