--------------------------- MODULE MCRateLimiter ---------------------------
EXTENDS RateLimiter, TLC

CONSTANTS a1, a2, a3, a4, a5

Symmetry == Permutations(Attempts)
=============================================================================
