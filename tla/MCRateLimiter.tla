--------------------------- MODULE MCRateLimiter ---------------------------
EXTENDS RateLimiter, TLC

CONSTANTS ann, bob, a1, a2, a3, b1

MCKeyOf == [r \in Reqs |-> IF r = b1 THEN bob ELSE ann]

Symmetry == Permutations({a1, a2, a3})
=============================================================================
