-------------------------- MODULE MCRefreshTokens --------------------------
(* A login session with three tokens and another with one.  The requests    *)
(* are alike, and so are the tokens of the first session.                   *)
EXTENDS RefreshTokens, TLC

CONSTANTS f1, f2, t1, t2, t3, u1, r1, r2, r3, r4

MCFamilyOf == [t \in Tokens |-> IF t = u1 THEN f2 ELSE f1]

Symmetry == Permutations(Reqs) \cup Permutations({t1, t2, t3})
=============================================================================
