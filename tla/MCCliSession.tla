---------------------------- MODULE MCCliSession ----------------------------
(* A process with two goroutines and one with a single one, a session of    *)
(* three tokens and another of one.                                         *)
EXTENDS CliSession, TLC

CONSTANTS p1, p2, g1, g2, g3, fa, fb, a1, a2, a3, b1

MCProcOf == [t \in Threads |-> IF t = g3 THEN p2 ELSE p1]
MCFamilyOf == [n \in Tokens |-> IF n = b1 THEN fb ELSE fa]

Symmetry == Permutations({g1, g2}) \cup Permutations({a1, a2, a3})
=============================================================================
