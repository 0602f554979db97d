---------------------------- MODULE MCKnownNodes ----------------------------
(* Instances of KnownNodes for TLC.                                        *)
EXTENDS KnownNodes, TLC

CONSTANTS k1, k2, h1, h2, s1, s2

Symmetry == Permutations({k1, k2}) \cup Permutations({h1, h2})
=============================================================================
