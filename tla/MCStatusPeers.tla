---------------------------- MODULE MCStatusPeers ----------------------------
(* Instances of StatusPeers for TLC.                                       *)
EXTENDS StatusPeers, TLC

CONSTANTS k1, k2, n1, n2, n3, h1, s1, s2

Symmetry == Permutations(Cells) \cup Permutations(Keys)
=============================================================================
