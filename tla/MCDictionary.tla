---------------------------- MODULE MCDictionary ----------------------------
(* An instance of Dictionary for TLC.                                      *)
EXTENDS Dictionary, TLC

CONSTANTS f1, f2, f3, q1, q2, q3, h1, h2

Symmetry == Permutations(Files) \cup Permutations(Peers) \cup Permutations(Handlers)
=============================================================================
