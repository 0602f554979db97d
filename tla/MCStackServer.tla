--------------------------- MODULE MCStackServer ----------------------------
(* Instances of StackServer for TLC.                                       *)
EXTENDS StackServer, TLC

CONSTANTS n1, n2, n3, n4

NodeSymmetry == Permutations(Nodes)
=============================================================================
