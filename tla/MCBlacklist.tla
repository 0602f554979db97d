---------------------------- MODULE MCBlacklist ----------------------------
(* Instances of Blacklist for TLC.                                         *)
EXTENDS Blacklist

CONSTANTS a1, a2, t1, t2, t3
=============================================================================
