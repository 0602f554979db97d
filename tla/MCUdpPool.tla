------------------------------ MODULE MCUdpPool ------------------------------
(* Instances of UdpPool for TLC.                                           *)
EXTENDS UdpPool

CONSTANTS c1, c2, v1, v2
=============================================================================
