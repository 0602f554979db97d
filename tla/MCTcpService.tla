---------------------------- MODULE MCTcpService -----------------------------
(* Instances of TcpService for TLC.                                        *)
EXTENDS TcpService

CONSTANTS c1, c2
=============================================================================
