------------------------------ MODULE PeerFiles ------------------------------
(***************************************************************************)
(* What the dictionary of week09 and the transfer of the files speak of:   *)
(* the names of files and the peers that may hold them.                    *)
(***************************************************************************)
CONSTANTS Peers, Files
=============================================================================
