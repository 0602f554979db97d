---------------------------- MODULE MCFileTransfer ----------------------------
(* Instances of FileTransfer for TLC: peer a has every file at first.       *)
EXTENDS FileTransfer

CONSTANTS a, b, c, doc, r1, r2

FilesOfA == [p \in Peers |-> IF p = a THEN Files ELSE {}]
NoPrefixes == {}
TwoWords == [n \in Files |-> 2]
Never == [p \in Peers |-> 0]
OnceB == [p \in Peers |-> IF p = b THEN 1 ELSE 0]
OnePerPeer == [r \in Requests |-> IF r = r1 THEN b ELSE c]
AllOfB == [r \in Requests |-> b]
=============================================================================
