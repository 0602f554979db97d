------------------------------ MODULE MCGossip ------------------------------
(* Instances of Gossip for TLC.                                            *)
EXTENDS Gossip

CONSTANTS p1, p2, p3, a1, a2, b2, a3

\* One address for each peer, which is named like the peer.
OneReaches == [s \in Peers \X Addrs |-> s[2]]
OneFrom == [s \in Peers \X Addrs |-> s[1]]

\* p2 is on two networks and can be reached on both; what it sends to p1 goes out
\* on the second.  p3 is behind a gateway: it reaches p1, and nobody reaches it.
TwoAddrs == {a1, a2, b2, a3}
TwoReaches ==
  [s \in Peers \X TwoAddrs |->
     IF s[2] = a1 THEN p1 ELSE IF s[2] = a3 \/ s[1] = p3 THEN Nobody ELSE p2]
TwoFrom ==
  [s \in Peers \X TwoAddrs |->
     IF s[1] = p1 THEN a1 ELSE IF s[1] = p3 THEN a3
     ELSE IF s[2] \in {a1, b2} THEN b2 ELSE a2]
=============================================================================
