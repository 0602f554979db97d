------------------------------ MODULE PeerList ------------------------------
(***************************************************************************)
(* What a peer promises about its list of known nodes: a sequence that     *)
(* only ever grows at its end, whose entries never change their address,   *)
(* and whose names never go back to being empty.  KnownNodes implements    *)
(* it with a linked list shared by threads.                                *)
(***************************************************************************)
EXTENDS Naturals, Sequences

CONSTANTS Keys,    \* the (address, port) pairs that identify a peer
          Names,   \* the non-empty names a peer may carry
          NoName   \* the empty name of an address typed by the operator

VARIABLE list

\* The list main() builds before any thread runs: empty when the operator
\* waits for connections, one nameless entry when an address was typed.
Init == \/ list = << >>
        \/ \E k \in Keys : list = << [key |-> k, name |-> NoName] >>

\* A peer heard of for the first time goes to the end.
Add(k, n) == list' = Append(list, [key |-> k, name |-> n])

\* A listed peer gets a name.
SetName(i, n) == list' = [list EXCEPT ![i].name = n]

Next == \/ \E k \in Keys, n \in Names : Add(k, n)
        \/ \E i \in DOMAIN list, n \in Names : SetName(i, n)

Spec == Init /\ [][Next]_list
=============================================================================
