------------------------------ MODULE PeerTable ------------------------------
(***************************************************************************)
(* What the peers of week07 and week08 promise about their lists: new      *)
(* entries go to the end, an entry of a peer that is gone is taken out     *)
(* from wherever it is, and the others keep their order and addresses.     *)
(***************************************************************************)
EXTENDS Naturals, Sequences

CONSTANT Keys \* the (address, port) pairs that identify a peer

VARIABLE table

\* main: nothing is known, or the address that was typed in, without a name.
Init == \/ table = << >>
        \/ \E k \in Keys : table = << [key |-> k, named |-> FALSE] >>

Add(k, n) == table' = Append(table, [key |-> k, named |-> n])

SetName(i, n) == table' = [table EXCEPT ![i].named = n]

Remove(i) ==
  table' = [j \in 1 .. Len(table) - 1 |-> table[IF j < i THEN j ELSE j + 1]]

Next == \/ \E k \in Keys, n \in BOOLEAN : Add(k, n)
        \/ \E i \in DOMAIN table, n \in BOOLEAN : SetName(i, n)
        \/ \E i \in DOMAIN table : Remove(i)

Spec == Init /\ [][Next]_table
=============================================================================
