----------------------------- MODULE Dictionary -----------------------------
(***************************************************************************)
(* available_files of week07, week08 and week09: a chain of pairs, one for *)
(* each file, each with the list of the peers that hold the file.  Every   *)
(* connection handler calls dict_insert for every file in an introduction, *)
(* and none takes a lock.                                                  *)
(*                                                                         *)
(* Nothing is ever freed: pairs and nodes are numbered as malloc returns   *)
(* them.  A step makes one access to memory that another thread may see; a *)
(* pair or node that is not linked yet is filled in the step that links    *)
(* it.  Of the sizes the code asks only whether they are 0: the size of a  *)
(* list is not when the list can be seen, and `filled' stands for that of  *)
(* the dictionary.  Stores are seen in the order of the source.            *)
(***************************************************************************)
EXTENDS PeerFiles, Naturals, FiniteSets

CONSTANTS Handlers,  \* connection_handler threads
          MaxPairs, MaxNodes \* bounds: memory

NULL == 0

ASSUME DictionaryAssumption ==
  /\ NULL \notin Files /\ NULL \notin Peers
  /\ IsFiniteSet(Handlers)
  /\ MaxPairs \in Nat /\ MaxNodes \in Nat

Pairs == 1..MaxPairs
Nodes == 1..MaxNodes

VARIABLES
  filled, first,      \* struct Dictionary
  key, succ,          \* struct Pair; a key of NULL has not been allocated
  head, tail,         \* of the pair's value: first and last
  holder, next,       \* struct Node: the peer, and succ
  pc, file, peer,     \* per handler: where it is, what it inserts
  pair, tempPair,     \* dict_insert's
  node, tempNode,     \* dict_insert's, and list_insert's
  settled             \* history: the entries when nobody inserted last

memory == <<filled, first, key, succ, head, tail, holder, next>>
locals == <<pc, file, peer, pair, tempPair, node, tempNode>>
dictVars == <<memory, locals, settled>>

DictInit ==
  /\ filled = FALSE /\ first = NULL
  /\ key = [p \in Pairs |-> NULL] /\ succ = [p \in Pairs |-> NULL]
  /\ head = [p \in Pairs |-> NULL] /\ tail = [p \in Pairs |-> NULL]
  /\ holder = [n \in Nodes |-> NULL] /\ next = [n \in Nodes |-> NULL]
  /\ pc = [t \in Handlers |-> "idle"]
  /\ file = [t \in Handlers |-> NULL] /\ peer = [t \in Handlers |-> NULL]
  /\ pair = [t \in Handlers |-> NULL] /\ tempPair = [t \in Handlers |-> NULL]
  /\ node = [t \in Handlers |-> NULL] /\ tempNode = [t \in Handlers |-> NULL]
  /\ settled = {}

-----------------------------------------------------------------------------
\* What a reader finds that starts at a and follows the pointers.
Chain(a, pointer) ==
  LET steps == Cardinality(DOMAIN pointer)
      upTo[k \in 0..steps] ==
        IF k = 0 THEN {a} \ {NULL}
        ELSE upTo[k - 1] \cup ({pointer[x] : x \in upTo[k - 1]} \ {NULL})
  IN  upTo[steps]

Linked == Chain(first, succ)
Holders(p) == {holder[n] : n \in Chain(head[p], next)}
Entries == UNION {{key[p]} \X Holders(p) : p \in Linked}

-----------------------------------------------------------------------------
Goes(t, from, to) == pc[t] = from /\ pc' = [pc EXCEPT ![t] = to]

FreePair == CHOOSE p \in Pairs : key[p] = NULL /\ \A q \in Pairs : q < p => key[q] # NULL
FreeNode == CHOOSE n \in Nodes : holder[n] = NULL /\ \A m \in Nodes : m < n => holder[m] # NULL

\* Bound: an insertion that begins finds memory.
Room ==
  LET busy == Cardinality({t \in Handlers : pc[t] # "idle"})
  IN  /\ Cardinality({p \in Pairs : key[p] # NULL}) + busy < MaxPairs
      /\ Cardinality({n \in Nodes : holder[n] # NULL}) + busy < MaxNodes

\* The handler gets to the next file of the peer's introduction.
Begin(t) ==
  /\ Goes(t, "idle", "size")
  /\ Room
  /\ \E f \in Files, q \in Peers :
       file' = [file EXCEPT ![t] = f] /\ peer' = [peer EXCEPT ![t] = q]
  /\ UNCHANGED <<memory, pair, tempPair, node, tempNode, settled>>

ReadSize(t) ==
  /\ Goes(t, "size", IF filled THEN "first" ELSE "create")
  /\ UNCHANGED <<memory, file, peer, pair, tempPair, node, tempNode, settled>>

\* The new pair p, whose list has the one node n.
NewPair(t, p, n) ==
  /\ key' = [key EXCEPT ![p] = file[t]]
  /\ head' = [head EXCEPT ![p] = n] /\ tail' = [tail EXCEPT ![p] = n]
  /\ holder' = [holder EXCEPT ![n] = peer[t]]

\* Mutant: the pair is linked before its list gets the node.
CreateBare(t) ==
  /\ Goes(t, "create", "grow")
  /\ key' = [key EXCEPT ![FreePair] = file[t]] /\ first' = FreePair
  /\ UNCHANGED <<filled, succ, head, tail, holder, next, file, peer, pair,
                 tempPair, node, tempNode, settled>>

\* The dictionary looked empty: dict->first is set to a new pair.
Create(t) ==
  /\ Goes(t, "create", "grow")
  /\ NewPair(t, FreePair, FreeNode) /\ first' = FreePair
  /\ UNCHANGED <<filled, succ, next, file, peer, pair, tempPair, node, tempNode,
                 settled>>

ReadFirst(t) ==
  /\ Goes(t, "first", "walk")
  /\ pair' = [pair EXCEPT ![t] = first]
  /\ UNCHANGED <<memory, file, peer, tempPair, node, tempNode, settled>>

\* Mutant: tempPair stays at the first pair.
WalkKeepsTemp(t) ==
  /\ pc[t] = "walk" /\ pair[t] # NULL /\ key[pair[t]] # file[t]
  /\ tempPair' = [tempPair EXCEPT ![t] = first]
  /\ pair' = [pair EXCEPT ![t] = succ[pair[t]]]
  /\ UNCHANGED <<memory, pc, file, peer, node, tempNode, settled>>

Walk(t) ==
  /\ pc[t] = "walk" /\ pair[t] # NULL /\ key[pair[t]] # file[t]
  /\ tempPair' = [tempPair EXCEPT ![t] = pair[t]]
  /\ pair' = [pair EXCEPT ![t] = succ[pair[t]]]
  /\ UNCHANGED <<memory, pc, file, peer, node, tempNode, settled>>

\* No pair for the file up to the end: a new one comes behind tempPair.
AppendPair(t) ==
  /\ Goes(t, "walk", "grow")
  /\ pair[t] = NULL
  /\ NewPair(t, FreePair, FreeNode)
  /\ succ' = [succ EXCEPT ![tempPair[t]] = FreePair]
  /\ UNCHANGED <<filled, first, next, file, peer, pair, tempPair, node, tempNode,
                 settled>>

\* dict_insert returns.
Return(t) ==
  /\ pc' = [pc EXCEPT ![t] = "idle"]
  /\ file' = [file EXCEPT ![t] = NULL] /\ peer' = [peer EXCEPT ![t] = NULL]
  /\ pair' = [pair EXCEPT ![t] = NULL] /\ tempPair' = [tempPair EXCEPT ![t] = NULL]
  /\ node' = [node EXCEPT ![t] = NULL] /\ tempNode' = [tempNode EXCEPT ![t] = NULL]
  /\ settled' = IF \A u \in Handlers \ {t} : pc[u] = "idle" THEN Entries' ELSE settled

\* dict->size++
Grow(t) ==
  /\ pc[t] = "grow"
  /\ filled' = TRUE
  /\ UNCHANGED <<first, key, succ, head, tail, holder, next>>
  /\ Return(t)

Found(t) ==
  /\ Goes(t, "walk", "holders")
  /\ pair[t] # NULL /\ key[pair[t]] = file[t]
  /\ node' = [node EXCEPT ![t] = head[pair[t]]]
  /\ UNCHANGED <<memory, file, peer, pair, tempPair, tempNode, settled>>

NextHolder(t) ==
  /\ pc[t] = "holders" /\ node[t] # NULL /\ holder[node[t]] # peer[t]
  /\ node' = [node EXCEPT ![t] = next[node[t]]]
  /\ UNCHANGED <<memory, pc, file, peer, pair, tempPair, tempNode, settled>>

IsHolder(t) ==
  /\ pc[t] = "holders" /\ node[t] # NULL /\ holder[node[t]] = peer[t]
  /\ UNCHANGED memory
  /\ Return(t)

\* list_insert: tempNode = last.
ReadLast(t) ==
  /\ Goes(t, "holders", "last")
  /\ node[t] = NULL
  /\ tempNode' = [tempNode EXCEPT ![t] = tail[pair[t]]]
  /\ UNCHANGED <<memory, file, peer, pair, tempPair, node, settled>>

\* last = node; its succ is whatever was in the memory, which nobody reads.
SetLast(t) ==
  /\ Goes(t, "last", "end")
  /\ holder' = [holder EXCEPT ![FreeNode] = peer[t]]
  /\ tail' = [tail EXCEPT ![pair[t]] = FreeNode]
  /\ node' = [node EXCEPT ![t] = FreeNode]
  /\ UNCHANGED <<filled, first, key, succ, head, next, file, peer, pair, tempPair,
                 tempNode, settled>>

\* node->succ = NULL, and with it goes what another handler has linked there.
EndSucc(t) ==
  /\ Goes(t, "end", "link")
  /\ next' = [next EXCEPT ![node[t]] = NULL]
  /\ UNCHANGED <<filled, first, key, succ, head, tail, holder, file, peer, pair,
                 tempPair, node, tempNode, settled>>

\* tempNode->succ = node
LinkNode(t) ==
  /\ pc[t] = "link"
  /\ next' = [next EXCEPT ![tempNode[t]] = node[t]]
  /\ UNCHANGED <<filled, first, key, succ, head, tail, holder>>
  /\ Return(t)

-----------------------------------------------------------------------------
Step(t) ==
  \/ ReadSize(t) \/ Create(t) \/ ReadFirst(t) \/ Walk(t) \/ AppendPair(t) \/ Grow(t)
  \/ Found(t) \/ NextHolder(t) \/ IsHolder(t) \/ ReadLast(t) \/ SetLast(t)
  \/ EndSucc(t) \/ LinkNode(t)

DictNext == \E t \in Handlers : Begin(t) \/ Step(t)

DictSpec == DictInit /\ [][DictNext]_dictVars

-----------------------------------------------------------------------------
DictTypeOK ==
  /\ filled \in BOOLEAN /\ first \in Pairs \cup {NULL}
  /\ key \in [Pairs -> Files \cup {NULL}]
  /\ succ \in [Pairs -> Pairs \cup {NULL}]
  /\ head \in [Pairs -> Nodes \cup {NULL}] /\ tail \in [Pairs -> Nodes \cup {NULL}]
  /\ holder \in [Nodes -> Peers \cup {NULL}]
  /\ next \in [Nodes -> Nodes \cup {NULL}]
  /\ pc \in [Handlers -> {"idle", "size", "create", "first", "walk", "grow",
                          "holders", "last", "end", "link"}]
  /\ file \in [Handlers -> Files \cup {NULL}]
  /\ peer \in [Handlers -> Peers \cup {NULL}]
  /\ pair \in [Handlers -> Pairs \cup {NULL}]
  /\ tempPair \in [Handlers -> Pairs \cup {NULL}]
  /\ node \in [Handlers -> Nodes \cup {NULL}]
  /\ tempNode \in [Handlers -> Nodes \cup {NULL}]
  /\ settled \subseteq Files \X Peers

\* Pointers go to younger pairs and nodes, so no walk is endless, and a pair
\* that can be reached has a key and a holder, so request may take the first
\* one (P2P.c:289-307).
Readable ==
  /\ \A p \in Pairs : succ[p] # NULL => p < succ[p]
  /\ \A n \in Nodes : next[n] # NULL => n < next[n]
  /\ \A p \in Linked : key[p] # NULL /\ head[p] # NULL

\* No handler follows or writes through NULL (dictionary.c:70-100,
\* linked_list.c:62-71).
NoNull ==
  \A t \in Handlers :
    /\ pc[t] = "walk" /\ pair[t] = NULL => tempPair[t] # NULL
    /\ pc[t] \in {"last", "end", "link"} => tempNode[t] # NULL

\* The types; and whatever the handlers overwrite for one another, a thread
\* that reads or inserts can follow what it finds.
Inv == DictTypeOK /\ Readable /\ NoNull

\* Of two handlers that miss the same file, the one that links later takes the
\* other's pair out: no file has two pairs (dictionary.c:70-86).
KeysUnique == \A p, q \in Linked : key[p] = key[q] => p = q

\* What is found when nobody inserts is found ever after, however the handlers
\* that come then run into one another (dictionary.c:59-100).
SettledStays == settled \subseteq Entries
=============================================================================
