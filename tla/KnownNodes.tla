----------------------------- MODULE KnownNodes -----------------------------
(***************************************************************************)
(* The known_nodes list of one peer (week09_new) and the threads of its    *)
(* process that share it:                                                  *)
(*   - connection_handler threads look a received peer up WITHOUT the lock *)
(*     and then insert it, or name it, under known_nodes_lock;             *)
(*   - the round thread (setup_tcp_communication) and the synch threads it *)
(*     creates walk the list by index and never take the lock.             *)
(*                                                                         *)
(* A step makes at most one access to memory that another running thread   *)
(* may be writing.  Writes to a node that is not linked yet are private,   *)
(* and `last' is only touched by the holder of the lock, so they go with   *)
(* the neighbouring step.  Stores become visible in program order, as they *)
(* do in the repository's unoptimised x86-64 build.                        *)
(***************************************************************************)
EXTENDS Naturals, Sequences, FiniteSets

CONSTANTS Keys,      \* the (address, port) pairs of other peers
          Names,     \* the non-empty names records carry
          NoName,    \* the empty name
          Handlers,  \* connection_handler threads
          Syncers,   \* synch threads
          Round,     \* the setup_tcp_communication thread
          Main,      \* the main thread, which fills the list at start
          Free,      \* known_nodes_lock is not held
          MaxNodes   \* bound: handlers take no record that could exceed it

Readers == Syncers \cup {Round}

ASSUME ConstantsAssumption ==
  /\ NoName \notin Names
  /\ Round \notin Syncers
  /\ Main \notin Handlers
  /\ Free \notin Handlers
  /\ MaxNodes \in Nat

VARIABLES
  size, first, last, \* struct LinkedList
  heap,   \* the nodes malloc returned, in order of allocation; a pointer is
          \* an index into it and NULL is 0
  lock,   \* holder of known_nodes_lock
  by,     \* history: the thread that allocated each node
  hpc,    \* per handler: where it is in connection_handler
  hcur,   \* per handler: `node' of get_known_peer and of the handler
  rec,    \* per handler: the record it parsed last
  rpc,    \* per reader: where it is
  rcur,   \* per reader: `node' of list_get
  idx,    \* per reader: its loop variable i
  hop,    \* per reader: the loop variable i of list_get
  count,  \* per synch thread: nodes_count
  sent    \* per synch thread: the keys it has sent

listVars    == <<size, first, last, heap, lock, by>>
handlerVars == <<hpc, hcur, rec>>
readerVars  == <<rpc, rcur, idx, hop, count, sent>>
vars == <<listVars, handlerVars, readerVars>>

NULL == 0

Record == [key : Keys, name : Names]
Cell == [key : Keys, name : Names \cup {NoName}, succ : Nat, pred : Nat]

-----------------------------------------------------------------------------
(* main: 'Y' starts with an empty list, 'N' with the address typed in.     *)

Empty == heap = << >> /\ by = << >> /\ size = 0 /\ first = NULL /\ last = NULL

Seeded == \E k \in Keys :
  /\ heap = << [key |-> k, name |-> NoName, succ |-> NULL, pred |-> NULL] >>
  /\ by = << Main >>
  /\ size = 1 /\ first = 1 /\ last = 1

Init ==
  /\ Empty \/ Seeded
  /\ lock = Free
  /\ hpc = [h \in Handlers |-> "recv"]
  /\ hcur = [h \in Handlers |-> NULL]
  /\ rec \in [Handlers -> Record]
  /\ rpc = [r \in Readers |-> IF r = Round THEN "test" ELSE "idle"]
  /\ rcur = [r \in Readers |-> NULL]
  /\ idx = [r \in Readers |-> 0]
  /\ hop = [r \in Readers |-> 0]
  /\ count = [s \in Syncers |-> 0]
  /\ sent = [s \in Syncers |-> << >>]

-----------------------------------------------------------------------------
(* connection_handler                                                      *)

HandlerGoes(h, from, to) ==
  /\ hpc[h] = from
  /\ hpc' = [hpc EXCEPT ![h] = to]

HoldsLock(h) == lock = h

\* A record arrives (an introduction, or one entry of the sender's list) and
\* get_known_peer starts its walk at known_nodes->first.
RecvRecord(h) ==
  /\ HandlerGoes(h, "recv", "walk")
  /\ Len(heap) + Cardinality({g \in Handlers : hpc[g] # "recv"}) < MaxNodes
  /\ \E r \in Record : rec' = [rec EXCEPT ![h] = r]
  /\ hcur' = [hcur EXCEPT ![h] = first]
  /\ UNCHANGED <<listVars, readerVars>>

\* get_known_peer passes over a node with another key.
WalkNext(h) ==
  /\ hpc[h] = "walk"
  /\ hcur[h] # NULL
  /\ heap[hcur[h]].key # rec[h].key
  /\ hcur' = [hcur EXCEPT ![h] = heap[hcur[h]].succ]
  /\ UNCHANGED <<listVars, hpc, rec, readerVars>>

\* get_known_peer found the key, and the entry has a name: nothing to do.
WalkNamed(h) ==
  /\ HandlerGoes(h, "walk", "recv")
  /\ hcur[h] # NULL
  /\ heap[hcur[h]].key = rec[h].key
  /\ heap[hcur[h]].name # NoName
  /\ UNCHANGED <<listVars, hcur, rec, readerVars>>

\* get_known_peer found the key, and strlen(node->name) is 0.
WalkBlank(h) ==
  /\ HandlerGoes(h, "walk", "lock")
  /\ hcur[h] # NULL
  /\ heap[hcur[h]].key = rec[h].key
  /\ heap[hcur[h]].name = NoName
  /\ UNCHANGED <<listVars, hcur, rec, readerVars>>

\* Mutant: the loop stops at the last node instead of behind it.
WalkEndEarly(h) ==
  /\ HandlerGoes(h, "walk", "lock")
  /\ hcur[h] \in {NULL, last}
  /\ hcur' = [hcur EXCEPT ![h] = NULL]
  /\ UNCHANGED <<listVars, rec, readerVars>>

\* get_known_peer reached the end of the list: the peer is new.
WalkEnd(h) ==
  /\ HandlerGoes(h, "walk", "lock")
  /\ hcur[h] = NULL
  /\ UNCHANGED <<listVars, hcur, rec, readerVars>>

\* pthread_mutex_lock, before list_insert or before the memcpy of the name.
Acquire(h) ==
  /\ HandlerGoes(h, "lock", IF hcur[h] = NULL THEN "alloc" ELSE "rename")
  /\ lock = Free
  /\ lock' = h
  /\ UNCHANGED <<size, first, last, heap, by, hcur, rec, readerVars>>

\* Mutant: the memcpy of the name is forgotten.
AllocNameless(h) ==
  /\ HandlerGoes(h, "alloc", "link")
  /\ heap' = Append(heap, [key |-> rec[h].key, name |-> NoName,
                           succ |-> NULL,
                           pred |-> IF size = 0 THEN NULL ELSE last])
  /\ by' = Append(by, h)
  /\ last' = IF size = 0 THEN last ELSE Len(heap) + 1
  /\ UNCHANGED <<size, first, lock, hcur, rec, readerVars>>

\* list_insert up to the store that links the node: the new node is filled
\* in and, in a non-empty list, becomes `last'.
Alloc(h) ==
  /\ HandlerGoes(h, "alloc", "link")
  /\ heap' = Append(heap, [key |-> rec[h].key, name |-> rec[h].name,
                           succ |-> NULL,
                           pred |-> IF size = 0 THEN NULL ELSE last])
  /\ by' = Append(by, h)
  /\ last' = IF size = 0 THEN last ELSE Len(heap) + 1
  /\ UNCHANGED <<size, first, lock, hcur, rec, readerVars>>

\* list_insert links the node: `first' of an empty list, else tempNode->succ.
Link(h) ==
  /\ HandlerGoes(h, "link", "count")
  /\ \/ /\ size = 0
        /\ first' = Len(heap)
        /\ last' = Len(heap)
        /\ UNCHANGED heap
     \/ /\ size # 0
        /\ heap' = [heap EXCEPT ![heap[Len(heap)].pred].succ = Len(heap)]
        /\ UNCHANGED <<first, last>>
  /\ UNCHANGED <<size, lock, by, hcur, rec, readerVars>>

\* list_insert: linkedList->size++.
Count(h) ==
  /\ HandlerGoes(h, "count", "unlock")
  /\ size' = size + 1
  /\ UNCHANGED <<first, last, heap, lock, by, hcur, rec, readerVars>>

\* memcpy(node->name, peer_name, sizeof(peer_name)) under the lock.
Rename(h) ==
  /\ HandlerGoes(h, "rename", "unlock")
  /\ heap' = [heap EXCEPT ![hcur[h]].name = rec[h].name]
  /\ UNCHANGED <<size, first, last, lock, by, hcur, rec, readerVars>>

\* Mutant: a path that forgets pthread_mutex_unlock.
UnlockForgotten(h) ==
  /\ HandlerGoes(h, "unlock", "recv")
  /\ UNCHANGED <<listVars, hcur, rec, readerVars>>

Unlock(h) ==
  /\ HandlerGoes(h, "unlock", "recv")
  /\ lock' = Free
  /\ UNCHANGED <<size, first, last, heap, by, hcur, rec, readerVars>>

-----------------------------------------------------------------------------
(* list_get, as the round thread and the synch threads call it             *)

ReaderGoes(r, from, to) ==
  /\ rpc[r] = from
  /\ rpc' = [rpc EXCEPT ![r] = to]

\* index >= list_size(linkedList) makes list_get return NULL.
GetSize(r) ==
  /\ ReaderGoes(r, "get", IF idx[r] < size THEN "first" ELSE "use")
  /\ rcur' = [rcur EXCEPT ![r] = NULL]
  /\ UNCHANGED <<listVars, handlerVars, idx, hop, count, sent>>

GetFirst(r) ==
  /\ ReaderGoes(r, "first", "hop")
  /\ rcur' = [rcur EXCEPT ![r] = first]
  /\ hop' = [hop EXCEPT ![r] = 0]
  /\ UNCHANGED <<listVars, handlerVars, idx, count, sent>>

GetNext(r) ==
  /\ rpc[r] = "hop"
  /\ hop[r] < idx[r]
  /\ rcur' = [rcur EXCEPT ![r] = heap[rcur[r]].succ]
  /\ hop' = [hop EXCEPT ![r] = @ + 1]
  /\ UNCHANGED <<listVars, handlerVars, rpc, idx, count, sent>>

GetDone(r) ==
  /\ ReaderGoes(r, "hop", "use")
  /\ hop[r] = idx[r]
  /\ UNCHANGED <<listVars, handlerVars, rcur, idx, hop, count, sent>>

-----------------------------------------------------------------------------
(* setup_tcp_communication: one synch thread per listed node, every round  *)

\* Mutant: i <= list_size(known_nodes).
RoundTestPast ==
  /\ ReaderGoes(Round, "test", "get")
  /\ idx[Round] <= size
  /\ UNCHANGED <<listVars, handlerVars, rcur, idx, hop, count, sent>>

RoundTest ==
  /\ ReaderGoes(Round, "test", "get")
  /\ idx[Round] < size
  /\ UNCHANGED <<listVars, handlerVars, rcur, idx, hop, count, sent>>

\* Mutant: i is declared outside of the endless loop.
RoundSleepOnce ==
  /\ rpc[Round] = "test"
  /\ idx[Round] >= size
  /\ UNCHANGED <<listVars, handlerVars, readerVars>>

\* The loop ends; sleep(10), and the next round starts at index 0.
RoundSleep ==
  /\ rpc[Round] = "test"
  /\ idx[Round] >= size
  /\ idx' = [idx EXCEPT ![Round] = 0]
  /\ UNCHANGED <<listVars, handlerVars, rpc, rcur, hop, count, sent>>

\* pthread_create(&sync_thread, NULL, synch, node): synch gets the pointer.
Spawn(s) ==
  /\ rpc[Round] = "use"
  /\ rpc[s] = "idle"
  /\ rpc' = [rpc EXCEPT ![Round] = "test", ![s] = "start"]
  /\ rcur' = [rcur EXCEPT ![s] = rcur[Round]]
  /\ idx' = [idx EXCEPT ![Round] = @ + 1]
  /\ UNCHANGED <<listVars, handlerVars, hop, count, sent>>

\* pthread_create fails; its result is not looked at.
SpawnFails ==
  /\ ReaderGoes(Round, "use", "test")
  /\ idx' = [idx EXCEPT ![Round] = @ + 1]
  /\ UNCHANGED <<listVars, handlerVars, rcur, hop, count, sent>>

-----------------------------------------------------------------------------
(* synch                                                                   *)

\* A system call of the thread fails (an address that does not convert,
\* socket, connect or a send): it closes its socket and exits.
SyncFails(s) ==
  /\ rpc[s] \in {"start", "use"}
  /\ rpc' = [rpc EXCEPT ![s] = "idle"]
  /\ UNCHANGED <<listVars, handlerVars, rcur, idx, hop, count, sent>>

\* Connected and introduced: the number of nodes is read and sent.
SyncCount(s) ==
  /\ ReaderGoes(s, "start", "test")
  /\ count' = [count EXCEPT ![s] = size]
  /\ idx' = [idx EXCEPT ![s] = 0]
  /\ sent' = [sent EXCEPT ![s] = << >>]
  /\ UNCHANGED <<listVars, handlerVars, rcur, hop>>

\* Mutant: the loop looks at the live size and not at nodes_count.
SyncTestLive(s) ==
  /\ ReaderGoes(s, "test", "get")
  /\ idx[s] < size
  /\ UNCHANGED <<listVars, handlerVars, rcur, idx, hop, count, sent>>

SyncTest(s) ==
  /\ ReaderGoes(s, "test", "get")
  /\ idx[s] < count[s]
  /\ UNCHANGED <<listVars, handlerVars, rcur, idx, hop, count, sent>>

\* get_peer_information of the node list_get returned, and its send.
SyncSend(s) ==
  /\ ReaderGoes(s, "use", "test")
  /\ sent' = [sent EXCEPT ![s] = Append(@, heap[rcur[s]].key)]
  /\ idx' = [idx EXCEPT ![s] = @ + 1]
  /\ UNCHANGED <<listVars, handlerVars, rcur, hop, count>>

\* Every announced record was sent: close and exit.
SyncDone(s) ==
  /\ ReaderGoes(s, "test", "idle")
  /\ idx[s] >= count[s]
  /\ UNCHANGED <<listVars, handlerVars, rcur, idx, hop, count, sent>>

-----------------------------------------------------------------------------
HandlerStep(h) ==
  \/ WalkNext(h) \/ WalkNamed(h) \/ WalkBlank(h) \/ WalkEnd(h)
  \/ Acquire(h) \/ Alloc(h) \/ Link(h) \/ Count(h) \/ Rename(h) \/ Unlock(h)

ListGet(r) == GetSize(r) \/ GetFirst(r) \/ GetNext(r) \/ GetDone(r)

RoundStep ==
  \/ RoundTest \/ RoundSleep \/ SpawnFails
  \/ \E s \in Syncers : Spawn(s)
  \/ ListGet(Round)

SyncStep(s) ==
  \/ SyncFails(s) \/ SyncCount(s) \/ SyncTest(s) \/ SyncSend(s) \/ SyncDone(s)
  \/ ListGet(s)

Next ==
  \/ \E h \in Handlers : RecvRecord(h) \/ HandlerStep(h)
  \/ RoundStep
  \/ \E s \in Syncers : SyncStep(s)

Spec == Init /\ [][Next]_vars

\* The scheduler runs every thread; no record has to arrive, and no synch
\* thread has to finish, as its peer may stop reading.
FairSpec ==
  /\ Spec
  /\ \A h \in Handlers : WF_vars(HandlerStep(h))
  /\ WF_vars(RoundStep)

-----------------------------------------------------------------------------
HandlerLabels == {"recv", "walk", "lock", "alloc", "link", "count", "rename",
                  "unlock"}
ReaderLabels == {"idle", "start", "test", "get", "first", "hop", "use"}

ListTypes ==
  /\ size \in Nat /\ first \in Nat /\ last \in Nat
  /\ heap \in Seq(Cell)
  /\ by \in Seq(Handlers \cup {Main})
  /\ lock \in Handlers \cup {Free}

HandlerTypes ==
  /\ hpc \in [Handlers -> HandlerLabels]
  /\ hcur \in [Handlers -> Nat]
  /\ rec \in [Handlers -> Record]

ReaderTypes ==
  /\ rpc \in [Readers -> ReaderLabels]
  /\ rcur \in [Readers -> Nat]
  /\ idx \in [Readers -> Nat]
  /\ hop \in [Readers -> Nat]
  /\ count \in [Syncers -> Nat]
  /\ sent \in [Syncers -> Seq(Keys)]

\* The type of every variable (struct LinkedList, struct Node, and the locals
\* of the threads).
TypeOK == ListTypes /\ HandlerTypes /\ ReaderTypes

\* No thread follows a pointer that is NULL or not a node: the walks of the
\* threads that do not lock are safe against every insertion, although
\* list_get follows `succ' as often as `size' says (linked_list.c:127-136)
\* and its callers never test what it returns (P2P.c:208-211, 231-233).
NoWildRead ==
  /\ \A h \in Handlers : hpc[h] \in {"walk", "rename"} =>
       hcur[h] \in 0..Len(heap)
  /\ \A h \in Handlers : hpc[h] = "rename" => hcur[h] # NULL
  /\ \A r \in Readers :
       \/ rpc[r] \in {"start", "use"}
       \/ rpc[r] = "hop" /\ hop[r] < idx[r]
       => rcur[r] \in 1..Len(heap)

\* What a synch thread sends are the entries of the list in list order, none
\* skipped and none twice, and the announced number of them exists, whatever
\* is inserted meanwhile (P2P.c:197-222).
SendsPrefix(s) ==
  /\ Len(sent[s]) = idx[s]
  /\ idx[s] <= count[s]
  /\ count[s] <= size
  /\ \A i \in 1..Len(sent[s]) : sent[s][i] = heap[i].key

SyncInOrder ==
  \A s \in Syncers :
    rpc[s] \in {"test", "get", "first", "hop", "use"} => SendsPrefix(s)

\* A handler thread never inserts a key a second time, so a key is listed at
\* most once per handler that was handling it at the same time: the look-up
\* of P2P.c:474 and :545 is outside the lock, but it sees every node its own
\* thread inserted.
OneCopyPerHandler ==
  \A i, j \in 1..Len(heap) :
    heap[i].key = heap[j].key /\ by[i] = by[j] => i = j

\* The inductive invariant that proves the three properties above.
\* `Inserting': the newest node is not counted yet.  `Linked': the number of
\* nodes a walk along `succ' can reach.
Critical == {"alloc", "link", "count", "rename", "unlock"}
Inserting == lock # Free /\ hpc[lock] \in {"link", "count"}
Linked == IF lock # Free /\ hpc[lock] = "link" THEN Len(heap) - 1 ELSE Len(heap)

\* Nodes are chained in the order they were allocated, from `first' to `last';
\* between linking and counting, and only then, `size' lags one behind.
ListShape ==
  /\ Len(by) = Len(heap)
  /\ \A h \in Handlers : hpc[h] \in Critical <=> lock = h
  /\ Inserting => /\ Len(heap) > 0
                  /\ by[Len(heap)] = lock
                  /\ heap[Len(heap)].name # NoName
  /\ size = IF Inserting THEN Len(heap) - 1 ELSE Len(heap)
  /\ first = IF Linked = 0 THEN NULL ELSE 1
  /\ last = IF Linked = 0 THEN NULL ELSE Len(heap)
  /\ \A i \in 1..Len(heap) :
       /\ heap[i].succ = IF i < Linked THEN i + 1 ELSE NULL
       /\ heap[i].pred = i - 1

\* What a handler that looked a key up knows: the nodes it passed have other
\* keys, and when it reached the end, no node of its own has the key.
LookUp(h) ==
  /\ hpc[h] \in {"walk", "lock", "rename"} => hcur[h] \in 0..Linked
  /\ hpc[h] = "rename" => hcur[h] # NULL
  /\ hpc[h] = "alloc" => hcur[h] = NULL
  /\ hpc[h] = "walk" =>
       \A i \in 1..Len(heap) : i < hcur[h] => heap[i].key # rec[h].key
  /\ hpc[h] \in {"walk", "lock", "alloc"} /\ hcur[h] = NULL =>
       \A i \in 1..Len(heap) : by[i] = h => heap[i].key # rec[h].key

HandlerView == \A h \in Handlers : LookUp(h)

\* Inside list_get a reader stands on node `hop', and every index it asks for
\* is one that exists.
ReaderView ==
  /\ \A r \in Readers :
       /\ rpc[r] \in {"get", "first", "hop", "use"} => idx[r] < size
       /\ rpc[r] = "hop" => hop[r] <= idx[r] /\ rcur[r] = hop[r] + 1
       /\ rpc[r] = "use" => rcur[r] = idx[r] + 1
       /\ rpc[r] = "start" => rcur[r] \in 1..size
  /\ \A s \in Syncers :
       rpc[s] \in {"get", "first", "hop", "use"} => idx[s] < count[s]

Inv ==
  /\ TypeOK
  /\ ListShape
  /\ HandlerView
  /\ ReaderView
  /\ OneCopyPerHandler
  /\ SyncInOrder

\* A record being handled ends up in the list (P2P.c:474-484, 545-557).
RecordIsListed ==
  \A h \in Handlers, k \in Keys :
    (hpc[h] = "walk" /\ rec[h].key = k) ~>
      (\E i \in 1..size : heap[i].key = k)

\* Every listed node is handed to pthread_create in some later round, also
\* when it was inserted in the middle of a round (P2P.c:228-237).
RoundReachesAll ==
  \A n \in 1..MaxNodes :
    (n <= size) ~> (rpc[Round] = "use" /\ rcur[Round] = n)

\* The shared list implements the append-only list of PeerList.
Listed == [i \in 1..size |-> [key |-> heap[i].key, name |-> heap[i].name]]
Abstract == INSTANCE PeerList WITH list <- Listed
ListIsPeerList == Abstract!Spec
=============================================================================
