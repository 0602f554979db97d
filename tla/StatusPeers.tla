---------------------------- MODULE StatusPeers ----------------------------
(***************************************************************************)
(* The list of one peer of week07 and week08.  It differs from the list of *)
(* week09 (KnownNodes) in that entries go: a synch thread that cannot      *)
(* connect to a peer, or hears from it that it is not ready, deletes and   *)
(* frees the node it was given.  A peer that others name is listed only    *)
(* after check_node has asked it for its status.                           *)
(*                                                                         *)
(* Nodes are memory cells.  Those in `used' are allocated; a cell that was *)
(* freed keeps what was in it, except for the name, where malloc keeps its *)
(* own pointers, until malloc returns it again.  A thread that goes wrong  *)
(* (it follows NULL, frees a cell twice, or writes into a freed one) ends  *)
(* the process or leaves it in a state C does not define: the model stops, *)
(* and `culprit' says which thread it was.                                 *)
(*                                                                         *)
(* A step makes at most one access that a thread without the lock can see; *)
(* taking and releasing known_nodes_lock goes with the neighbouring step.  *)
(***************************************************************************)
EXTENDS Naturals, Sequences, FiniteSets

CONSTANTS Keys,      \* the (address, port) pairs of other peers
          Cells,     \* memory for nodes
          NULL,
          Handlers,  \* connection_handler threads
          Syncers,   \* synch threads
          Round,     \* the setup_tcp_communication thread
          Nobody,    \* the lock is free; no thread went wrong
          Mortal,    \* bound: the peers that may exit
          Named      \* bound: whether records may come with a name, without

Readers == Syncers \cup {Round}
Threads == Handlers \cup Readers

ASSUME StatusPeersAssumption ==
  /\ NULL \notin Cells \cup Keys /\ Nobody \notin Threads
  /\ Round \notin Syncers /\ Handlers \cap Readers = {}
  /\ Mortal \subseteq Keys /\ Named \subseteq BOOLEAN

VARIABLES
  size, first, last, \* struct LinkedList
  cell, used,        \* memory: what is in each cell, and which are allocated
  lock,              \* holder of known_nodes_lock
  order,             \* history: the cells that were linked and not unlinked
  gone,              \* the peers that have exited
  hpc, hcur, rec,    \* per handler: where it is, `node', the record
  rpc, rcur,         \* per reader: where it is, `node'
  idx, hop,          \* per reader: i of its own loop and of list_get's
  count, dest,       \* per synch thread: nodes_count, and whom it asks
  overtaken,         \* history: threads in the middle of the list since
                     \* before the end of some deletion
  culprit            \* the thread that went wrong

listVars    == <<size, first, last, cell, used, order>>
handlerVars == <<hpc, hcur, rec>>
readerVars  == <<rpc, rcur, idx, hop, count, dest>>
vars == <<listVars, lock, gone, handlerVars, readerVars, overtaken, culprit>>

Cell == [key : Keys \cup {NULL}, named : BOOLEAN, succ : Cells \cup {NULL},
         pred : Cells \cup {NULL}]
\* `told' is a record of the sender's list, else it is its introduction.
Record == [key : Keys \cup {NULL}, named : BOOLEAN, told : BOOLEAN]

-----------------------------------------------------------------------------
Blank == [key |-> NULL, named |-> FALSE, succ |-> NULL, pred |-> NULL]

Empty == /\ cell = [c \in Cells |-> Blank] /\ used = {} /\ order = << >>
         /\ size = 0 /\ first = NULL /\ last = NULL

\* main was given an address.
Seeded ==
  \E c \in Cells, k \in Keys :
    /\ cell = [d \in Cells |-> IF d = c THEN [Blank EXCEPT !.key = k] ELSE Blank]
    /\ used = {c} /\ order = <<c>> /\ size = 1 /\ first = c /\ last = c

NoRecord == [key |-> NULL, named |-> FALSE, told |-> FALSE]

Init ==
  /\ Empty \/ Seeded
  /\ lock = Nobody /\ gone = {}
  /\ hpc = [h \in Handlers |-> "idle"]
  /\ hcur = [h \in Handlers |-> NULL]
  /\ rec = [h \in Handlers |-> NoRecord]
  /\ rpc = [r \in Readers |-> IF r = Round THEN "test" ELSE "idle"]
  /\ rcur = [r \in Readers |-> NULL]
  /\ idx = [r \in Readers |-> 0] /\ hop = [r \in Readers |-> 0]
  /\ count = [s \in Syncers |-> 0] /\ dest = [s \in Syncers |-> NULL]
  /\ overtaken = {} /\ culprit = Nobody

-----------------------------------------------------------------------------
\* A deletion has begun and its size-- is not done.
Deleting == \E s \in Syncers : rpc[s] \in {"free", "shrink"}

\* The thread holds a pointer to a node, or an index or a number of nodes
\* that it has compared with size.
InTheList(t) ==
  IF t \in Handlers THEN hpc[t] \in {"walk", "rename"}
  ELSE \/ rpc[t] \in {"start", "connect", "status", "delete",
                      "get", "first", "hop", "use"}
       \/ t # Round /\ rpc[t] = "test"

\* The thread begins anew.
Enters(t) == overtaken' = IF Deleting THEN overtaken \cup {t}
                          ELSE overtaken \ {t}

GoesWrong(t) ==
  /\ culprit' = t
  /\ UNCHANGED <<listVars, lock, gone, handlerVars, readerVars, overtaken>>

\* The peer exits.
Leave(k) ==
  /\ k \in Mortal \ gone
  /\ gone' = gone \cup {k}
  /\ UNCHANGED <<listVars, lock, handlerVars, readerVars, overtaken, culprit>>

-----------------------------------------------------------------------------
(* connection_handler                                                      *)

HandlerGoes(h, from, to) == hpc[h] = from /\ hpc' = [hpc EXCEPT ![h] = to]

\* Bound: a handler takes nothing up that could need more cells than exist.
RoomFor(h) ==
  Cardinality(used) + Cardinality({g \in Handlers \ {h} :
    hpc[g] \in {"walk", "check", "insert"}}) < Cardinality(Cells)

\* A peer connects, the operation is 1, and it gets the status: it sends its
\* introduction, and get_known_peer begins.
RecvIntroduction(h) ==
  /\ HandlerGoes(h, "idle", "walk")
  /\ RoomFor(h)
  /\ \E k \in Keys \ gone :
       rec' = [rec EXCEPT ![h] = [key |-> k, named |-> TRUE, told |-> FALSE]]
  /\ hcur' = [hcur EXCEPT ![h] = first]
  /\ Enters(h)
  /\ UNCHANGED <<listVars, lock, gone, readerVars, culprit>>

\* A record of the sender's list, which is not about this peer itself.
RecvRecord(h) ==
  /\ HandlerGoes(h, "recv", "walk")
  /\ RoomFor(h)
  /\ \E k \in Keys, n \in Named :
       rec' = [rec EXCEPT ![h] = [key |-> k, named |-> n, told |-> TRUE]]
  /\ hcur' = [hcur EXCEPT ![h] = first]
  /\ Enters(h)
  /\ UNCHANGED <<listVars, lock, gone, readerVars, culprit>>

Rest(h, to) ==
  /\ hpc' = [hpc EXCEPT ![h] = to]
  /\ hcur' = [hcur EXCEPT ![h] = NULL]
  /\ rec' = [rec EXCEPT ![h] = NoRecord]
  /\ overtaken' = overtaken \ {h}

\* No more records, or the sender is gone.
EndSession(h) ==
  /\ hpc[h] = "recv"
  /\ Rest(h, "idle")
  /\ UNCHANGED <<listVars, lock, gone, readerVars, culprit>>

Walking(h) == hpc[h] = "walk" /\ hcur[h] # NULL
Found(h) == Walking(h) /\ cell[hcur[h]].key = rec[h].key

WalkNext(h) ==
  /\ Walking(h) /\ ~Found(h)
  /\ hcur' = [hcur EXCEPT ![h] = cell[hcur[h]].succ]
  /\ UNCHANGED <<listVars, lock, gone, hpc, rec, readerVars, overtaken, culprit>>

\* The name of a freed cell may look empty or not.
WalkNamed(h) ==
  /\ Found(h) /\ (cell[hcur[h]].named \/ hcur[h] \notin used)
  /\ Rest(h, "recv")
  /\ UNCHANGED <<listVars, lock, gone, readerVars, culprit>>

WalkBlank(h) ==
  /\ Found(h) /\ (~cell[hcur[h]].named \/ hcur[h] \notin used)
  /\ hpc' = [hpc EXCEPT ![h] = "rename"]
  /\ UNCHANGED <<listVars, lock, gone, hcur, rec, readerVars, overtaken, culprit>>

\* Not listed.  What others tell is checked, an introduction is not.
WalkEnd(h) ==
  /\ HandlerGoes(h, "walk", IF rec[h].told THEN "check" ELSE "insert")
  /\ hcur[h] = NULL
  /\ overtaken' = overtaken \ {h}
  /\ UNCHANGED <<listVars, lock, gone, hcur, rec, readerVars, culprit>>

\* check_node: the peer answers with status 1.
CheckAnswered(h) ==
  /\ HandlerGoes(h, "check", "insert")
  /\ rec[h].key \notin gone
  /\ UNCHANGED <<listVars, lock, gone, hcur, rec, readerVars, overtaken, culprit>>

CheckFails(h) ==
  /\ hpc[h] = "check"
  /\ Rest(h, "recv")
  /\ UNCHANGED <<listVars, lock, gone, readerVars, culprit>>

\* list_insert up to the store that links the node.
Alloc(h) ==
  /\ HandlerGoes(h, "insert", "link")
  /\ lock = Nobody /\ lock' = h
  /\ \E c \in Cells \ used :
       /\ cell' = [cell EXCEPT ![c] =
                     [key |-> rec[h].key, named |-> rec[h].named, succ |-> NULL,
                      pred |-> IF size = 0 THEN NULL ELSE last]]
       /\ used' = used \cup {c}
       /\ last' = IF size = 0 THEN last ELSE c
       /\ hcur' = [hcur EXCEPT ![h] = c]
  /\ UNCHANGED <<size, first, order, gone, rec, readerVars, overtaken, culprit>>

\* Mutant: the new node is linked in front of the first one.
LinkFirst(h) ==
  /\ HandlerGoes(h, "link", "count")
  /\ \/ (size = 0 /\ first' = hcur[h] /\ last' = hcur[h] /\ UNCHANGED cell)
     \/ /\ size # 0
        /\ cell' = [cell EXCEPT ![first].pred = hcur[h],
                                ![hcur[h]].succ = first, ![hcur[h]].pred = NULL]
        /\ first' = hcur[h] /\ UNCHANGED last
  /\ order' = <<hcur[h]>> \o order
  /\ UNCHANGED <<size, used, lock, gone, hcur, rec, readerVars, overtaken, culprit>>

Link(h) ==
  /\ HandlerGoes(h, "link", "count")
  /\ \/ size = 0 /\ first' = hcur[h] /\ last' = hcur[h] /\ UNCHANGED cell
     \/ /\ size # 0
        /\ cell' = [cell EXCEPT ![cell[hcur[h]].pred].succ = hcur[h]]
        /\ UNCHANGED <<first, last>>
  /\ order' = Append(order, hcur[h])
  /\ UNCHANGED <<size, used, lock, gone, hcur, rec, readerVars, overtaken, culprit>>

Count(h) ==
  /\ hpc[h] = "count"
  /\ Rest(h, "recv")
  /\ size' = size + 1 /\ lock' = Nobody
  /\ UNCHANGED <<first, last, cell, used, order, gone, readerVars, culprit>>

\* memcpy of the name into the node found before, under the lock.
Rename(h) ==
  /\ hpc[h] = "rename" /\ lock = Nobody
  /\ hcur[h] \in used
  /\ cell' = [cell EXCEPT ![hcur[h]].named = rec[h].named]
  /\ Rest(h, "recv")
  /\ UNCHANGED <<size, first, last, used, order, lock, gone, readerVars, culprit>>

RenameFreed(h) ==
  /\ hpc[h] = "rename" /\ lock = Nobody
  /\ hcur[h] \notin used
  /\ GoesWrong(h)

-----------------------------------------------------------------------------
(* list_get                                                                *)

ReaderGoes(r, from, to) == rpc[r] = from /\ rpc' = [rpc EXCEPT ![r] = to]

GetSize(r) ==
  /\ ReaderGoes(r, "get", IF idx[r] < size THEN "first" ELSE "use")
  /\ rcur' = [rcur EXCEPT ![r] = NULL]
  /\ UNCHANGED <<listVars, lock, gone, handlerVars, idx, hop, count, dest,
                 overtaken, culprit>>

GetFirst(r) ==
  /\ ReaderGoes(r, "first", "hop")
  /\ rcur' = [rcur EXCEPT ![r] = first] /\ hop' = [hop EXCEPT ![r] = 0]
  /\ UNCHANGED <<listVars, lock, gone, handlerVars, idx, count, dest,
                 overtaken, culprit>>

GetNext(r) ==
  /\ rpc[r] = "hop" /\ hop[r] < idx[r] /\ rcur[r] # NULL
  /\ rcur' = [rcur EXCEPT ![r] = cell[rcur[r]].succ]
  /\ hop' = [hop EXCEPT ![r] = @ + 1]
  /\ UNCHANGED <<listVars, lock, gone, handlerVars, rpc, idx, count, dest,
                 overtaken, culprit>>

\* The list is shorter than list_get believes.
GetPastEnd(r) ==
  /\ rpc[r] = "hop" /\ hop[r] < idx[r] /\ rcur[r] = NULL
  /\ GoesWrong(r)

GetDone(r) ==
  /\ ReaderGoes(r, "hop", "use")
  /\ hop[r] = idx[r]
  /\ hop' = [hop EXCEPT ![r] = 0]
  /\ UNCHANGED <<listVars, lock, gone, handlerVars, rcur, idx, count, dest,
                 overtaken, culprit>>

-----------------------------------------------------------------------------
(* setup_tcp_communication                                                 *)

RoundTest ==
  /\ ReaderGoes(Round, "test", "get")
  /\ idx[Round] < size
  /\ Enters(Round)
  /\ UNCHANGED <<listVars, lock, gone, handlerVars, rcur, idx, hop, count, dest,
                 culprit>>

\* Mutant: the next round goes on at the old index.
RoundSleepOn ==
  /\ rpc[Round] = "test" /\ idx[Round] >= size
  /\ UNCHANGED vars

RoundSleep ==
  /\ rpc[Round] = "test" /\ idx[Round] >= size
  /\ idx' = [idx EXCEPT ![Round] = 0]
  /\ UNCHANGED <<listVars, lock, gone, handlerVars, rpc, rcur, hop, count, dest,
                 overtaken, culprit>>

\* pthread_create; synch is given whatever list_get returned.
Spawn(s) ==
  /\ rpc[Round] = "use" /\ rpc[s] = "idle"
  /\ rpc' = [rpc EXCEPT ![Round] = "test", ![s] = "start"]
  /\ rcur' = [rcur EXCEPT ![s] = rcur[Round], ![Round] = NULL]
  /\ idx' = [idx EXCEPT ![Round] = @ + 1]
  /\ overtaken' = (overtaken \ {Round}) \cup
                  (IF Round \in overtaken THEN {s} ELSE {})
  /\ UNCHANGED <<listVars, lock, gone, handlerVars, hop, count, dest, culprit>>

-----------------------------------------------------------------------------
(* synch                                                                   *)

\* close and pthread_exit.
Exit(s) ==
  /\ rpc' = [rpc EXCEPT ![s] = "idle"]
  /\ rcur' = [rcur EXCEPT ![s] = NULL]
  /\ idx' = [idx EXCEPT ![s] = 0]
  /\ count' = [count EXCEPT ![s] = 0] /\ dest' = [dest EXCEPT ![s] = NULL]
  /\ overtaken' = overtaken \ {s}

\* node->port and node->addr, of a freed cell the old ones.
ReadNode(s) ==
  /\ ReaderGoes(s, "start", "connect")
  /\ rcur[s] # NULL
  /\ dest' = [dest EXCEPT ![s] = cell[rcur[s]].key]
  /\ UNCHANGED <<listVars, lock, gone, handlerVars, rcur, idx, hop, count,
                 overtaken, culprit>>

\* list_get returned NULL, which nobody tests.
ReadNull(s) ==
  /\ rpc[s] \in {"start", "use"} /\ rcur[s] = NULL
  /\ GoesWrong(s)

Connect(s) ==
  /\ ReaderGoes(s, "connect", "status")
  /\ dest[s] \notin gone
  /\ UNCHANGED <<listVars, lock, gone, handlerVars, rcur, idx, hop, count, dest,
                 overtaken, culprit>>

\* The peer is gone, or cannot be reached now.
ConnectFails(s) ==
  /\ ReaderGoes(s, "connect", "delete")
  /\ UNCHANGED <<listVars, lock, gone, handlerVars, rcur, idx, hop, count, dest,
                 overtaken, culprit>>

\* The status that was received is not 1.
NotReady(s) ==
  /\ ReaderGoes(s, "status", "delete")
  /\ UNCHANGED <<listVars, lock, gone, handlerVars, rcur, idx, hop, count, dest,
                 overtaken, culprit>>

\* A send or recv fails, or the peer closes the connection.
SyncFails(s) ==
  /\ rpc[s] = "status" \/ (rpc[s] = "use" /\ rcur[s] # NULL)
  /\ Exit(s)
  /\ UNCHANGED <<listVars, lock, gone, handlerVars, hop, culprit>>

\* The status is 1: the introduction, and the number of nodes.
SyncCount(s) ==
  /\ ReaderGoes(s, "status", "test")
  /\ count' = [count EXCEPT ![s] = size]
  /\ rcur' = [rcur EXCEPT ![s] = NULL]
  /\ Enters(s)
  /\ UNCHANGED <<listVars, lock, gone, handlerVars, idx, hop, dest, culprit>>

\* Mutant: one record too many is announced.
SyncTestPast(s) ==
  /\ ReaderGoes(s, "test", "get")
  /\ idx[s] <= count[s]
  /\ UNCHANGED <<listVars, lock, gone, handlerVars, rcur, idx, hop, count, dest,
                 overtaken, culprit>>

SyncTest(s) ==
  /\ ReaderGoes(s, "test", "get")
  /\ idx[s] < count[s]
  /\ UNCHANGED <<listVars, lock, gone, handlerVars, rcur, idx, hop, count, dest,
                 overtaken, culprit>>

SyncSend(s) ==
  /\ ReaderGoes(s, "use", "test")
  /\ rcur[s] # NULL
  /\ rcur' = [rcur EXCEPT ![s] = NULL]
  /\ idx' = [idx EXCEPT ![s] = @ + 1]
  /\ UNCHANGED <<listVars, lock, gone, handlerVars, hop, count, dest, overtaken,
                 culprit>>

SyncDone(s) ==
  /\ rpc[s] = "test" /\ idx[s] >= count[s]
  /\ Exit(s)
  /\ UNCHANGED <<listVars, lock, gone, handlerVars, hop, culprit>>

\* `order' without c, which is in it.
Without(c) ==
  LET i == CHOOSE j \in 1..Len(order) : order[j] = c
  IN  [j \in 1 .. Len(order) - 1 |-> order[IF j < i THEN j ELSE j + 1]]

\* Mutant: the last node is taken out, and `last' stays.
UnlinkKeepsLast(s) ==
  LET c == rcur[s]
      p == cell[c].pred
      n == cell[c].succ
  IN  /\ ReaderGoes(s, "delete", "free")
      /\ lock = Nobody /\ lock' = s
      /\ c \in used
      /\ first' = IF p = NULL THEN n ELSE first
      /\ last' = last
      /\ cell' = [d \in Cells |->
                    [cell[d] EXCEPT !.succ = IF d = p THEN n ELSE @,
                                    !.pred = IF d = n THEN p ELSE @]]
      /\ order' = Without(c)
      /\ overtaken' = (overtaken \cup {t \in Threads : InTheList(t)}) \ {s}
      /\ UNCHANGED <<size, used, gone, handlerVars, rcur, idx, hop, count, dest,
                     culprit>>

\* list_delete_node: the stores that take the node out of the list.
Unlink(s) ==
  LET c == rcur[s]
      p == cell[c].pred
      n == cell[c].succ
  IN  /\ ReaderGoes(s, "delete", "free")
      /\ lock = Nobody /\ lock' = s
      /\ c \in used
      /\ first' = IF p = NULL THEN n ELSE first
      /\ last' = IF n = NULL THEN p ELSE last
      /\ cell' = [d \in Cells |->
                    [cell[d] EXCEPT !.succ = IF d = p THEN n ELSE @,
                                    !.pred = IF d = n THEN p ELSE @]]
      /\ order' = Without(c)
      /\ overtaken' = (overtaken \cup {t \in Threads : InTheList(t)}) \ {s}
      /\ UNCHANGED <<size, used, gone, handlerVars, rcur, idx, hop, count, dest,
                     culprit>>

\* The node was deleted by another thread: its links are old, and free is
\* called a second time.
UnlinkFreed(s) ==
  /\ rpc[s] = "delete" /\ lock = Nobody
  /\ rcur[s] \notin used
  /\ GoesWrong(s)

FreeNode(s) ==
  /\ ReaderGoes(s, "free", "shrink")
  /\ used' = used \ {rcur[s]}
  /\ UNCHANGED <<size, first, last, cell, order, lock, gone, handlerVars, rcur,
                 idx, hop, count, dest, overtaken, culprit>>

Shrink(s) ==
  /\ rpc[s] = "shrink"
  /\ Exit(s)
  /\ size' = size - 1 /\ lock' = Nobody
  /\ UNCHANGED <<first, last, cell, used, order, gone, handlerVars, hop, culprit>>

-----------------------------------------------------------------------------
HandlerStep(h) ==
  \/ WalkNext(h) \/ WalkNamed(h) \/ WalkBlank(h)
  \/ WalkEnd(h) \/ CheckAnswered(h) \/ CheckFails(h) \/ Alloc(h) \/ Link(h)
  \/ Count(h) \/ Rename(h) \/ RenameFreed(h)

ListGet(r) ==
  GetSize(r) \/ GetFirst(r) \/ GetNext(r) \/ GetPastEnd(r) \/ GetDone(r)

RoundStep == RoundTest \/ RoundSleep \/ (\E s \in Syncers : Spawn(s))
             \/ ListGet(Round)

Deletes(s) == Unlink(s) \/ UnlinkFreed(s) \/ FreeNode(s) \/ Shrink(s)

SyncStep(s) ==
  \/ ReadNode(s) \/ ReadNull(s) \/ Connect(s) \/ ConnectFails(s) \/ NotReady(s)
  \/ SyncFails(s) \/ SyncCount(s) \/ SyncTest(s) \/ SyncSend(s) \/ SyncDone(s)
  \/ Deletes(s) \/ ListGet(s)

Next ==
  /\ culprit = Nobody
  /\ \/ \E k \in Keys : Leave(k)
     \/ \E h \in Handlers : RecvIntroduction(h) \/ RecvRecord(h) \/ EndSession(h)
                            \/ HandlerStep(h)
     \/ RoundStep
     \/ \E s \in Syncers : SyncStep(s)

Spec == Init /\ [][Next]_vars

\* Threads are scheduled, and the mutex is given to all that wait for it.
Fairness ==
  /\ \A h \in Handlers : WF_vars(HandlerStep(h)) /\ SF_vars(Alloc(h) \/ Rename(h))
  /\ WF_vars(RoundStep) /\ SF_vars(\E s \in Syncers : Spawn(s))
  /\ \A s \in Syncers : WF_vars(SyncStep(s)) /\ SF_vars(Unlink(s))

FairSpec == Spec /\ Fairness

-----------------------------------------------------------------------------
\* The type of every variable.
TypeOK ==
  /\ size \in Nat /\ {first, last} \subseteq Cells \cup {NULL}
  /\ cell \in [Cells -> Cell] /\ used \subseteq Cells
  /\ lock \in Threads \cup {Nobody} /\ order \in Seq(Cells)
  /\ gone \subseteq Keys
  /\ hpc \in [Handlers -> {"idle", "recv", "walk", "check", "insert", "link",
                           "count", "rename"}]
  /\ hcur \in [Handlers -> Cells \cup {NULL}] /\ rec \in [Handlers -> Record]
  /\ rpc \in [Readers -> {"idle", "start", "connect", "status", "delete", "free",
                          "shrink", "test", "get", "first", "hop", "use"}]
  /\ rcur \in [Readers -> Cells \cup {NULL}]
  /\ idx \in [Readers -> Nat] /\ hop \in [Readers -> Nat]
  /\ count \in [Syncers -> Nat] /\ dest \in [Syncers -> Keys \cup {NULL}]
  /\ overtaken \subseteq Threads /\ culprit \in Threads \cup {Nobody}

Linked == Len(order)
Adding == Cardinality({h \in Handlers : hpc[h] = "count"})
Taking == Cardinality({s \in Syncers : rpc[s] \in {"free", "shrink"}})

\* The pointers first, last, succ and pred and the number size agree on one
\* chain of allocated nodes, up to the stores that the holder of the lock has
\* yet to do (linked_list.c:46-73, 112-140).
ListWhole ==
  /\ size + Adding = Linked + Taking
  /\ \A i, j \in 1..Linked : order[i] = order[j] => i = j
  /\ \A i \in 1..Linked :
       /\ order[i] \in used
       /\ cell[order[i]].succ = IF i < Linked THEN order[i + 1] ELSE NULL
       /\ cell[order[i]].pred = IF i > 1 THEN order[i - 1] ELSE NULL
  /\ first = IF Linked > 0 THEN order[1] ELSE NULL
  /\ (\A h \in Handlers : hpc[h] # "link") =>
       last = IF Linked > 0 THEN order[Linked] ELSE NULL

\* However threads with old pointers and numbers come and go, as long as the
\* process runs the list is well formed (linked_list.c:46-73, 112-140).
Inv == TypeOK /\ ListWhole

\* What the thread is about to follow, NULL included.
Follows(t) ==
  IF t \in Handlers
  THEN IF hpc[t] \in {"walk", "rename"} THEN {hcur[t]} \ {NULL} ELSE {}
  ELSE IF \/ rpc[t] \in {"start", "connect", "status", "delete", "use"}
          \/ rpc[t] = "hop" /\ hop[t] < idx[t]
       THEN {rcur[t]} ELSE {}

\* The node it holds belongs to another peer than when it read it.
Mistakes(t) ==
  \/ t \in Handlers /\ hpc[t] = "rename" /\ cell[hcur[t]].key # rec[t].key
  \/ /\ t \in Syncers /\ rpc[t] \in {"connect", "status", "delete"}
     /\ cell[rcur[t]].key # dest[t]

\* A thread follows NULL, touches a freed node or takes one peer's node for
\* another's only if it was in the middle of the list, without the lock, when
\* a deletion was: walks, rounds and deletions that do not overlap a deletion
\* are safe (P2P.c:123-258, 405-414, linked_list.c:158-167).
OnlyOvertakenStray ==
  /\ culprit # Nobody => culprit \in overtaken
  /\ \A t \in Threads : ~(Follows(t) \subseteq used) \/ Mistakes(t) => t \in overtaken

\* A peer that has exited does not stay in the list: some round reaches its
\* entry, whatever entries before it come and go, and the connection fails
\* (P2P.c:150-158, 249-258), unless the process went wrong before.
Listed(k) == \E i \in 1..Linked : cell[order[i]].key = k
GoneIsDeleted ==
  \A k \in Keys : (k \in gone /\ Listed(k)) ~> (~Listed(k) \/ culprit # Nobody)

Listing == [i \in 1..Linked |-> [key |-> cell[order[i]].key,
                                 named |-> cell[order[i]].named]]
Abstract == INSTANCE PeerTable WITH table <- Listing

\* To a reader that holds the lock the list is a table: entries come at the
\* end, and one that goes leaves the order and the addresses of the others as
\* they are (linked_list.c:46-73, 112-140, P2P.c:566-576, 638-655).
ListIsPeerTable == Abstract!Spec
=============================================================================
