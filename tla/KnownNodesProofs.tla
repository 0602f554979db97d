-------------------------- MODULE KnownNodesProofs --------------------------
(***************************************************************************)
(* Proofs about KnownNodes, for any number of handler and synch threads    *)
(* and any number of peers.  Inv of KnownNodes is inductive.  Handler      *)
(* steps leave the readers' variables alone and only extend what readers   *)
(* see (ReaderFrame); reader steps leave the list and the handlers alone   *)
(* (HandlerFrame); so each action needs an argument for one side only.     *)
(***************************************************************************)
EXTENDS KnownNodes, TLAPS

-----------------------------------------------------------------------------
(* Updates of one field of one node.                                       *)

LEMMA SuccField ==
  ASSUME NEW c \in Cell, NEW n \in Nat
  PROVE  [c EXCEPT !.succ = n] = [key |-> c.key, name |-> c.name, succ |-> n, pred |-> c.pred]
<1>1. PICK a, b, d, e : c = [key |-> a, name |-> b, succ |-> d, pred |-> e]
  <2>1. c = [key |-> c.key, name |-> c.name, succ |-> c.succ, pred |-> c.pred]
    BY DEF Cell
  <2> QED
    BY <2>1, Zenon
<1>2. c.key = a /\ c.name = b /\ c.pred = e
  BY <1>1
<1>3. [[key |-> a, name |-> b, succ |-> d, pred |-> e] EXCEPT !.succ = n]
        = [key |-> a, name |-> b, succ |-> n, pred |-> e]
  OBVIOUS
<1> QED
  BY <1>1, <1>2, <1>3, Zenon

LEMMA SuccUpdate ==
  ASSUME NEW s \in Seq(Cell), NEW j \in 1..Len(s), NEW n \in Nat
  PROVE  LET t == [s EXCEPT ![j].succ = n]
         IN /\ t \in Seq(Cell)
            /\ Len(t) = Len(s)
            /\ \A i \in 1..Len(s) :
                 /\ t[i].key = s[i].key /\ t[i].name = s[i].name
                 /\ t[i].pred = s[i].pred
                 /\ t[i].succ = IF i = j THEN n ELSE s[i].succ
<1>1. PICK c \in Cell : c = s[j]
  OBVIOUS
<1>2. PICK d \in Cell : d = [c EXCEPT !.succ = n]
  BY DEF Cell
<1>3. d.key = c.key /\ d.name = c.name /\ d.pred = c.pred /\ d.succ = n
  BY <1>2, SuccField
<1>4. [s EXCEPT ![j].succ = n] = [s EXCEPT ![j] = d]
  BY <1>1, <1>2, Zenon
<1> QED
  BY <1>1, <1>3, <1>4

LEMMA NameField ==
  ASSUME NEW c \in Cell, NEW n \in Names
  PROVE  [c EXCEPT !.name = n] = [key |-> c.key, name |-> n, succ |-> c.succ, pred |-> c.pred]
<1>1. PICK a, b, d, e : c = [key |-> a, name |-> b, succ |-> d, pred |-> e]
  <2>1. c = [key |-> c.key, name |-> c.name, succ |-> c.succ, pred |-> c.pred]
    BY DEF Cell
  <2> QED
    BY <2>1, Zenon
<1>2. c.key = a /\ c.succ = d /\ c.pred = e
  BY <1>1
<1>3. [[key |-> a, name |-> b, succ |-> d, pred |-> e] EXCEPT !.name = n]
        = [key |-> a, name |-> n, succ |-> d, pred |-> e]
  OBVIOUS
<1> QED
  BY <1>1, <1>2, <1>3, Zenon

LEMMA NameUpdate ==
  ASSUME NEW s \in Seq(Cell), NEW j \in 1..Len(s), NEW n \in Names
  PROVE  LET t == [s EXCEPT ![j].name = n]
         IN /\ t \in Seq(Cell)
            /\ Len(t) = Len(s)
            /\ \A i \in 1..Len(s) :
                 /\ t[i].key = s[i].key /\ t[i].succ = s[i].succ
                 /\ t[i].pred = s[i].pred
                 /\ t[i].name = IF i = j THEN n ELSE s[i].name
<1>1. PICK c \in Cell : c = s[j]
  OBVIOUS
<1>2. PICK d \in Cell : d = [c EXCEPT !.name = n]
  BY DEF Cell
<1>3. d.key = c.key /\ d.succ = c.succ /\ d.pred = c.pred /\ d.name = n
  BY <1>2, NameField
<1>4. [s EXCEPT ![j].name = n] = [s EXCEPT ![j] = d]
  BY <1>1, <1>2, Zenon
<1> QED
  BY <1>1, <1>3, <1>4

-----------------------------------------------------------------------------
(* Frame lemmas.                                                           *)

LEMMA CountedNodes == ASSUME Inv PROVE size \in Nat /\ size <= Linked /\ Linked <= Len(heap)
  BY DEF Inv, TypeOK, ListTypes, ListShape, Inserting, Linked

LEMMA ReaderFrame ==
  ASSUME Inv, UNCHANGED readerVars,
         size' \in Nat, size <= size',
         \A i \in 1..size : heap'[i].key = heap[i].key
  PROVE  ReaderTypes' /\ ReaderView' /\ SyncInOrder'
<1>1. ReaderTypes'
  BY DEF Inv, TypeOK, ReaderTypes, readerVars
<1>2. ReaderView'
  BY DEF Inv, TypeOK, ListTypes, ReaderTypes, ReaderView, readerVars, Readers
<1>3. SyncInOrder'
  <2> SUFFICES ASSUME NEW s \in Syncers, rpc[s] \in {"test", "get", "first", "hop", "use"}
               PROVE  SendsPrefix(s)'
    BY DEF SyncInOrder, readerVars
  <2>1. SendsPrefix(s)
    BY DEF Inv, SyncInOrder
  <2>2. /\ sent[s] \in Seq(Keys) /\ count[s] \in Nat /\ idx[s] \in Nat
        /\ size \in Nat
    BY DEF Inv, TypeOK, ListTypes, ReaderTypes, Readers
  <2>3. 1..Len(sent[s]) \subseteq 1..size
    BY <2>1, <2>2 DEF SendsPrefix
  <2>4. sent' = sent /\ count' = count /\ idx' = idx
    BY DEF readerVars
  <2> QED
    BY <2>1, <2>2, <2>3, <2>4 DEF SendsPrefix
<1> QED
  BY <1>1, <1>2, <1>3

LEMMA HandlerFrame ==
  ASSUME Inv, UNCHANGED <<listVars, handlerVars>>
  PROVE  /\ ListTypes' /\ HandlerTypes'
         /\ ListShape' /\ HandlerView' /\ OneCopyPerHandler'
<1> USE DEF Inv, listVars, handlerVars
<1>1. ListTypes' /\ HandlerTypes'
  BY DEF TypeOK, ListTypes, HandlerTypes
<1>2. ListShape'
  BY DEF ListShape, Inserting, Linked
<1>3. HandlerView'
  BY DEF HandlerView, LookUp, Linked
<1>4. OneCopyPerHandler'
  BY DEF OneCopyPerHandler
<1> QED
  BY <1>1, <1>2, <1>3, <1>4

\* A handler outside the critical section moves without touching the list.
LEMMA OutsideFrame ==
  ASSUME Inv, NEW h \in Handlers, UNCHANGED <<listVars, readerVars>>,
         NEW l \in HandlerLabels \ Critical,
         hpc[h] \notin Critical, hpc' = [hpc EXCEPT ![h] = l]
  PROVE  /\ ListTypes' /\ ListShape' /\ OneCopyPerHandler'
         /\ ReaderTypes' /\ ReaderView' /\ SyncInOrder'
         /\ Linked' = Linked /\ lock # h
<1> USE DEF Inv, listVars
<1>1. ListTypes' /\ OneCopyPerHandler'
  BY DEF TypeOK, ListTypes, OneCopyPerHandler
<1>2. lock # h
  BY DEF ListShape
<1>3. \A g \in Handlers : g # h => hpc'[g] = hpc[g]
  BY DEF TypeOK, HandlerTypes
<1>4. Linked' = Linked /\ Inserting' = Inserting
  BY <1>2, <1>3 DEF TypeOK, ListTypes, Linked, Inserting
<1>5. ListShape'
  BY <1>2, <1>3, <1>4 DEF TypeOK, HandlerTypes, ListShape
<1>6. ReaderTypes' /\ ReaderView' /\ SyncInOrder'
  BY ReaderFrame DEF TypeOK, ListTypes
<1> QED
  BY <1>1, <1>2, <1>4, <1>5, <1>6

-----------------------------------------------------------------------------
(* Initial states.                                                         *)

LEMMA InitInv == Init => Inv
<1> SUFFICES ASSUME Init PROVE Inv
  OBVIOUS
<1> USE ConstantsAssumption
<1>1. ListTypes /\ ListShape /\ OneCopyPerHandler
  <2>1. CASE Empty
    BY <2>1 DEF Init, Empty, ListTypes, ListShape, OneCopyPerHandler, Critical,
                Inserting, Linked, NULL
  <2>2. CASE Seeded
    <3>1. PICK k \in Keys : heap = << [key |-> k, name |-> NoName, succ |-> NULL, pred |-> NULL] >>
      BY <2>2 DEF Seeded
    <3>2. heap \in Seq(Cell) /\ by \in Seq(Handlers \cup {Main}) /\ Len(heap) = 1 /\ Len(by) = 1
      BY <2>2, <3>1 DEF Seeded, Cell, NULL
    <3>3. heap[1].succ = 0 /\ heap[1].pred = 0
      BY <3>1 DEF NULL
    <3> QED
      BY <2>2, <3>2, <3>3 DEF Init, Seeded, ListTypes, ListShape, OneCopyPerHandler,
                Critical, Inserting, Linked, NULL
  <2> QED
    BY <2>1, <2>2 DEF Init
<1>2. HandlerTypes /\ ReaderTypes
  BY DEF Init, HandlerTypes, ReaderTypes, HandlerLabels, ReaderLabels, NULL, Readers
<1>3. HandlerView
  BY DEF Init, HandlerView, LookUp, NULL
<1>4. ReaderView /\ SyncInOrder
  BY DEF Init, ReaderView, SyncInOrder, Readers
<1> QED
  BY <1>1, <1>2, <1>3, <1>4 DEF Inv, TypeOK

-----------------------------------------------------------------------------
(* Handler steps.                                                          *)

LEMMA RecvRecordInv == ASSUME Inv, NEW h \in Handlers, RecvRecord(h) PROVE Inv'
<1>1. hpc[h] = "recv" /\ hpc' = [hpc EXCEPT ![h] = "walk"]
  BY DEF RecvRecord, HandlerGoes
<1>2. PICK r \in Record : rec' = [rec EXCEPT ![h] = r]
  BY DEF RecvRecord
<1>3. hcur' = [hcur EXCEPT ![h] = first] /\ UNCHANGED <<listVars, readerVars>>
  BY DEF RecvRecord
<1>4. /\ ListTypes' /\ ListShape' /\ OneCopyPerHandler'
      /\ ReaderTypes' /\ ReaderView' /\ SyncInOrder'
      /\ Linked' = Linked /\ lock # h
  BY <1>1, <1>3, OutsideFrame DEF HandlerLabels, Critical
<1>5. HandlerTypes'
  BY <1>1, <1>2, <1>3 DEF Inv, TypeOK, ListTypes, HandlerTypes, HandlerLabels
<1>6. \A i \in 1..Len(heap) : i <= Linked \/ by[i] # h
  BY <1>4 DEF Inv, TypeOK, ListTypes, ListShape, Linked, Inserting
<1>7. HandlerView'
  <2> SUFFICES ASSUME NEW g \in Handlers
               PROVE  LookUp(g)'
    BY DEF HandlerView
  <2>1. CASE g = h
    <3>1. hpc'[h] = "walk" /\ hcur'[h] = first /\ heap' = heap /\ by' = by
      BY <1>1, <1>3 DEF Inv, TypeOK, HandlerTypes, listVars
    <3>2. first = IF Linked = 0 THEN 0 ELSE 1
      BY DEF Inv, ListShape, NULL
    <3>3. Linked \in Nat
      BY CountedNodes DEF Linked, Inv, TypeOK, ListTypes
    <3> QED
      BY <2>1, <3>1, <3>2, <3>3, <1>4, <1>6 DEF Inv, TypeOK, ListTypes, LookUp, NULL
  <2>2. CASE g # h
    BY <2>2, <1>1, <1>2, <1>3, <1>4 DEF Inv, TypeOK, HandlerTypes, HandlerView, LookUp, listVars
  <2> QED
    BY <2>1, <2>2
<1> QED
  BY <1>4, <1>5, <1>7 DEF Inv, TypeOK

LEMMA WalkNextInv == ASSUME Inv, NEW h \in Handlers, WalkNext(h) PROVE Inv'
<1>1. hpc[h] = "walk" /\ hpc' = [hpc EXCEPT ![h] = "walk"]
  BY DEF WalkNext, Inv, TypeOK, HandlerTypes
<1>2. /\ UNCHANGED <<listVars, rec, readerVars>>
      /\ hcur[h] # NULL /\ heap[hcur[h]].key # rec[h].key
      /\ hcur' = [hcur EXCEPT ![h] = heap[hcur[h]].succ]
  BY DEF WalkNext
<1>3. /\ ListTypes' /\ ListShape' /\ OneCopyPerHandler'
      /\ ReaderTypes' /\ ReaderView' /\ SyncInOrder'
      /\ Linked' = Linked /\ lock # h
  BY <1>1, <1>2, OutsideFrame DEF HandlerLabels, Critical
<1>4. Linked \in Nat /\ Linked <= Len(heap) /\ Len(heap) \in Nat
  BY CountedNodes DEF Linked, Inv, TypeOK, ListTypes
<1>5. /\ hcur[h] \in 1..Linked
      /\ heap[hcur[h]].succ = IF hcur[h] < Linked THEN hcur[h] + 1 ELSE 0
  BY <1>1, <1>2, <1>4 DEF Inv, HandlerView, LookUp, ListShape, NULL
<1>6. HandlerTypes'
  BY <1>1, <1>2, <1>4, <1>5 DEF Inv, TypeOK, HandlerTypes
<1>7. \A i \in 1..Len(heap) : i <= Linked \/ by[i] # h
  BY <1>3 DEF Inv, TypeOK, ListTypes, ListShape, Linked, Inserting
<1>8. \A i \in 1..Len(heap) : i <= hcur[h] => heap[i].key # rec[h].key
  BY <1>1, <1>2, <1>5 DEF Inv, HandlerView, LookUp
<1>9. HandlerView'
  <2> SUFFICES ASSUME NEW g \in Handlers PROVE LookUp(g)'
    BY DEF HandlerView
  <2>1. CASE g = h
    <3>1. /\ hpc'[h] = "walk" /\ heap' = heap /\ by' = by /\ rec' = rec
          /\ hcur'[h] = IF hcur[h] < Linked THEN hcur[h] + 1 ELSE 0
      BY <1>1, <1>2, <1>5 DEF Inv, TypeOK, HandlerTypes, listVars
    <3> QED
      BY <2>1, <3>1, <1>3, <1>4, <1>5, <1>7, <1>8 DEF LookUp, NULL
  <2>2. CASE g # h
    BY <2>2, <1>1, <1>2, <1>3 DEF Inv, TypeOK, HandlerTypes, HandlerView, LookUp, listVars
  <2> QED
    BY <2>1, <2>2
<1> QED
  BY <1>3, <1>6, <1>9 DEF Inv, TypeOK

LEMMA WalkStopsInv ==
  ASSUME Inv, NEW h \in Handlers, WalkNamed(h) \/ WalkBlank(h) \/ WalkEnd(h)
  PROVE  Inv'
<1>1. PICK l \in {"recv", "lock"} : hpc' = [hpc EXCEPT ![h] = l]
  BY DEF WalkNamed, WalkBlank, WalkEnd, HandlerGoes
<1>2. hpc[h] = "walk" /\ UNCHANGED <<listVars, hcur, rec, readerVars>>
  BY DEF WalkNamed, WalkBlank, WalkEnd, HandlerGoes
<1>3. /\ ListTypes' /\ ListShape' /\ OneCopyPerHandler'
      /\ ReaderTypes' /\ ReaderView' /\ SyncInOrder'
      /\ Linked' = Linked
  BY <1>1, <1>2, OutsideFrame DEF HandlerLabels, Critical
<1>4. HandlerTypes'
  BY <1>1, <1>2 DEF Inv, TypeOK, HandlerTypes, HandlerLabels
<1>5. HandlerView'
  BY <1>1, <1>2, <1>3 DEF Inv, TypeOK, HandlerTypes, HandlerView, LookUp, listVars
<1> QED
  BY <1>3, <1>4, <1>5 DEF Inv, TypeOK

LEMMA AcquireInv == ASSUME Inv, NEW h \in Handlers, Acquire(h) PROVE Inv'
<1> DEFINE l == IF hcur[h] = NULL THEN "alloc" ELSE "rename"
<1>1. /\ hpc[h] = "lock" /\ hpc' = [hpc EXCEPT ![h] = l]
      /\ lock = Free /\ lock' = h
      /\ UNCHANGED <<size, first, last, heap, by, hcur, rec, readerVars>>
  BY DEF Acquire, HandlerGoes
<1>2. ListTypes' /\ HandlerTypes' /\ OneCopyPerHandler'
  BY <1>1 DEF Inv, TypeOK, ListTypes, HandlerTypes, HandlerLabels, OneCopyPerHandler
<1>3. \A g \in Handlers : hpc'[g] = IF g = h THEN l ELSE hpc[g]
  BY <1>1 DEF Inv, TypeOK, HandlerTypes
<1>4. ~Inserting /\ ~Inserting' /\ Linked = Len(heap) /\ Linked' = Len(heap)
  BY <1>1, <1>3 DEF Inserting, Linked
<1>5. ListShape'
  <2>1. \A g \in Handlers : g # Free
    BY ConstantsAssumption
  <2>2. \A g \in Handlers : hpc'[g] \in Critical <=> lock' = g
    BY <1>1, <1>3, <2>1 DEF Inv, ListShape, Critical
  <2> QED
    BY <1>1, <1>4, <2>2 DEF Inv, ListShape
<1>6. HandlerView'
  BY <1>1, <1>3, <1>4 DEF Inv, HandlerView, LookUp
<1>7. ReaderTypes' /\ ReaderView' /\ SyncInOrder'
  BY <1>1, ReaderFrame DEF Inv, TypeOK, ListTypes
<1> QED
  BY <1>2, <1>5, <1>6, <1>7 DEF Inv, TypeOK

LEMMA UnlockInv == ASSUME Inv, NEW h \in Handlers, Unlock(h) PROVE Inv'
<1>1. /\ hpc[h] = "unlock" /\ hpc' = [hpc EXCEPT ![h] = "recv"]
      /\ lock' = Free
      /\ UNCHANGED <<size, first, last, heap, by, hcur, rec, readerVars>>
  BY DEF Unlock, HandlerGoes
<1>2. ListTypes' /\ HandlerTypes' /\ OneCopyPerHandler'
  BY <1>1 DEF Inv, TypeOK, ListTypes, HandlerTypes, HandlerLabels, OneCopyPerHandler
<1>3. \A g \in Handlers : hpc'[g] = IF g = h THEN "recv" ELSE hpc[g]
  BY <1>1 DEF Inv, TypeOK, HandlerTypes
<1>4. lock = h
  BY <1>1 DEF Inv, ListShape, Critical
<1>5. ~Inserting /\ ~Inserting' /\ Linked = Len(heap) /\ Linked' = Len(heap)
  BY <1>1, <1>4 DEF Inserting, Linked
<1>6. ListShape'
  <2>1. \A g \in Handlers : hpc'[g] \in Critical <=> lock' = g
    BY <1>1, <1>3, <1>4, ConstantsAssumption DEF Inv, ListShape, Critical
  <2> QED
    BY <1>1, <1>5, <2>1 DEF Inv, ListShape
<1>7. HandlerView'
  BY <1>1, <1>3, <1>5 DEF Inv, HandlerView, LookUp
<1>8. ReaderTypes' /\ ReaderView' /\ SyncInOrder'
  BY <1>1, ReaderFrame DEF Inv, TypeOK, ListTypes
<1> QED
  BY <1>2, <1>6, <1>7, <1>8 DEF Inv, TypeOK

LEMMA CountInv == ASSUME Inv, NEW h \in Handlers, Count(h) PROVE Inv'
<1>1. /\ hpc[h] = "count" /\ hpc' = [hpc EXCEPT ![h] = "unlock"]
      /\ size' = size + 1
      /\ UNCHANGED <<first, last, heap, lock, by, hcur, rec, readerVars>>
  BY DEF Count, HandlerGoes
<1>2. ListTypes' /\ HandlerTypes' /\ OneCopyPerHandler'
  BY <1>1 DEF Inv, TypeOK, ListTypes, HandlerTypes, HandlerLabels, OneCopyPerHandler
<1>3. \A g \in Handlers : hpc'[g] = IF g = h THEN "unlock" ELSE hpc[g]
  BY <1>1 DEF Inv, TypeOK, HandlerTypes
<1>4. lock = h /\ lock # Free
  BY <1>1, ConstantsAssumption DEF Inv, ListShape, Critical
<1>5. Inserting /\ ~Inserting' /\ Linked = Len(heap) /\ Linked' = Len(heap)
  BY <1>1, <1>3, <1>4 DEF Inserting, Linked
<1>6. ListShape'
  <2>1. size' = Len(heap)
    BY <1>1, <1>5 DEF Inv, TypeOK, ListTypes, ListShape
  <2>2. \A g \in Handlers : hpc'[g] \in Critical <=> lock' = g
    BY <1>1, <1>3, <1>4 DEF Inv, ListShape, Critical
  <2> QED
    BY <1>1, <1>5, <2>1, <2>2 DEF Inv, ListShape
<1>7. HandlerView'
  BY <1>1, <1>3, <1>5 DEF Inv, HandlerView, LookUp
<1>8. ReaderTypes' /\ ReaderView' /\ SyncInOrder'
  BY <1>1, ReaderFrame DEF Inv, TypeOK, ListTypes
<1> QED
  BY <1>2, <1>6, <1>7, <1>8 DEF Inv, TypeOK

LEMMA RenameInv == ASSUME Inv, NEW h \in Handlers, Rename(h) PROVE Inv'
<1>1. /\ hpc[h] = "rename" /\ hpc' = [hpc EXCEPT ![h] = "unlock"]
      /\ heap' = [heap EXCEPT ![hcur[h]].name = rec[h].name]
      /\ UNCHANGED <<size, first, last, lock, by, hcur, rec, readerVars>>
  BY DEF Rename, HandlerGoes
<1>2. lock = h /\ lock # Free
  BY <1>1, ConstantsAssumption DEF Inv, ListShape, Critical
<1>3. ~Inserting /\ ~Inserting' /\ Linked = Len(heap) /\ Linked' = Len(heap')
  BY <1>1, <1>2 DEF Inserting, Linked, Inv, TypeOK, HandlerTypes
<1>4. heap \in Seq(Cell) /\ hcur[h] \in 1..Len(heap) /\ rec[h].name \in Names
  BY <1>1, <1>3 DEF Inv, TypeOK, ListTypes, HandlerTypes, Record, HandlerView, LookUp, NULL
<1>5. /\ heap' \in Seq(Cell) /\ Len(heap') = Len(heap)
      /\ \A i \in 1..Len(heap) : /\ heap'[i].key = heap[i].key
                                 /\ heap'[i].succ = heap[i].succ
                                 /\ heap'[i].pred = heap[i].pred
  BY <1>1, <1>4, NameUpdate
<1> HIDE DEF Rename
<1>6. ListTypes' /\ HandlerTypes' /\ OneCopyPerHandler'
  <2>1. ListTypes'
    BY <1>1, <1>5 DEF Inv, TypeOK, ListTypes
  <2>2. HandlerTypes'
    BY <1>1 DEF Inv, TypeOK, HandlerTypes, HandlerLabels
  <2>3. OneCopyPerHandler'
    BY <1>1, <1>5 DEF Inv, OneCopyPerHandler
  <2> QED
    BY <2>1, <2>2, <2>3
<1>7. \A g \in Handlers : hpc'[g] = IF g = h THEN "unlock" ELSE hpc[g]
  BY <1>1 DEF Inv, TypeOK, HandlerTypes
<1>8. ListShape'
  <2>1. \A g \in Handlers : hpc'[g] \in Critical <=> lock' = g
    BY <1>1, <1>2, <1>7 DEF Inv, ListShape, Critical
  <2> QED
    BY <1>1, <1>3, <1>5, <2>1 DEF Inv, ListShape
<1>9. HandlerView'
  BY <1>1, <1>3, <1>5, <1>7 DEF Inv, HandlerView, LookUp
<1>10. ReaderTypes' /\ ReaderView' /\ SyncInOrder'
  BY <1>1, <1>3, <1>5, CountedNodes, ReaderFrame DEF Inv, TypeOK, ListTypes
<1> QED
  BY <1>6, <1>8, <1>9, <1>10 DEF Inv, TypeOK

LEMMA AllocInv == ASSUME Inv, NEW h \in Handlers, Alloc(h) PROVE Inv'
<1> DEFINE L == Len(heap)
<1>1. /\ hpc[h] = "alloc" /\ hpc' = [hpc EXCEPT ![h] = "link"]
      /\ heap' = Append(heap, [key |-> rec[h].key, name |-> rec[h].name,
                               succ |-> NULL,
                               pred |-> IF size = 0 THEN NULL ELSE last])
      /\ by' = Append(by, h)
      /\ last' = IF size = 0 THEN last ELSE L + 1
      /\ UNCHANGED <<size, first, lock, hcur, rec, readerVars>>
  BY DEF Alloc, HandlerGoes
<1>2. lock = h /\ lock # Free
  BY <1>1, ConstantsAssumption DEF Inv, ListShape, Critical
<1>3. \A g \in Handlers : hpc'[g] = IF g = h THEN "link" ELSE hpc[g]
  BY <1>1 DEF Inv, TypeOK, HandlerTypes
<1>4. L \in Nat /\ Len(by) = L /\ size = L /\ last = L
  BY <1>1, <1>2 DEF Inv, TypeOK, ListTypes, ListShape, Inserting, Linked, NULL
<1>5. /\ heap' \in Seq(Cell) /\ Len(heap') = L + 1
      /\ \A i \in 1..L : heap'[i] = heap[i]
      /\ heap'[L + 1].key = rec[h].key /\ heap'[L + 1].name # NoName
      /\ heap'[L + 1].succ = NULL /\ heap'[L + 1].pred = L
  <2> DEFINE c == [key |-> rec[h].key, name |-> rec[h].name, succ |-> NULL, pred |-> L]
  <2>1. c \in Cell
    BY <1>4 DEF Inv, TypeOK, HandlerTypes, Record, Cell, NULL
  <2>2. heap' = Append(heap, c)
    BY <1>1, <1>4 DEF NULL
  <2>3. c.key = rec[h].key /\ c.succ = NULL /\ c.pred = L /\ c.name # NoName
    BY ConstantsAssumption DEF Inv, TypeOK, HandlerTypes, Record
  <2> HIDE DEF c
  <2> QED
    BY <2>1, <2>2, <2>3 DEF Inv, TypeOK, ListTypes
<1>6. /\ by' \in Seq(Handlers \cup {Main}) /\ Len(by') = L + 1
      /\ \A i \in 1..L : by'[i] = by[i]
      /\ by'[L + 1] = h
  BY <1>1, <1>4 DEF Inv, TypeOK, ListTypes
<1>7. ~Inserting /\ Inserting' /\ Linked = L /\ Linked' = L
  BY <1>1, <1>2, <1>3, <1>4, <1>5 DEF Inserting, Linked
<1>8. ListTypes' /\ HandlerTypes'
  BY <1>1, <1>4, <1>5, <1>6 DEF Inv, TypeOK, ListTypes, HandlerTypes, HandlerLabels
<1>9. ListShape'
  <2>1. \A g \in Handlers : hpc'[g] \in Critical <=> lock' = g
    BY <1>1, <1>2, <1>3 DEF Inv, ListShape, Critical
  <2>2. first' = IF L = 0 THEN NULL ELSE 1
    BY <1>1, <1>7 DEF Inv, ListShape
  <2>3. last' = IF L = 0 THEN NULL ELSE L + 1
    BY <1>1, <1>4 DEF NULL
  <2>4. \A i \in 1..L : heap[i].pred = i - 1 /\ heap[i].succ = IF i < L THEN i + 1 ELSE NULL
    BY <1>7 DEF Inv, ListShape
  <2>5. \A i \in 1..(L + 1) :
          /\ heap'[i].succ = IF i < L THEN i + 1 ELSE NULL
          /\ heap'[i].pred = i - 1
    BY <2>4, <1>4, <1>5
  <2> QED
    BY <1>1, <1>2, <1>4, <1>5, <1>6, <1>7, <2>1, <2>2, <2>3, <2>5 DEF ListShape
<1>10. HandlerView'
  <2> SUFFICES ASSUME NEW g \in Handlers PROVE LookUp(g)'
    BY DEF HandlerView
  <2>1. CASE g = h
    BY <2>1, <1>3 DEF LookUp
  <2>2. CASE g # h
    <3>1. LookUp(g)
      BY DEF Inv, HandlerView
    <3>2. hpc'[g] = hpc[g] /\ hcur' = hcur /\ rec' = rec
      BY <2>2, <1>1, <1>3
    <3>3. L \in Nat /\ Linked' = Linked /\ Len(heap') = L + 1
          /\ \A i \in 1 .. L + 1 : i \in 1..L \/ i = L + 1
      BY <1>4, <1>5, <1>7
    <3>4. ASSUME hpc[g] = "walk", NEW i \in 1..Len(heap'), i < hcur[g]
          PROVE  heap'[i].key # rec[g].key
      <4>1. hcur[g] \in 0..L /\ i \in 1 .. L + 1
        BY <1>7, <3>1, <3>3, <3>4 DEF LookUp
      <4>2. i \in 1..L
        BY <3>3, <3>4, <4>1
      <4>3. heap[i].key # rec[g].key
        BY <3>1, <3>4, <4>2 DEF LookUp
      <4> QED
        BY <1>5, <4>2, <4>3
    <3>5. ASSUME hpc[g] \in {"walk", "lock", "alloc"}, hcur[g] = NULL,
                 NEW i \in 1..Len(heap'), by'[i] = g
          PROVE  heap'[i].key # rec[g].key
      <4>1. i \in 1..L
        BY <1>6, <2>2, <3>3, <3>5
      <4>2. by[i] = g /\ heap'[i] = heap[i]
        BY <1>5, <1>6, <3>5, <4>1
      <4>3. heap[i].key # rec[g].key
        BY <3>1, <3>5, <4>1, <4>2 DEF LookUp
      <4> QED
        BY <4>2, <4>3
    <3> QED
      BY <3>1, <3>2, <3>3, <3>4, <3>5 DEF LookUp
  <2> QED
    BY <2>1, <2>2
<1>11. OneCopyPerHandler'
  <2>1. \A i \in 1..L : by[i] = h => heap[i].key # rec[h].key
    BY <1>1 DEF Inv, HandlerView, LookUp
  <2>2. \A i, j \in 1..L : heap[i].key = heap[j].key /\ by[i] = by[j] => i = j
    BY DEF Inv, OneCopyPerHandler
  <2> QED
    BY <2>1, <2>2, <1>4, <1>5, <1>6 DEF OneCopyPerHandler
<1>12. ReaderTypes' /\ ReaderView' /\ SyncInOrder'
  BY <1>1, <1>4, <1>5, ReaderFrame
<1> QED
  BY <1>8, <1>9, <1>10, <1>11, <1>12 DEF Inv, TypeOK

LEMMA LinkInv == ASSUME Inv, NEW h \in Handlers, Link(h) PROVE Inv'
<1> DEFINE L == Len(heap)
<1>1. /\ hpc[h] = "link" /\ hpc' = [hpc EXCEPT ![h] = "count"]
      /\ UNCHANGED <<size, lock, by, hcur, rec, readerVars>>
  BY DEF Link, HandlerGoes
<1>2. lock = h /\ lock # Free
  BY <1>1, ConstantsAssumption DEF Inv, ListShape, Critical
<1>3. \A g \in Handlers : hpc'[g] = IF g = h THEN "count" ELSE hpc[g]
  BY <1>1 DEF Inv, TypeOK, HandlerTypes
<1>4. /\ L \in Nat /\ L > 0 /\ Inserting /\ Linked = L - 1 /\ size = L - 1
      /\ by[L] = h /\ heap[L].name # NoName
  BY <1>1, <1>2 DEF Inv, TypeOK, ListTypes, ListShape, Inserting, Linked
<1>5. \A i \in 1..L : /\ heap[i].pred = i - 1
                      /\ heap[i].succ = IF i < L - 1 THEN i + 1 ELSE NULL
  BY <1>4 DEF Inv, ListShape
<1>6. /\ heap' \in Seq(Cell) /\ Len(heap') = L
      /\ first' = 1 /\ last' = L
      /\ \A i \in 1..L : /\ heap'[i].key = heap[i].key
                         /\ heap'[i].name = heap[i].name
                         /\ heap'[i].pred = i - 1
                         /\ heap'[i].succ = IF i < L THEN i + 1 ELSE NULL
  <2>1. CASE size = 0
    <3>1. heap' = heap /\ first' = L /\ last' = L /\ L = 1
      BY <2>1, <1>4 DEF Link
    <3>2. heap[1].pred = 0 /\ heap[1].succ = NULL
      BY <3>1, <1>5
    <3>3. heap' \in Seq(Cell) /\ Len(heap') = 1
      BY <3>1 DEF Inv, TypeOK, ListTypes
    <3>4. /\ heap'[1].key = heap[1].key /\ heap'[1].name = heap[1].name
          /\ heap'[1].pred = 0 /\ heap'[1].succ = NULL
      BY <3>1, <3>2
    <3> HIDE DEF L
    <3> QED
      BY <3>1, <3>3, <3>4
  <2>2. CASE size # 0
    <3>1. /\ L - 1 \in 1..L /\ heap[L].pred = L - 1
          /\ heap \in Seq(Cell)
      BY <2>2, <1>4, <1>5 DEF Inv, TypeOK, ListTypes
    <3>2. /\ heap' = [heap EXCEPT ![L - 1].succ = L]
          /\ first' = first /\ last' = last
      BY <2>2, <3>1 DEF Link
    <3>3. first = 1 /\ last = L
      BY <2>2, <1>4 DEF Inv, ListShape
    <3>4. /\ heap' \in Seq(Cell) /\ Len(heap') = L
          /\ \A i \in 1..L : /\ heap'[i].key = heap[i].key
                             /\ heap'[i].name = heap[i].name
                             /\ heap'[i].pred = heap[i].pred
                             /\ heap'[i].succ = IF i = L - 1 THEN L ELSE heap[i].succ
      <4> DEFINE j == L - 1
      <4>1. j \in 1..Len(heap) /\ L \in Nat /\ heap \in Seq(Cell)
        BY <3>1, <1>4
      <4>2. heap' = [heap EXCEPT ![j].succ = L]
        BY <3>2
      <4> HIDE DEF j, L
      <4>3. /\ heap' \in Seq(Cell) /\ Len(heap') = Len(heap)
            /\ \A i \in 1..Len(heap) :
                  /\ heap'[i].key = heap[i].key
                  /\ heap'[i].name = heap[i].name
                  /\ heap'[i].pred = heap[i].pred
                  /\ heap'[i].succ = IF i = j THEN L ELSE heap[i].succ
        BY <4>1, <4>2, SuccUpdate
      <4> QED
        BY <4>3 DEF j, L
    <3> QED
      BY <3>2, <3>3, <3>4, <1>4, <1>5
  <2> QED
    BY <2>1, <2>2
<1>7. Inserting' /\ Linked' = L
  BY <1>1, <1>2, <1>3, <1>6 DEF Inserting, Linked
<1>8. ListTypes' /\ HandlerTypes' /\ OneCopyPerHandler'
  BY <1>1, <1>4, <1>6 DEF Inv, TypeOK, ListTypes, HandlerTypes, HandlerLabels, OneCopyPerHandler
<1>9. ListShape'
  <2>1. \A g \in Handlers : hpc'[g] \in Critical <=> lock' = g
    BY <1>1, <1>2, <1>3 DEF Inv, ListShape, Critical
  <2>2. Len(by') = L
    BY <1>1 DEF Inv, ListShape
  <2> QED
    BY <1>1, <1>2, <1>4, <1>6, <1>7, <2>1, <2>2 DEF ListShape
<1>10. HandlerView'
  <2> SUFFICES ASSUME NEW g \in Handlers PROVE LookUp(g)'
    BY DEF HandlerView
  <2>1. CASE g = h
    BY <2>1, <1>3 DEF LookUp
  <2>2. CASE g # h
    <3>1. LookUp(g) /\ hcur[g] \in Nat
      BY DEF Inv, TypeOK, HandlerTypes, HandlerView
    <3>2. hpc'[g] = hpc[g] /\ hcur' = hcur /\ rec' = rec /\ by' = by
      BY <2>2, <1>1, <1>3
    <3> QED
      BY <3>1, <3>2, <1>4, <1>6, <1>7 DEF LookUp
  <2> QED
    BY <2>1, <2>2
<1>11. ReaderTypes' /\ ReaderView' /\ SyncInOrder'
  BY <1>1, <1>4, <1>6, ReaderFrame
<1> QED
  BY <1>8, <1>9, <1>10, <1>11 DEF Inv, TypeOK

-----------------------------------------------------------------------------
(* Reader steps.                                                           *)

\* A reader's own step moves r, and idx, rcur and hop of r alone.
LEMMA GetInv ==
  ASSUME Inv, NEW r \in Readers, ListGet(r)
  PROVE  Inv'
<1> USE DEF GetSize, GetFirst, GetNext, GetDone, ReaderGoes, Readers
<1>1. UNCHANGED <<listVars, handlerVars, idx, count, sent>>
  BY DEF ListGet
<1>2. /\ ListTypes' /\ HandlerTypes'
      /\ ListShape' /\ HandlerView' /\ OneCopyPerHandler'
  BY <1>1, HandlerFrame
<1>3. UNCHANGED <<size, heap>>
  BY <1>1 DEF listVars
<1>4. size \in Nat /\ size <= Linked /\ Linked <= Len(heap) /\ Len(heap) \in Nat
  BY CountedNodes DEF Inv, TypeOK, ListTypes
<1>5. CASE GetSize(r)
  <2>1. ReaderTypes'
    BY <1>5 DEF Inv, TypeOK, ReaderTypes, ReaderLabels, NULL
  <2>2. ReaderView' /\ SyncInOrder'
    BY <1>5, <1>3 DEF Inv, TypeOK, ReaderTypes, ReaderView, SyncInOrder, SendsPrefix
  <2> QED
    BY <1>2, <2>1, <2>2 DEF Inv, TypeOK
<1>6. CASE GetFirst(r)
  <2>1. first = 1
    BY <1>4, <1>6 DEF Inv, TypeOK, ReaderTypes, ListShape, ReaderView
  <2>2. ReaderTypes'
    BY <1>6, <2>1 DEF Inv, TypeOK, ReaderTypes, ReaderLabels
  <2>3. ReaderView' /\ SyncInOrder'
    BY <1>6, <1>3, <2>1 DEF Inv, TypeOK, ReaderTypes, ReaderView, SyncInOrder, SendsPrefix
  <2> QED
    BY <1>2, <2>2, <2>3 DEF Inv, TypeOK
<1>7. CASE GetNext(r)
  <2>1. /\ rcur[r] = hop[r] + 1 /\ hop[r] < idx[r] /\ idx[r] < size
        /\ hop[r] \in Nat /\ idx[r] \in Nat
    BY <1>7 DEF Inv, TypeOK, ReaderTypes, ReaderView
  <2>2. heap[rcur[r]].succ = hop[r] + 2
    <3>1. rcur[r] \in 1..Len(heap) /\ rcur[r] < Linked
      BY <2>1, <1>4 DEF Linked
    <3> QED
      BY <2>1, <3>1 DEF Inv, ListShape
  <2>3. /\ rpc' = rpc /\ hop' = [hop EXCEPT ![r] = hop[r] + 1]
        /\ rcur' = [rcur EXCEPT ![r] = hop[r] + 2]
    BY <1>7, <2>2
  <2>4. ReaderTypes'
    BY <1>1, <2>1, <2>3 DEF Inv, TypeOK, ReaderTypes
  <2>5. ReaderView' /\ SyncInOrder'
    BY <1>1, <1>3, <1>7, <2>1, <2>3 DEF Inv, TypeOK, ReaderTypes, ReaderView, SyncInOrder, SendsPrefix
  <2> QED
    BY <1>2, <2>4, <2>5 DEF Inv, TypeOK
<1>8. CASE GetDone(r)
  <2>1. ReaderTypes'
    BY <1>8 DEF Inv, TypeOK, ReaderTypes, ReaderLabels
  <2>2. ReaderView' /\ SyncInOrder'
    BY <1>8, <1>3 DEF Inv, TypeOK, ReaderTypes, ReaderView, SyncInOrder, SendsPrefix
  <2> QED
    BY <1>2, <2>1, <2>2 DEF Inv, TypeOK
<1> QED
  BY <1>5, <1>6, <1>7, <1>8 DEF ListGet

LEMMA RoundInv ==
  ASSUME Inv, RoundTest \/ RoundSleep \/ SpawnFails
  PROVE  Inv'
<1> USE ConstantsAssumption DEF RoundTest, RoundSleep, SpawnFails, ReaderGoes, Readers
<1>1. UNCHANGED <<listVars, handlerVars, rcur, hop, count, sent>>
  OBVIOUS
<1>2. /\ ListTypes' /\ HandlerTypes'
      /\ ListShape' /\ HandlerView' /\ OneCopyPerHandler'
  BY <1>1, HandlerFrame
<1>3. UNCHANGED <<size, heap>>
  BY <1>1 DEF listVars
<1>4. \A s \in Syncers : s # Round /\ rpc'[s] = rpc[s] /\ idx'[s] = idx[s]
  BY DEF Inv, TypeOK, ReaderTypes
<1>5. ReaderTypes'
  BY <1>1 DEF Inv, TypeOK, ReaderTypes, ReaderLabels
<1>6. ReaderView'
  BY <1>1, <1>3, <1>4 DEF Inv, TypeOK, ListTypes, ReaderTypes, ReaderView
<1>7. SyncInOrder'
  BY <1>1, <1>3, <1>4 DEF Inv, SyncInOrder, SendsPrefix
<1> QED
  BY <1>2, <1>5, <1>6, <1>7 DEF Inv, TypeOK

LEMMA SpawnInv == ASSUME Inv, NEW s \in Syncers, Spawn(s) PROVE Inv'
<1> USE ConstantsAssumption DEF Readers
<1>1. /\ rpc[Round] = "use" /\ rpc[s] = "idle" /\ s # Round
      /\ rpc' = [rpc EXCEPT ![Round] = "test", ![s] = "start"]
      /\ rcur' = [rcur EXCEPT ![s] = rcur[Round]]
      /\ idx' = [idx EXCEPT ![Round] = idx[Round] + 1]
      /\ UNCHANGED <<listVars, handlerVars, hop, count, sent>>
  BY DEF Spawn
<1>2. /\ ListTypes' /\ HandlerTypes'
      /\ ListShape' /\ HandlerView' /\ OneCopyPerHandler'
  BY <1>1, HandlerFrame
<1>3. UNCHANGED <<size, heap>>
  BY <1>1 DEF listVars
<1>4. rcur[Round] \in 1..size
  BY <1>1 DEF Inv, TypeOK, ListTypes, ReaderTypes, ReaderView
<1>5. \A r \in Readers :
        /\ rpc'[r] = IF r = s THEN "start" ELSE IF r = Round THEN "test" ELSE rpc[r]
        /\ rcur'[r] = IF r = s THEN rcur[Round] ELSE rcur[r]
        /\ idx'[r] = IF r = Round THEN idx[r] + 1 ELSE idx[r]
  BY <1>1 DEF Inv, TypeOK, ReaderTypes
<1>6. ReaderTypes'
  BY <1>1 DEF Inv, TypeOK, ReaderTypes, ReaderLabels
<1>7. ReaderView'
  <2>1. \A r \in Readers \ {s, Round} :
          rpc'[r] = rpc[r] /\ rcur'[r] = rcur[r] /\ idx'[r] = idx[r]
    BY <1>5
  <2>2. \A t \in Syncers \ {s} : rpc'[t] = rpc[t] /\ idx'[t] = idx[t]
    BY <1>5
  <2>3. rpc'[s] = "start" /\ rcur'[s] \in 1..size /\ rpc'[Round] = "test"
    BY <1>1, <1>4, <1>5
  <2>4. size' = size /\ hop' = hop /\ count' = count
    BY <1>1, <1>3
  <2> QED
    BY <2>1, <2>2, <2>3, <2>4 DEF Inv, ReaderView
<1>8. SyncInOrder'
  BY <1>1, <1>3, <1>5 DEF Inv, SyncInOrder, SendsPrefix
<1> QED
  BY <1>2, <1>6, <1>7, <1>8 DEF Inv, TypeOK

LEMMA SyncInv ==
  ASSUME Inv, NEW s \in Syncers,
         SyncFails(s) \/ SyncCount(s) \/ SyncTest(s) \/ SyncSend(s) \/ SyncDone(s)
  PROVE  Inv'
<1> USE ConstantsAssumption
    DEF SyncFails, SyncCount, SyncTest, SyncSend, SyncDone, ReaderGoes, Readers
<1>1. UNCHANGED <<listVars, handlerVars, rcur, hop>>
  OBVIOUS
<1>2. /\ ListTypes' /\ HandlerTypes'
      /\ ListShape' /\ HandlerView' /\ OneCopyPerHandler'
  BY <1>1, HandlerFrame
<1>3. UNCHANGED <<size, heap>>
  BY <1>1 DEF listVars
<1>4. \A r \in Readers : r # s => rpc'[r] = rpc[r] /\ idx'[r] = idx[r]
  BY DEF Inv, TypeOK, ReaderTypes
<1>5. \A t \in Syncers : t # s => count'[t] = count[t] /\ sent'[t] = sent[t]
  BY DEF Inv, TypeOK, ReaderTypes
<1>6. \A r \in Readers : r # s => rcur'[r] = rcur[r] /\ hop'[r] = hop[r]
  BY <1>1
<1>7. SUFFICES /\ ReaderTypes'
               /\ rpc'[s] \in {"idle", "test", "get"}
               /\ rpc'[s] = "get" => idx'[s] < size /\ idx'[s] < count'[s]
               /\ rpc'[s] # "idle" => SendsPrefix(s)'
  <2>1. ReaderView'
    BY <1>1, <1>3, <1>4, <1>5, <1>6, <1>7 DEF Inv, ReaderView
  <2>2. SyncInOrder'
    BY <1>3, <1>4, <1>5, <1>7 DEF Inv, SyncInOrder, SendsPrefix
  <2> QED
    BY <1>2, <1>7, <2>1, <2>2 DEF Inv, TypeOK
<1>8. /\ sent[s] \in Seq(Keys) /\ idx[s] \in Nat /\ count[s] \in Nat /\ size \in Nat
      /\ rpc[s] \in {"test", "use"} => SendsPrefix(s)
  BY DEF Inv, TypeOK, ListTypes, ReaderTypes, SyncInOrder
<1>9. CASE SyncFails(s) \/ SyncDone(s)
  BY <1>9 DEF Inv, TypeOK, ReaderTypes, ReaderLabels
<1>10. CASE SyncCount(s)
  <2>1. ReaderTypes'
    BY <1>8, <1>10 DEF Inv, TypeOK, ReaderTypes, ReaderLabels
  <2>2. rpc'[s] = "test" /\ count'[s] = size /\ idx'[s] = 0 /\ sent'[s] = << >>
    BY <1>10 DEF Inv, TypeOK, ReaderTypes
  <2> QED
    BY <2>1, <2>2, <1>3, <1>8 DEF SendsPrefix
<1>11. CASE SyncTest(s)
  <2>1. ReaderTypes'
    BY <1>11 DEF Inv, TypeOK, ReaderTypes, ReaderLabels
  <2>2. rpc'[s] = "get" /\ count' = count /\ idx' = idx /\ sent' = sent /\ idx[s] < count[s]
    BY <1>11 DEF Inv, TypeOK, ReaderTypes
  <2> QED
    BY <2>1, <2>2, <1>3, <1>8, <1>11 DEF SendsPrefix
<1>12. CASE SyncSend(s)
  <2>1. rcur[s] = idx[s] + 1 /\ idx[s] < size /\ idx[s] < count[s]
    BY <1>12 DEF Inv, ReaderView
  <2>2. size <= Len(heap) /\ Len(heap) \in Nat
    BY CountedNodes DEF Inv, TypeOK, ListTypes, Linked
  <2>3. heap[rcur[s]].key \in Keys
    <3>1. rcur[s] \in 1..Len(heap)
      BY <2>1, <2>2, <1>8
    <3>2. heap[rcur[s]] \in Cell
      BY <3>1 DEF Inv, TypeOK, ListTypes
    <3> QED
      BY <3>2 DEF Cell
  <2>4. /\ rpc'[s] = "test" /\ count' = count /\ idx'[s] = idx[s] + 1
        /\ sent'[s] = Append(sent[s], heap[rcur[s]].key)
    BY <1>12 DEF Inv, TypeOK, ReaderTypes
  <2>5. ReaderTypes'
    BY <1>8, <1>12, <2>3 DEF Inv, TypeOK, ReaderTypes, ReaderLabels
  <2>6. SendsPrefix(s)'
    <3>1. SendsPrefix(s)
      BY <1>8, <1>12
    <3> QED
      BY <3>1, <2>1, <2>3, <2>4, <1>3, <1>8 DEF SendsPrefix
  <2> QED
    BY <2>4, <2>5, <2>6
<1> QED
  BY <1>9, <1>10, <1>11, <1>12

-----------------------------------------------------------------------------
LEMMA StepInv == Inv /\ [Next]_vars => Inv'
<1> SUFFICES ASSUME Inv, [Next]_vars PROVE Inv'
  OBVIOUS
<1>1. CASE \E h \in Handlers : RecvRecord(h) \/ HandlerStep(h)
  BY <1>1, RecvRecordInv, WalkNextInv, WalkStopsInv, AcquireInv, AllocInv,
     LinkInv, CountInv, RenameInv, UnlockInv DEF HandlerStep
<1>2. CASE RoundStep
  BY <1>2, RoundInv, SpawnInv, GetInv DEF RoundStep, Readers
<1>3. CASE \E s \in Syncers : SyncStep(s)
  BY <1>3, SyncInv, GetInv DEF SyncStep, Readers
<1>4. CASE UNCHANGED vars
  <2>1. UNCHANGED <<listVars, handlerVars, readerVars>>
    BY <1>4 DEF vars
  <2>2. ReaderTypes' /\ ReaderView' /\ SyncInOrder'
    BY <2>1, ReaderFrame DEF listVars, Inv, TypeOK, ListTypes
  <2> QED
    BY <2>1, <2>2, HandlerFrame DEF Inv, TypeOK
<1> QED
  BY <1>1, <1>2, <1>3, <1>4 DEF Next

\* Inv is an invariant of the list and of every thread of one peer, for any
\* number of handler and synch threads (P2P.c:130-237, 384-558).
THEOREM Invariant == Spec => []Inv
BY InitInv, StepInv, PTL DEF Spec

\* Every variable keeps its type.
THEOREM TypeCorrect == Spec => []TypeOK
<1>1. Inv => TypeOK
  BY DEF Inv
<1> QED
  BY <1>1, Invariant, PTL

\* No thread follows a NULL or dangling pointer, although no reader locks:
\* list_get never returns NULL to synch or to the round (P2P.c:208, 231).
THEOREM NoWildReads == Spec => []NoWildRead
<1>1. Inv => NoWildRead
  <2> SUFFICES ASSUME Inv PROVE NoWildRead
    OBVIOUS
  <2>1. size \in Nat /\ size <= Linked /\ Linked <= Len(heap) /\ Len(heap) \in Nat
    BY CountedNodes DEF Inv, TypeOK, ListTypes
  <2>2. \A h \in Handlers : hpc[h] \in {"walk", "rename"} => hcur[h] \in 0..Len(heap)
    BY <2>1 DEF Inv, HandlerView, LookUp, Linked
  <2>3. \A h \in Handlers : hpc[h] = "rename" => hcur[h] # NULL
    BY DEF Inv, HandlerView, LookUp
  <2>4. \A r \in Readers : rpc[r] \in {"start", "use"} \/ (rpc[r] = "hop" /\ hop[r] < idx[r])
          => rcur[r] \in 1..Len(heap)
    BY <2>1 DEF Inv, TypeOK, ListTypes, ReaderTypes, ReaderView, Linked
  <2> QED
    BY <2>2, <2>3, <2>4 DEF NoWildRead
<1> QED
  BY <1>1, Invariant, PTL

\* What synch sends is a prefix of the list, and it can send as many records
\* as it announced (P2P.c:197-222).
THEOREM SyncSendsPrefix == Spec => []SyncInOrder
<1>1. Inv => SyncInOrder
  BY DEF Inv
<1> QED
  BY <1>1, Invariant, PTL

\* One thread never lists one peer twice: the look-up outside the lock
\* (P2P.c:474, 545) only misses what other threads are inserting.
THEOREM OneCopy == Spec => []OneCopyPerHandler
<1>1. Inv => OneCopyPerHandler
  BY DEF Inv
<1> QED
  BY <1>1, Invariant, PTL

-----------------------------------------------------------------------------
(* KnownNodes implements PeerList: counting a node adds it to the abstract *)
(* list, the memcpy of a name sets it, and every other step stutters.      *)

LEMMA SameListed ==
  ASSUME Inv, size' = size,
         \A i \in 1..size : heap'[i].key = heap[i].key /\ heap'[i].name = heap[i].name
  PROVE  Listed' = Listed
  BY DEF Listed

LEMMA AddRefines ==
  ASSUME Inv, NEW h \in Handlers, Count(h)
  PROVE  Abstract!Next
<1>1. /\ hpc[h] = "count" /\ size' = size + 1 /\ heap' = heap
  BY DEF Count, HandlerGoes
<1>2. Inserting /\ Len(heap) = size + 1 /\ size \in Nat
  BY <1>1, ConstantsAssumption DEF Inv, TypeOK, ListTypes, ListShape, Critical, Inserting
<1>3. PICK c \in Cell : c = heap[size + 1] /\ c.name # NoName
  BY <1>2 DEF Inv, TypeOK, ListTypes, ListShape
<1>4. c.key \in Keys /\ c.name \in Names
  BY <1>3 DEF Cell
<1>5. Listed' = Append(Listed, [key |-> c.key, name |-> c.name])
  <2>1. \A i \in 1..size : heap[i] \in Cell
    BY <1>2 DEF Inv, TypeOK, ListTypes
  <2>2. \A i \in 1..size :
          [key |-> heap[i].key, name |-> heap[i].name] \in [key : Keys, name : Names \cup {NoName}]
    BY <2>1 DEF Cell
  <2>3. Listed \in Seq([key : Keys, name : Names \cup {NoName}]) /\ Len(Listed) = size
    BY <2>2, <1>2 DEF Listed
  <2>4. Listed' = [i \in 1..(size + 1) |-> [key |-> heap[i].key, name |-> heap[i].name]]
    BY <1>1 DEF Listed
  <2>5. \A i \in 1..size : Listed[i] = [key |-> heap[i].key, name |-> heap[i].name]
    BY DEF Listed
  <2>6. Append(Listed, [key |-> c.key, name |-> c.name])
          = [i \in 1..(size + 1) |-> IF i = size + 1 THEN [key |-> c.key, name |-> c.name]
                                                    ELSE Listed[i]]
    BY <2>3, <1>2
  <2> QED
    BY <2>4, <2>5, <2>6, <1>2, <1>3
<1> QED
  BY <1>4, <1>5 DEF Abstract!Next, Abstract!Add

LEMMA SetNameRefines ==
  ASSUME Inv, NEW h \in Handlers, Rename(h)
  PROVE  Abstract!Next
<1>1. /\ hpc[h] = "rename" /\ size' = size
      /\ heap' = [heap EXCEPT ![hcur[h]].name = rec[h].name]
  BY DEF Rename, HandlerGoes
<1>2. lock = h /\ ~Inserting /\ Linked = Len(heap) /\ size = Len(heap)
  BY <1>1 DEF Inv, ListShape, Critical, Inserting, Linked
<1> DEFINE j == hcur[h]  n == rec[h].name
<1>3. heap \in Seq(Cell) /\ j \in 1..size /\ n \in Names
  BY <1>1, <1>2 DEF Inv, TypeOK, ListTypes, HandlerTypes, Record, HandlerView, LookUp, NULL
<1>4. \A i \in 1..size : /\ heap'[i].key = heap[i].key
                         /\ heap'[i].name = IF i = j THEN n ELSE heap[i].name
  BY <1>1, <1>2, <1>3, NameUpdate
<1>5. Listed' = [Listed EXCEPT ![j].name = n]
  <2>1. Listed[j] = [key |-> heap[j].key, name |-> heap[j].name]
    BY <1>3 DEF Listed
  <2>2. [Listed[j] EXCEPT !.name = n] = [key |-> heap[j].key, name |-> n]
    BY <2>1
  <2>3. [Listed EXCEPT ![j].name = n]
          = [Listed EXCEPT ![j] = [key |-> heap[j].key, name |-> n]]
    BY <2>2, Zenon
  <2>4. Listed' = [i \in 1..size |-> [key |-> heap'[i].key, name |-> heap'[i].name]]
    BY <1>1 DEF Listed
  <2>5. \A i \in 1..size : [key |-> heap'[i].key, name |-> heap'[i].name]
          = IF i = j THEN [key |-> heap[j].key, name |-> n]
            ELSE [key |-> heap[i].key, name |-> heap[i].name]
    BY <1>4
  <2>6. Listed' = [i \in 1..size |-> IF i = j THEN [key |-> heap[j].key, name |-> n]
                                    ELSE [key |-> heap[i].key, name |-> heap[i].name]]
    BY <2>4, <2>5
  <2> QED
    BY <2>3, <2>6 DEF Listed
<1>6. j \in DOMAIN Listed
  BY <1>3 DEF Listed
<1> QED
  BY <1>3, <1>5, <1>6 DEF Abstract!Next, Abstract!SetName

LEMMA StepRefines ==
  ASSUME Inv, [Next]_vars
  PROVE  [Abstract!Next]_Listed
<1>1. CASE \E h \in Handlers : Count(h)
  BY <1>1, AddRefines
<1>2. CASE \E h \in Handlers : Rename(h)
  BY <1>2, SetNameRefines
<1>3. CASE \E h \in Handlers : Alloc(h)
  <2>1. PICK h \in Handlers : Alloc(h)
    BY <1>3
  <2>2. size \in Nat /\ size <= Len(heap) /\ Len(heap) \in Nat /\ heap \in Seq(Cell)
    BY CountedNodes DEF Inv, TypeOK, ListTypes, Linked
  <2>3. \A i \in 1..size : heap'[i] = heap[i]
    BY <2>1, <2>2 DEF Alloc
  <2>4. size' = size
    BY <2>1 DEF Alloc
  <2> QED
    BY <2>3, <2>4, SameListed
<1>4. CASE \E h \in Handlers : Link(h)
  <2>1. PICK h \in Handlers : Link(h)
    BY <1>4
  <2> DEFINE L == Len(heap)
  <2>2. hpc[h] = "link" /\ size' = size
    BY <2>1 DEF Link, HandlerGoes
  <2>3. L \in Nat /\ L > 0 /\ Linked = L - 1 /\ size = L - 1 /\ heap \in Seq(Cell)
    BY <2>2, ConstantsAssumption
    DEF Inv, TypeOK, ListTypes, ListShape, Critical, Inserting, Linked
  <2>4. \A i \in 1..size : heap'[i].key = heap[i].key /\ heap'[i].name = heap[i].name
    <3>1. CASE size = 0
      BY <3>1
    <3>2. CASE size # 0
      <4> DEFINE j == L - 1
      <4>1. heap[L].pred = j /\ j \in 1..L
        BY <3>2, <2>3 DEF Inv, ListShape
      <4>2. heap' = [heap EXCEPT ![j].succ = L]
        BY <3>2, <4>1, <2>1 DEF Link
      <4>3. 1..size \subseteq 1..L
        BY <2>3
      <4> HIDE DEF j
      <4> QED
        BY <4>1, <4>2, <4>3, <2>3, SuccUpdate
    <3> QED
      BY <3>1, <3>2
  <2> QED
    BY <2>2, <2>4, SameListed
<1>5. CASE UNCHANGED <<size, heap>>
  BY <1>5, SameListed
<1> QED
  BY <1>1, <1>2, <1>3, <1>4, <1>5
  DEF Next, HandlerStep, RoundStep, SyncStep, ListGet, vars, listVars,
      RecvRecord, WalkNext, WalkNamed, WalkBlank, WalkEnd, Acquire, Unlock,
      GetSize, GetFirst, GetNext, GetDone, RoundTest, RoundSleep, Spawn,
      SpawnFails, SyncFails, SyncCount, SyncTest, SyncSend, SyncDone

LEMMA InitRefines == Init => Abstract!Init
<1> SUFFICES ASSUME Init PROVE Abstract!Init
  OBVIOUS
<1>1. CASE Empty
  BY <1>1 DEF Empty, Listed, Abstract!Init
<1>2. CASE Seeded
  <2>1. PICK k \in Keys : heap = << [key |-> k, name |-> NoName, succ |-> NULL, pred |-> NULL] >>
    BY <1>2 DEF Seeded
  <2>2. heap[1].key = k /\ heap[1].name = NoName /\ size = 1
    BY <1>2, <2>1 DEF Seeded
  <2>3. Listed = << [key |-> k, name |-> NoName] >>
    BY <2>2 DEF Listed
  <2> QED
    BY <2>3 DEF Abstract!Init
<1> QED
  BY <1>1, <1>2 DEF Init

\* The list the threads share is an append-only sequence of peers whose names
\* are only ever set (linked_list.c:45-72, P2P.c:474-484, 545-557).
THEOREM Refinement == Spec => ListIsPeerList
<1>1. Inv /\ [Next]_vars => [Abstract!Next]_Listed
  BY StepRefines
<1> QED
  BY <1>1, InitRefines, Invariant, PTL DEF Spec, ListIsPeerList, Abstract!Spec

=============================================================================
