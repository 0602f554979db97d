-------------------------- MODULE StatusPeersProofs --------------------------
(***************************************************************************)
(* Proofs about StatusPeers, for any peers, memory and numbers of handler  *)
(* and synch threads: the list stays whole under insertions and deletions  *)
(* by threads with old pointers, and implements PeerTable.                 *)
(***************************************************************************)
EXTENDS StatusPeers, SequenceTheorems, FiniteSetTheorems, TLAPS

\* Only the thread that is inside list_insert or list_delete_node has the lock.
Locked ==
  /\ \A h \in Handlers : hpc[h] \in {"link", "count"} <=> lock = h
  /\ \A s \in Syncers : rpc[s] \in {"free", "shrink"} <=> lock = s
  /\ rpc[Round] \in {"test", "get", "first", "hop", "use"}
  /\ lock # Round

\* What size still lacks.
Balance ==
  /\ lock = Nobody => size = Linked
  /\ \A h \in Handlers : /\ hpc[h] = "link" => size = Linked
                         /\ hpc[h] = "count" => size + 1 = Linked
  /\ \A s \in Syncers : rpc[s] \in {"free", "shrink"} => size = Linked + 1

\* The nodes of the list, and how they are chained.
Chained ==
  /\ \A j, k \in 1..Linked : order[j] = order[k] => j = k
  /\ \A j \in 1..Linked :
       /\ order[j] \in used
       /\ cell[order[j]].succ = IF j < Linked THEN order[j + 1] ELSE NULL
       /\ cell[order[j]].pred = IF j > 1 THEN order[j - 1] ELSE NULL
  /\ first = IF Linked > 0 THEN order[1] ELSE NULL
  /\ (\A h \in Handlers : hpc[h] # "link") =>
       last = IF Linked > 0 THEN order[Linked] ELSE NULL

Unlisted(c) == \A j \in 1..Linked : order[j] # c

\* The node that list_insert has filled and not linked.
Filled(h) ==
  LET c == hcur[h]
  IN  /\ c \in used /\ Unlisted(c)
      /\ cell[c].key \in Keys /\ cell[c].succ = NULL
      /\ cell[c].pred = IF Linked > 0 THEN order[Linked] ELSE NULL
      /\ Linked > 0 => last = c

Pending ==
  /\ \A h \in Handlers : hpc[h] = "link" => Filled(h)
  /\ \A s \in Syncers : rpc[s] = "free" => rcur[s] \in Cells /\ Unlisted(rcur[s])

\* An allocated node that is not in the list is in the hands of the holder of
\* the lock: when the lock is free, a pointer to an allocated node points into
\* the list, however old it is.
Accounted ==
  \A c \in used :
    \/ ~Unlisted(c)
    \/ \E h \in Handlers : hpc[h] = "link" /\ hcur[h] = c
    \/ \E s \in Syncers : rpc[s] = "free" /\ rcur[s] = c

\* A handler that is at work has a record about some peer.
Records ==
  \A h \in Handlers :
    hpc[h] \in {"walk", "check", "insert", "link", "count", "rename"} =>
      rec[h].key \in Keys

IInv ==
  /\ TypeOK /\ Locked /\ Balance /\ Chained /\ Pending /\ Accounted /\ Records

-----------------------------------------------------------------------------
LEMMA InitIInv == Init => IInv
  <1> SUFFICES ASSUME Init PROVE IInv
    OBVIOUS
  <1> USE StatusPeersAssumption DEF Init
  <1>1. rpc[Round] = "test" /\ \A s \in Syncers : rpc[s] = "idle"
    BY DEF Readers
  <1>2. Locked /\ Pending /\ Records
    BY <1>1 DEF Locked, Pending, Records, Threads, Readers
  <1>3. CASE Empty
    <2>1. TypeOK
      BY <1>1, <1>3 DEF Empty, TypeOK, Blank, Cell, NoRecord, Record, Threads, Readers
    <2>2. Linked = 0
      BY <1>3 DEF Empty, Linked
    <2>3. Balance /\ Chained /\ Accounted
      BY <1>1, <1>3, <2>2 DEF Empty, Balance, Chained, Accounted
    <2>4. QED
      BY <1>2, <2>1, <2>3 DEF IInv
  <1>4. CASE Seeded
    <2>1. PICK c \in Cells, k \in Keys :
            /\ cell = [d \in Cells |-> IF d = c THEN [Blank EXCEPT !.key = k] ELSE Blank]
            /\ used = {c} /\ order = <<c>> /\ size = 1 /\ first = c /\ last = c
      BY <1>4 DEF Seeded
    <2>2. TypeOK
      <3>1. cell \in [Cells -> Cell] /\ used \subseteq Cells /\ size \in Nat
        BY <2>1 DEF Blank, Cell
      <3>2. order \in Seq(Cells) /\ {first, last} \subseteq Cells \cup {NULL}
        BY <2>1
      <3>3. rec \in [Handlers -> Record]
        BY DEF NoRecord, Record
      <3>4. rpc \in [Readers -> {"idle", "test"}]
        OBVIOUS
      <3>5. QED
        BY <3>1, <3>2, <3>3, <3>4 DEF TypeOK
    <2>3. Linked = 1 /\ order[1] = c
      BY <2>1 DEF Linked
    <2>4. Balance /\ Accounted
      BY <1>1, <2>1, <2>3 DEF Balance, Accounted, Unlisted
    <2>5. Chained
      BY <2>1, <2>3 DEF Chained, Blank
    <2>6. QED
      BY <1>2, <2>2, <2>4, <2>5 DEF IInv
  <1>5. QED
    BY <1>3, <1>4

-----------------------------------------------------------------------------
\* A step that leaves the list and the lock alone, and the threads that are
\* inside list_insert or list_delete_node.
LEMMA Quiet ==
  ASSUME IInv, TypeOK', Records', UNCHANGED <<listVars, lock>>,
         \A h \in Handlers :
           hpc[h] \in {"link", "count"} \/ hpc'[h] \in {"link", "count"} =>
             hpc'[h] = hpc[h] /\ hcur'[h] = hcur[h],
         \A r \in Readers :
           rpc[r] \in {"free", "shrink"} \/ rpc'[r] \in {"free", "shrink"} =>
             rpc'[r] = rpc[r] /\ rcur'[r] = rcur[r],
         rpc'[Round] \in {"test", "get", "first", "hop", "use"}
  PROVE  IInv'
  <1> USE DEF IInv, listVars
  <1>1. Linked' = Linked /\ \A c : Unlisted(c)' <=> Unlisted(c)
    BY DEF Linked, Unlisted
  <1>2. Locked'
    BY DEF Locked, Readers
  <1>3. Balance'
    BY <1>1 DEF Balance, Readers
  <1>4. Chained'
    BY <1>1 DEF Chained
  <1>5. Pending'
    <2>1. \A h \in Handlers : hpc'[h] = "link" =>
            hpc[h] = "link" /\ hcur'[h] = hcur[h]
      OBVIOUS
    <2>2. \A h \in Handlers : hpc'[h] = "link" => Filled(h)'
      BY <1>1, <2>1 DEF Pending, Filled
    <2>3. \A s \in Syncers : rpc'[s] = "free" =>
            rcur'[s] \in Cells /\ Unlisted(rcur[s]) /\ rcur'[s] = rcur[s]
      BY DEF Pending, Readers
    <2>4. QED
      BY <1>1, <2>2, <2>3 DEF Pending, Unlisted
  <1>6. Accounted'
    BY <1>1 DEF Accounted, Readers
  <1>7. QED
    BY <1>2, <1>3, <1>4, <1>5, <1>6

LEMMA Updated ==
  ASSUME NEW D, NEW R, NEW f \in [D -> R], NEW d \in D, NEW v \in R
  PROVE  /\ [f EXCEPT ![d] = v] \in [D -> R]
         /\ \A e \in D \ {d} : [f EXCEPT ![d] = v][e] = f[e]
  OBVIOUS

LEMMA QuietHandler ==
  ASSUME IInv, NEW h \in Handlers,
         RecvIntroduction(h) \/ RecvRecord(h) \/ EndSession(h) \/ WalkNext(h)
         \/ WalkNamed(h) \/ WalkBlank(h) \/ WalkEnd(h) \/ CheckAnswered(h)
         \/ CheckFails(h)
  PROVE  IInv'
  <1> USE StatusPeersAssumption DEF IInv, listVars, readerVars, HandlerGoes,
          Rest, Enters, Walking, Found
  <1>1. UNCHANGED <<listVars, lock, readerVars, gone, culprit>>
    BY DEF RecvIntroduction, RecvRecord, EndSession, WalkNext, WalkNamed,
           WalkBlank, WalkEnd, CheckAnswered, CheckFails
  <1>2. \E x \in {"idle", "recv", "walk", "check", "insert", "rename"} :
          /\ hpc[h] \in {"idle", "recv", "walk", "check"}
          /\ hpc' = [hpc EXCEPT ![h] = x] \/ (hpc' = hpc /\ x = hpc[h])
          /\ x \in {"idle", "recv"} \/ rec'[h].key \in Keys
    <2> USE DEF TypeOK, Records, Record
    <2>1. CASE RecvIntroduction(h) BY <2>1 DEF RecvIntroduction
    <2>2. CASE RecvRecord(h) BY <2>2 DEF RecvRecord
    <2>3. CASE EndSession(h) BY <2>3 DEF EndSession
    <2>4. CASE WalkNext(h) BY <2>4 DEF WalkNext
    <2>5. CASE WalkNamed(h) BY <2>5 DEF WalkNamed
    <2>6. CASE WalkBlank(h) BY <2>6 DEF WalkBlank
    <2>7. CASE WalkEnd(h) BY <2>7 DEF WalkEnd
    <2>8. CASE CheckAnswered(h) BY <2>8 DEF CheckAnswered
    <2>9. CASE CheckFails(h) BY <2>9 DEF CheckFails
    <2>10. QED
      BY <2>1, <2>2, <2>3, <2>4, <2>5, <2>6, <2>7, <2>8, <2>9
  <1>3. /\ rec' \in [Handlers -> Record]
        /\ \A g \in Handlers \ {h} : rec'[g] = rec[g]
    <2> USE DEF TypeOK
    <2>1. NoRecord \in Record
      BY DEF NoRecord, Record
    <2>2. \A k \in Keys, n \in BOOLEAN, b \in BOOLEAN :
            [key |-> k, named |-> n, told |-> b] \in Record
      BY DEF Record
    <2>3. rec' = rec \/ \E v \in Record : rec' = [rec EXCEPT ![h] = v]
      <3>1. CASE RecvIntroduction(h)
        BY <2>2, <3>1 DEF RecvIntroduction
      <3>2. CASE RecvRecord(h)
        BY <2>2, <3>2 DEF RecvRecord
      <3>3. CASE EndSession(h) \/ WalkNamed(h) \/ CheckFails(h)
        BY <2>1, <3>3 DEF EndSession, WalkNamed, CheckFails
      <3>4. CASE WalkNext(h) \/ WalkBlank(h) \/ WalkEnd(h) \/ CheckAnswered(h)
        BY <3>4 DEF WalkNext, WalkBlank, WalkEnd, CheckAnswered
      <3>5. QED
        BY <3>1, <3>2, <3>3, <3>4
    <2>4. rec \in [Handlers -> Record]
      OBVIOUS
    <2> HIDE DEF IInv, TypeOK
    <2>5. QED
      BY <2>3, <2>4, Updated
  <1>4. /\ hcur' \in [Handlers -> Cells \cup {NULL}]
        /\ overtaken' \subseteq Threads
    <2>1. \A c \in Cells : cell[c].succ \in Cells \cup {NULL}
      BY DEF TypeOK, Cell
    <2>2. hcur' = hcur
          \/ \E v \in Cells \cup {NULL} : hcur' = [hcur EXCEPT ![h] = v]
      <3>1. CASE RecvIntroduction(h) \/ RecvRecord(h)
        BY <3>1 DEF TypeOK, RecvIntroduction, RecvRecord
      <3>2. CASE EndSession(h) \/ WalkNamed(h) \/ CheckFails(h)
        BY <3>2 DEF EndSession, WalkNamed, CheckFails
      <3>3. CASE WalkNext(h)
        BY <2>1, <3>3 DEF TypeOK, WalkNext
      <3>4. CASE WalkBlank(h) \/ WalkEnd(h) \/ CheckAnswered(h)
        BY <3>4 DEF WalkBlank, WalkEnd, CheckAnswered
      <3>5. QED
        BY <3>1, <3>2, <3>3, <3>4
    <2>3. overtaken' \subseteq overtaken \cup {h}
      BY DEF RecvIntroduction, RecvRecord, EndSession, WalkNext, WalkNamed,
             WalkBlank, WalkEnd, CheckAnswered, CheckFails
    <2>4. hcur \in [Handlers -> Cells \cup {NULL}] /\ overtaken \subseteq Threads
      BY DEF TypeOK
    <2> HIDE DEF IInv
    <2>5. hcur' \in [Handlers -> Cells \cup {NULL}]
      BY <2>2, <2>4, Updated
    <2>6. QED
      BY <2>3, <2>4, <2>5 DEF Threads
  <1>5. TypeOK'
    BY <1>1, <1>2, <1>3, <1>4 DEF TypeOK
  <1>6. Records'
    BY <1>2, <1>3 DEF Records, TypeOK
  <1>7. \A g \in Handlers :
          hpc[g] \in {"link", "count"} \/ hpc'[g] \in {"link", "count"} =>
            g # h /\ hpc'[g] = hpc[g]
    BY <1>2 DEF TypeOK
  <1>8. \A g \in Handlers \ {h} : hcur'[g] = hcur[g]
    BY DEF TypeOK, RecvIntroduction, RecvRecord, EndSession, WalkNext,
           WalkNamed, WalkBlank, WalkEnd, CheckAnswered, CheckFails
  <1>9. QED
    BY <1>1, <1>5, <1>6, <1>7, <1>8, Quiet DEF Locked

\* Steps of the round and of synch threads outside list_delete_node.
LEMMA QuietReader ==
  ASSUME IInv, TypeOK', NEW r \in Readers,
         UNCHANGED <<listVars, lock, handlerVars>>,
         \A q \in Readers \ {r} : rcur'[q] = rcur[q] /\ (rpc'[q] = rpc[q]
           \/ (rpc[q] \notin {"free", "shrink"} /\ rpc'[q] \notin {"free", "shrink"})),
         rpc[r] \notin {"free", "shrink"}, rpc'[r] \notin {"free", "shrink"},
         rpc'[Round] \in {"test", "get", "first", "hop", "use"}
  PROVE  IInv'
  <1>1. Records'
    BY DEF IInv, Records, handlerVars
  <1>2. QED
    BY <1>1, Quiet DEF handlerVars
LEMMA StrayIInv ==
  ASSUME IInv,
         \/ \E t \in Threads : GoesWrong(t)
         \/ \E k \in Keys : Leave(k)
  PROVE  IInv'
  <1> USE DEF IInv
  <1>1. /\ UNCHANGED <<listVars, lock, handlerVars, readerVars, overtaken>>
        /\ gone' \subseteq Keys /\ culprit' \in Threads \cup {Nobody}
    BY DEF GoesWrong, Leave, TypeOK
  <1>2. TypeOK' /\ Records'
    BY <1>1 DEF TypeOK, Records, listVars, handlerVars, readerVars
  <1>3. QED
    BY <1>1, <1>2, Quiet DEF Locked, handlerVars, readerVars

LEMMA ListGetIInv ==
  ASSUME IInv, NEW r \in Readers, ListGet(r)
  PROVE  IInv'
  <1> USE DEF ReaderGoes
  <1>1. CASE GetPastEnd(r)
    BY <1>1, StrayIInv DEF GetPastEnd, Threads
  <1>2. CASE GetSize(r) \/ GetFirst(r) \/ GetNext(r) \/ GetDone(r)
    <2>1. /\ UNCHANGED <<listVars, lock, gone, handlerVars, idx, count, dest,
                         overtaken, culprit>>
          /\ rpc[r] \in {"get", "first", "hop"}
      BY <1>2 DEF GetSize, GetFirst, GetNext, GetDone
    <2>2. \E x \in {"first", "hop", "use"} : rpc' = [rpc EXCEPT ![r] = x]
      <3>1. rpc = [rpc EXCEPT ![r] = rpc[r]]
        BY DEF IInv, TypeOK
      <3>2. QED
        BY <1>2, <3>1 DEF GetSize, GetFirst, GetNext, GetDone
    <2>3. \E v \in Cells \cup {NULL} : rcur' = [rcur EXCEPT ![r] = v]
      <3>1. rcur = [rcur EXCEPT ![r] = rcur[r]] /\ rcur[r] \in Cells \cup {NULL}
        BY DEF IInv, TypeOK
      <3>2. \A c \in Cells : cell[c].succ \in Cells \cup {NULL}
        BY DEF IInv, TypeOK, Cell
      <3>3. first \in Cells \cup {NULL}
        BY DEF IInv, TypeOK
      <3>4. QED
        BY <1>2, <3>1, <3>2, <3>3 DEF GetSize, GetFirst, GetNext, GetDone
    <2>4. \E v \in Nat : hop' = [hop EXCEPT ![r] = v]
      <3>1. hop = [hop EXCEPT ![r] = hop[r]] /\ hop[r] \in Nat
        BY DEF IInv, TypeOK
      <3>2. QED
        BY <1>2, <3>1 DEF GetSize, GetFirst, GetNext, GetDone
    <2>5. TypeOK'
      BY <2>1, <2>2, <2>3, <2>4 DEF IInv, TypeOK, listVars, handlerVars
    <2>6. /\ \A q \in Readers \ {r} : rcur'[q] = rcur[q] /\ rpc'[q] = rpc[q]
          /\ rpc'[r] \in {"first", "hop", "use"}
      BY <2>2, <2>3 DEF IInv, TypeOK
    <2>7. rpc'[Round] \in {"test", "get", "first", "hop", "use"}
      BY <2>6 DEF IInv, Locked, Readers
    <2>8. QED
      BY <2>1, <2>5, <2>6, <2>7, QuietReader
  <1>3. QED
    BY <1>1, <1>2 DEF ListGet

LEMMA RoundIInv ==
  ASSUME IInv, RoundStep
  PROVE  IInv'
  <1> USE StatusPeersAssumption DEF ReaderGoes, Enters
  <1>1. Round \in Readers
    BY DEF Readers
  <1>2. CASE RoundTest
    <2>1. overtaken' \subseteq Threads
      BY <1>1, <1>2 DEF RoundTest, IInv, TypeOK, Threads
    <2>2. TypeOK'
      BY <1>1, <1>2, <2>1 DEF RoundTest, IInv, TypeOK, listVars, handlerVars
    <2>3. QED
      BY <1>1, <1>2, <2>2, QuietReader DEF RoundTest, IInv, TypeOK
  <1>3. CASE RoundSleep
    <2>1. TypeOK'
      BY <1>1, <1>3 DEF RoundSleep, IInv, TypeOK, listVars, handlerVars
    <2>2. QED
      BY <1>1, <1>3, <2>1, QuietReader DEF RoundSleep, IInv, TypeOK
  <1>4. ASSUME NEW s \in Syncers, Spawn(s)
        PROVE  IInv'
    <2>1. s \in Readers /\ s # Round
      BY DEF Readers
    <2>2. overtaken' \subseteq Threads
      BY <1>1, <1>4, <2>1 DEF Spawn, IInv, TypeOK, Threads
    <2>3. TypeOK'
      <3>1. /\ rpc' = [rpc EXCEPT ![Round] = "test", ![s] = "start"]
            /\ rcur' = [rcur EXCEPT ![s] = rcur[Round], ![Round] = NULL]
            /\ idx' = [idx EXCEPT ![Round] = @ + 1]
            /\ UNCHANGED <<listVars, lock, gone, handlerVars, hop, count, dest,
                           culprit>>
        BY <1>4 DEF Spawn
      <3>2. /\ rcur' \in [Readers -> Cells \cup {NULL}]
            /\ idx' \in [Readers -> Nat]
        <4>1. rcur \in [Readers -> Cells \cup {NULL}] /\ idx \in [Readers -> Nat]
          BY DEF IInv, TypeOK
        <4>2. rcur' \in [Readers -> Cells \cup {NULL}]
          BY <1>1, <2>1, <3>1, <4>1
        <4>3. idx' \in [Readers -> Nat]
          BY <1>1, <3>1, <4>1
        <4>4. QED
          BY <4>2, <4>3
      <3>3. rpc' \in [Readers -> {"idle", "start", "connect", "status", "delete",
                                  "free", "shrink", "test", "get", "first",
                                  "hop", "use"}]
        BY <1>1, <2>1, <3>1 DEF IInv, TypeOK
      <3>4. QED
        BY <2>2, <3>1, <3>2, <3>3 DEF IInv, TypeOK, listVars, handlerVars
    <2>4. /\ rpc[s] = "idle" /\ rpc'[s] = "start"
          /\ rpc[Round] = "use" /\ rpc'[Round] = "test"
          /\ \A r \in Readers \ {s, Round} : rpc'[r] = rpc[r] /\ rcur'[r] = rcur[r]
          /\ UNCHANGED <<listVars, lock, handlerVars>>
      BY <1>1, <1>4, <2>1 DEF Spawn, IInv, TypeOK
    <2>5. Records'
      BY <2>4 DEF IInv, Records, handlerVars
    <2>6. QED
      BY <2>3, <2>4, <2>5, Quiet DEF handlerVars
  <1>5. QED
    BY <1>1, <1>2, <1>3, <1>4, ListGetIInv DEF RoundStep

\* What a step of synch does when it is not in list_delete_node.
LEMMA SyncIInv ==
  ASSUME IInv, NEW s \in Syncers,
         ReadNode(s) \/ Connect(s) \/ ConnectFails(s) \/ NotReady(s)
         \/ SyncFails(s) \/ SyncCount(s) \/ SyncTest(s) \/ SyncSend(s) \/ SyncDone(s)
  PROVE  IInv'
  <1> USE StatusPeersAssumption DEF ReaderGoes, Enters, Exit
  <1>1. s \in Readers /\ s # Round
    BY DEF Readers
  <1>2. UNCHANGED <<listVars, lock, gone, handlerVars, hop, culprit>>
    BY DEF ReadNode, Connect, ConnectFails, NotReady, SyncFails, SyncCount,
           SyncTest, SyncSend, SyncDone
  <1>3. /\ rpc[s] \notin {"free", "shrink"}
        /\ \E x \in {"idle", "connect", "status", "delete", "test", "get"} :
             rpc' = [rpc EXCEPT ![s] = x]
    BY DEF ReadNode, Connect, ConnectFails, NotReady, SyncFails, SyncCount,
           SyncTest, SyncSend, SyncDone
  <1>4. rcur' = rcur \/ rcur' = [rcur EXCEPT ![s] = NULL]
    BY DEF ReadNode, Connect, ConnectFails, NotReady, SyncFails, SyncCount,
           SyncTest, SyncSend, SyncDone
  <1>5. idx' = idx \/ \E n \in Nat : idx' = [idx EXCEPT ![s] = n]
    <2>1. idx[s] + 1 \in Nat /\ 0 \in Nat
      BY <1>1 DEF IInv, TypeOK
    <2>2. QED
      BY <2>1 DEF ReadNode, Connect, ConnectFails, NotReady, SyncFails, SyncCount,
                  SyncTest, SyncSend, SyncDone
  <1>6. count' = count \/ \E n \in Nat : count' = [count EXCEPT ![s] = n]
    <2>1. size \in Nat /\ 0 \in Nat
      BY DEF IInv, TypeOK
    <2>2. QED
      BY <2>1 DEF ReadNode, Connect, ConnectFails, NotReady, SyncFails, SyncCount,
                  SyncTest, SyncSend, SyncDone
  <1>7. dest' = dest \/ \E k \in Keys \cup {NULL} : dest' = [dest EXCEPT ![s] = k]
    <2>1. rcur[s] # NULL => cell[rcur[s]].key \in Keys \cup {NULL}
      BY <1>1 DEF IInv, TypeOK, Cell
    <2>2. QED
      BY <2>1 DEF ReadNode, Connect, ConnectFails, NotReady, SyncFails, SyncCount,
                  SyncTest, SyncSend, SyncDone
  <1>8. overtaken' \subseteq overtaken \cup {s}
    BY DEF ReadNode, Connect, ConnectFails, NotReady, SyncFails, SyncCount,
           SyncTest, SyncSend, SyncDone
  <1>9. /\ rpc' \in [Readers -> {"idle", "start", "connect", "status", "delete",
                                 "free", "shrink", "test", "get", "first",
                                 "hop", "use"}]
        /\ rcur' \in [Readers -> Cells \cup {NULL}]
        /\ \A q \in Readers \ {s} : rpc'[q] = rpc[q] /\ rcur'[q] = rcur[q]
        /\ rpc'[s] \notin {"free", "shrink"}
    <2>1. rpc \in [Readers -> {"idle", "start", "connect", "status", "delete",
                               "free", "shrink", "test", "get", "first",
                               "hop", "use"}]
      BY DEF IInv, TypeOK
    <2>2. rcur \in [Readers -> Cells \cup {NULL}]
      BY DEF IInv, TypeOK
    <2>3. QED
      BY <1>1, <1>3, <1>4, <2>1, <2>2
  <1>10. idx' \in [Readers -> Nat]
    <2>1. idx \in [Readers -> Nat]
      BY DEF IInv, TypeOK
    <2>2. QED
      BY <1>1, <1>5, <2>1, Updated
  <1>11. count' \in [Syncers -> Nat]
    <2>1. count \in [Syncers -> Nat]
      BY DEF IInv, TypeOK
    <2>2. QED
      BY <1>6, <2>1, Updated
  <1>12. dest' \in [Syncers -> Keys \cup {NULL}]
    <2>1. dest \in [Syncers -> Keys \cup {NULL}]
      BY DEF IInv, TypeOK
    <2>2. QED
      BY <1>7, <2>1, Updated
  <1>13. overtaken' \subseteq Threads
    BY <1>1, <1>8 DEF IInv, TypeOK, Threads
  <1>14. TypeOK'
    BY <1>2, <1>9, <1>10, <1>11, <1>12, <1>13
    DEF IInv, TypeOK, listVars, handlerVars
  <1>15. rpc'[Round] \in {"test", "get", "first", "hop", "use"}
    BY <1>1, <1>9 DEF IInv, Locked, Readers
  <1>16. QED
    BY <1>1, <1>2, <1>3, <1>9, <1>14, <1>15, QuietReader

-----------------------------------------------------------------------------
\* What is known of the list.
LEMMA ListFacts ==
  ASSUME TypeOK
  PROVE  /\ Linked \in Nat /\ order \in Seq(Cells)
         /\ \A j \in 1..Linked : order[j] \in Cells
         /\ \A c \in Cells : /\ cell[c] \in Cell
                             /\ cell[c].key \in Keys \cup {NULL}
                             /\ cell[c].succ \in Cells \cup {NULL}
                             /\ cell[c].pred \in Cells \cup {NULL}
  BY DEF TypeOK, Linked, Cell

\* When nobody has the lock, size and `last' are right and all allocated nodes
\* are in the list.
LEMMA LockFree ==
  ASSUME IInv, lock = Nobody
  PROVE  /\ \A h \in Handlers : hpc[h] \notin {"link", "count"}
         /\ \A s \in Syncers : rpc[s] \notin {"free", "shrink"}
         /\ size = Linked
         /\ last = IF Linked > 0 THEN order[Linked] ELSE NULL
         /\ \A c \in used : \E j \in 1..Linked : order[j] = c
  <1>1. /\ \A h \in Handlers : hpc[h] \notin {"link", "count"}
        /\ \A s \in Syncers : rpc[s] \notin {"free", "shrink"}
    BY StatusPeersAssumption DEF IInv, Locked, Threads, Readers
  <1>2. QED
    BY <1>1 DEF IInv, Balance, Chained, Accounted, Unlisted

LEMMA AllocIInv ==
  ASSUME IInv, NEW h \in Handlers, Alloc(h)
  PROVE  IInv'
  <1> USE DEF HandlerGoes
  <1>1. PICK c \in Cells \ used :
          /\ cell' = [cell EXCEPT ![c] =
                        [key |-> rec[h].key, named |-> rec[h].named, succ |-> NULL,
                         pred |-> IF size = 0 THEN NULL ELSE last]]
          /\ used' = used \cup {c}
          /\ last' = IF size = 0 THEN last ELSE c
          /\ hcur' = [hcur EXCEPT ![h] = c]
    BY DEF Alloc
  <1>2. /\ hpc[h] = "insert" /\ hpc' = [hpc EXCEPT ![h] = "link"]
        /\ lock = Nobody /\ lock' = h
        /\ UNCHANGED <<size, first, order, gone, rec, readerVars, overtaken, culprit>>
    BY DEF Alloc
  <1>3. TypeOK
    BY DEF IInv
  <1>4. /\ rec[h].key \in Keys /\ rec[h].named \in BOOLEAN
        /\ last \in Cells \cup {NULL}
    BY <1>2, <1>3 DEF IInv, Records, TypeOK, Record
  <1>5. /\ Linked' = Linked
        /\ \A d : Unlisted(d)' <=> Unlisted(d)
        /\ \A d \in Cells \ {c} : cell'[d] = cell[d]
        /\ cell'[c] = [key |-> rec[h].key, named |-> rec[h].named, succ |-> NULL,
                       pred |-> IF size = 0 THEN NULL ELSE last]
    BY <1>1, <1>2, <1>3 DEF Linked, Unlisted, TypeOK
  <1>6. Unlisted(c)
    BY <1>1 DEF IInv, Chained, Unlisted
  <1>7. TypeOK'
    <2>1. cell' \in [Cells -> Cell]
      <3>1. [key |-> rec[h].key, named |-> rec[h].named, succ |-> NULL,
             pred |-> IF size = 0 THEN NULL ELSE last] \in Cell
        BY <1>4 DEF Cell
      <3>2. QED
        BY <1>1, <1>3, <3>1 DEF TypeOK
    <2>2. QED
      BY <1>1, <1>2, <1>3, <2>1 DEF TypeOK, Threads, readerVars
  <1>8. /\ \A g \in Handlers \ {h} : hpc'[g] = hpc[g] /\ hpc[g] \notin {"link", "count"}
        /\ hpc'[h] = "link" /\ hcur'[h] = c
    BY <1>1, <1>2, <1>3, LockFree DEF TypeOK
  <1>9. Locked'
    BY <1>2, <1>8, StatusPeersAssumption, LockFree
    DEF IInv, Locked, Threads, Readers, readerVars
  <1>10. Balance'
    BY <1>2, <1>5, <1>8, StatusPeersAssumption, LockFree
    DEF Balance, Threads, readerVars
  <1>11. Chained'
    BY <1>1, <1>2, <1>3, <1>5, <1>6, <1>8, ListFacts
    DEF IInv, Chained, Unlisted
  <1>12. Filled(h)'
    <2>1. last = IF Linked > 0 THEN order[Linked] ELSE NULL
      BY <1>2, LockFree
    <2>2. size = Linked /\ Linked \in Nat
      BY <1>2, <1>3, LockFree, ListFacts
    <2>3. QED
      BY <1>1, <1>2, <1>4, <1>5, <1>6, <1>8, <2>1, <2>2 DEF Filled
  <1>13. Pending'
    BY <1>2, <1>8, <1>12, LockFree DEF Pending, readerVars
  <1>14. Accounted'
    BY <1>1, <1>2, <1>5, <1>8, LockFree DEF Accounted, Unlisted
  <1>15. Records'
    BY <1>2, <1>3 DEF IInv, Records, TypeOK
  <1>16. QED
    BY <1>7, <1>9, <1>10, <1>11, <1>13, <1>14, <1>15 DEF IInv

LEMMA LinkIInv ==
  ASSUME IInv, NEW h \in Handlers, Link(h)
  PROVE  IInv'
  <1> USE DEF HandlerGoes
  <1> DEFINE c == hcur[h]
  <1>1. /\ hpc[h] = "link" /\ hpc' = [hpc EXCEPT ![h] = "count"]
        /\ order' = Append(order, c)
        /\ UNCHANGED <<size, used, lock, gone, hcur, rec, readerVars, overtaken,
                       culprit>>
    BY DEF Link
  <1>2. \/ size = 0 /\ first' = c /\ last' = c /\ UNCHANGED cell
        \/ /\ size # 0
           /\ cell' = [cell EXCEPT ![cell[c].pred].succ = c]
           /\ UNCHANGED <<first, last>>
    BY DEF Link
  <1>3. TypeOK /\ Linked \in Nat /\ order \in Seq(Cells)
    BY ListFacts DEF IInv
  <1>4. /\ size = Linked /\ Filled(h)
        /\ lock = h
    BY <1>1 DEF IInv, Balance, Pending, Locked
  <1>5. /\ c \in Cells /\ c \in used /\ Unlisted(c)
        /\ cell[c].key \in Keys /\ cell[c].succ = NULL
        /\ cell[c].pred = IF Linked > 0 THEN order[Linked] ELSE NULL
        /\ Linked > 0 => last = c
    BY <1>3, <1>4 DEF Filled, TypeOK
  <1>6. /\ Linked' = Linked + 1
        /\ \A j \in 1..Linked : order'[j] = order[j]
        /\ order'[Linked + 1] = c
        /\ order' \in Seq(Cells)
    BY <1>1, <1>3, <1>5, AppendProperties DEF Linked
  <1>7. /\ \A g \in Handlers \ {h} : hpc'[g] = hpc[g] /\ hpc[g] \notin {"link", "count"}
        /\ hpc'[h] = "count"
        /\ \A s \in Syncers : rpc'[s] = rpc[s] /\ rpc[s] \notin {"free", "shrink"}
    BY <1>1, <1>3, <1>4, StatusPeersAssumption
    DEF IInv, Locked, TypeOK, readerVars, Threads, Readers
  <1> HIDE DEF c
  <1>8. \A d \in Cells :
          /\ cell'[d].pred = cell[d].pred
          /\ cell'[d].succ = IF Linked > 0 /\ d = order[Linked] THEN c ELSE cell[d].succ
          /\ cell'[d] \in Cell
    <2>1. CASE size = 0
      BY <1>2, <1>3, <1>4, <2>1, ListFacts
    <2>2. CASE size # 0
      <3>1. Linked > 0 /\ cell[c].pred = order[Linked]
        BY <1>3, <1>4, <1>5, <2>2
      <3>2. cell' = [cell EXCEPT ![order[Linked]].succ = c]
        BY <1>2, <2>2, <3>1
      <3>3. cell \in [Cells -> Cell] /\ order[Linked] \in Cells
        BY <1>3, <3>1, ListFacts DEF TypeOK
      <3>4. QED
        BY <1>5, <3>1, <3>2, <3>3 DEF Cell
    <2>3. QED
      BY <2>1, <2>2
  <1>9. TypeOK'
    <2>1. cell' \in [Cells -> Cell]
      BY <1>2, <1>3, <1>8 DEF TypeOK
    <2>2. {first', last'} \subseteq Cells \cup {NULL}
      BY <1>2, <1>3, <1>5 DEF TypeOK
    <2>3. QED
      BY <1>1, <1>3, <1>6, <2>1, <2>2 DEF TypeOK, readerVars
  <1>10. Locked'
    BY <1>1, <1>4, <1>7, StatusPeersAssumption DEF IInv, Locked, readerVars
  <1>11. Balance'
    BY <1>1, <1>3, <1>4, <1>6, <1>7, StatusPeersAssumption DEF Balance, Threads
  <1>12. Chained'
    <2> DEFINE new == Linked + 1
    <2>0. /\ \A j \in 1..Linked' : j \in 1..Linked \/ j = new
          /\ order'[new] = c /\ \A j \in 1..Linked : order[j] # c
      BY <1>3, <1>5, <1>6 DEF Unlisted
    <2> HIDE DEF new
    <2>1. \A j, k \in 1..Linked' : order'[j] = order'[k] => j = k
      <3>1. \A j, k \in 1..Linked : order[j] = order[k] => j = k
        BY DEF IInv, Chained
      <3>2. QED
        BY <1>6, <2>0, <3>1
    <2>2. \A j \in 1..Linked' : order'[j] \in used' /\ order'[j] \in Cells
      <3>1. \A j \in 1..Linked : order[j] \in used /\ order[j] \in Cells
        BY <1>3, ListFacts DEF IInv, Chained
      <3>2. QED
        BY <1>1, <1>5, <1>6, <2>0, <3>1
    <2>3. \A j \in 1..Linked' :
            cell'[order'[j]].pred = IF j > 1 THEN order'[j - 1] ELSE NULL
      <3>1. \A j \in 1..Linked :
              cell[order[j]].pred = IF j > 1 THEN order[j - 1] ELSE NULL
        BY DEF IInv, Chained
      <3>2. \A j \in 1..Linked :
              cell'[order'[j]].pred = IF j > 1 THEN order'[j - 1] ELSE NULL
        <4>1. \A j \in 1..Linked : j > 1 => j - 1 \in 1..Linked
          BY <1>3
        <4>2. \A j \in 1..Linked : order'[j] = order[j] /\ order[j] \in Cells
          BY <1>3, <1>6, ListFacts
        <4>3. QED
          BY <1>8, <3>1, <4>1, <4>2
      <3>3. cell'[c].pred = IF new > 1 THEN order'[new - 1] ELSE NULL
        BY <1>3, <1>5, <1>6, <1>8 DEF new
      <3>4. QED
        BY <2>0, <3>2, <3>3
    <2>4. \A j \in 1..Linked' :
            cell'[order'[j]].succ = IF j < Linked' THEN order'[j + 1] ELSE NULL
      <3>1. SUFFICES ASSUME NEW j \in 1..Linked'
                     PROVE  cell'[order'[j]].succ =
                              IF j < Linked' THEN order'[j + 1] ELSE NULL
        OBVIOUS
      <3>2. CASE j < Linked
        <4>1. order[j] # order[Linked] /\ order[j] \in Cells
          BY <1>3, <3>1, <3>2, ListFacts DEF IInv, Chained
        <4>2. cell[order[j]].succ = order[j + 1]
          BY <1>3, <3>1, <3>2 DEF IInv, Chained
        <4>3. QED
          BY <1>3, <1>6, <1>8, <3>1, <3>2, <4>1, <4>2
      <3>3. CASE j = Linked
        BY <1>3, <1>6, <1>8, <3>1, <3>3, ListFacts
      <3>4. CASE j = Linked + 1
        BY <1>3, <1>5, <1>6, <1>8, <3>4 DEF Unlisted
      <3>5. QED
        BY <1>3, <1>6, <3>1, <3>2, <3>3, <3>4
    <2>5. first' = IF Linked' > 0 THEN order'[1] ELSE NULL
      BY <1>2, <1>3, <1>4, <1>6 DEF IInv, Chained
    <2>6. last' = IF Linked' > 0 THEN order'[Linked'] ELSE NULL
      BY <1>2, <1>3, <1>4, <1>5, <1>6
    <2>7. QED
      BY <2>1, <2>2, <2>3, <2>4, <2>5, <2>6 DEF Chained
  <1>13. Pending'
    BY <1>7 DEF Pending
  <1>14. Accounted'
    <2>1. \A d \in used : d = c \/ ~Unlisted(d)
      BY <1>7 DEF IInv, Accounted, c
    <2>2. \A d : d = c \/ ~Unlisted(d) => ~Unlisted(d)'
      BY <1>3, <1>6 DEF Unlisted
    <2>3. QED
      BY <1>1, <2>1, <2>2 DEF Accounted
  <1>15. Records'
    BY <1>1, <1>3 DEF IInv, Records, TypeOK
  <1>16. QED
    BY <1>9, <1>10, <1>11, <1>12, <1>13, <1>14, <1>15 DEF IInv

LEMMA CountIInv ==
  ASSUME IInv, NEW h \in Handlers, Count(h)
  PROVE  IInv'
  <1> USE DEF Rest
  <1>1. /\ hpc[h] = "count" /\ hpc' = [hpc EXCEPT ![h] = "recv"]
        /\ hcur' = [hcur EXCEPT ![h] = NULL] /\ rec' = [rec EXCEPT ![h] = NoRecord]
        /\ overtaken' = overtaken \ {h}
        /\ size' = size + 1 /\ lock' = Nobody
        /\ UNCHANGED <<first, last, cell, used, order, gone, readerVars, culprit>>
    BY DEF Count
  <1>2. TypeOK /\ lock = h /\ size + 1 = Linked
    BY <1>1 DEF IInv, Balance, Locked
  <1>3. /\ \A g \in Handlers \ {h} : hpc'[g] = hpc[g] /\ hpc[g] \notin {"link", "count"}
        /\ hpc'[h] = "recv"
        /\ \A s \in Syncers : rpc'[s] = rpc[s] /\ rpc[s] \notin {"free", "shrink"}
    BY <1>1, <1>2, StatusPeersAssumption
    DEF IInv, Locked, TypeOK, readerVars, Threads, Readers
  <1>4. Linked' = Linked /\ \A d : Unlisted(d)' <=> Unlisted(d)
    BY <1>1 DEF Linked, Unlisted
  <1>5. TypeOK'
    <2>1. NoRecord \in Record
      BY DEF NoRecord, Record
    <2>2. rec' \in [Handlers -> Record] /\ hcur' \in [Handlers -> Cells \cup {NULL}]
      BY <1>1, <1>2, <2>1 DEF TypeOK
    <2>3. QED
      BY <1>1, <1>2, <2>2 DEF TypeOK, readerVars
  <1>6. Locked'
    BY <1>1, <1>3, StatusPeersAssumption DEF IInv, Locked, readerVars, Threads, Readers
  <1>7. Balance'
    BY <1>1, <1>2, <1>3, <1>4 DEF Balance
  <1>8. Chained'
    <2>1. \A g \in Handlers : hpc[g] # "link"
      BY <1>1, <1>3
    <2>2. QED
      BY <1>1, <1>4, <2>1 DEF IInv, Chained
  <1>9. Pending'
    BY <1>3 DEF Pending
  <1>10. Accounted'
    BY <1>1, <1>3, <1>4 DEF IInv, Accounted
  <1>11. Records'
    BY <1>1, <1>2 DEF IInv, Records, TypeOK
  <1>12. QED
    BY <1>5, <1>6, <1>7, <1>8, <1>9, <1>10, <1>11 DEF IInv

LEMMA RenameIInv ==
  ASSUME IInv, NEW h \in Handlers, Rename(h)
  PROVE  IInv'
  <1> USE DEF Rest
  <1>1. /\ hpc[h] = "rename" /\ hpc' = [hpc EXCEPT ![h] = "recv"]
        /\ hcur' = [hcur EXCEPT ![h] = NULL] /\ rec' = [rec EXCEPT ![h] = NoRecord]
        /\ overtaken' = overtaken \ {h}
        /\ hcur[h] \in used
        /\ cell' = [cell EXCEPT ![hcur[h]].named = rec[h].named]
        /\ UNCHANGED <<size, first, last, used, order, lock, gone, readerVars, culprit>>
        /\ lock = Nobody
    BY DEF Rename
  <1>2. TypeOK /\ hcur[h] \in Cells
    BY <1>1 DEF IInv, TypeOK
  <1>3. /\ \A g \in Handlers : hpc'[g] \notin {"link", "count"}
        /\ \A g \in Handlers : hpc[g] \notin {"link", "count"}
        /\ \A s \in Syncers : rpc'[s] = rpc[s] /\ rpc[s] \notin {"free", "shrink"}
    BY <1>1, <1>2, LockFree DEF TypeOK, readerVars
  <1>4. Linked' = Linked /\ \A d : Unlisted(d)' <=> Unlisted(d)
    BY <1>1 DEF Linked, Unlisted
  <1>5. \A d \in Cells : /\ cell'[d] \in Cell
                         /\ cell'[d].succ = cell[d].succ
                         /\ cell'[d].pred = cell[d].pred
    <2>1. rec[h].named \in BOOLEAN
      BY <1>2 DEF TypeOK, Record
    <2>2. cell \in [Cells -> Cell]
      BY <1>2 DEF TypeOK
    <2>3. QED
      BY <1>1, <1>2, <2>1, <2>2 DEF Cell
  <1>6. TypeOK'
    <2>1. NoRecord \in Record
      BY DEF NoRecord, Record
    <2>2. rec' \in [Handlers -> Record] /\ hcur' \in [Handlers -> Cells \cup {NULL}]
      BY <1>1, <1>2, <2>1 DEF TypeOK
    <2>3. cell' \in [Cells -> Cell]
      BY <1>1, <1>2, <1>5 DEF TypeOK
    <2>4. QED
      BY <1>1, <1>2, <2>2, <2>3 DEF TypeOK, readerVars
  <1>7. Locked'
    BY <1>1, <1>3, StatusPeersAssumption DEF IInv, Locked, readerVars, Threads, Readers
  <1>8. Balance'
    BY <1>1, <1>2, <1>3, <1>4, LockFree DEF Balance
  <1>9. Chained'
    BY <1>1, <1>2, <1>3, <1>4, <1>5, ListFacts DEF IInv, Chained
  <1>10. Pending' /\ Accounted'
    BY <1>1, <1>3, <1>4, LockFree DEF Pending, Accounted, Unlisted
  <1>11. Records'
    BY <1>1, <1>2 DEF IInv, Records, TypeOK
  <1>12. QED
    BY <1>6, <1>7, <1>8, <1>9, <1>10, <1>11 DEF IInv

-----------------------------------------------------------------------------
\* The list without its i-th node.
LEMMA WithoutFacts ==
  ASSUME TypeOK, NEW i \in 1..Linked,
         \A j, k \in 1..Linked : order[j] = order[k] => j = k
  PROVE  /\ Without(order[i]) \in Seq(Cells)
         /\ Len(Without(order[i])) = Linked - 1
         /\ \A j \in 1 .. Linked - 1 :
              /\ j < i => Without(order[i])[j] = order[j]
              /\ j >= i => Without(order[i])[j] = order[j + 1]
  <1>1. Linked \in Nat /\ Linked = Len(order)
    BY ListFacts DEF Linked
  <1>2. (CHOOSE j \in 1..Len(order) : order[j] = order[i]) = i
    BY <1>1
  <1>3. Without(order[i]) =
          [j \in 1 .. Linked - 1 |-> order[IF j < i THEN j ELSE j + 1]]
    BY <1>1, <1>2 DEF Without
  <1>4. \A j \in 1 .. Linked - 1 : (IF j < i THEN j ELSE j + 1) \in 1..Linked
    BY <1>1
  <1>5. \A j \in 1 .. Linked - 1 : order[IF j < i THEN j ELSE j + 1] \in Cells
    BY <1>4, ListFacts
  <1>6. Linked - 1 \in Nat
    BY <1>1
  <1>7. Without(order[i]) \in Seq(Cells) /\ Len(Without(order[i])) = Linked - 1
    BY <1>3, <1>5, <1>6
  <1>8. \A j \in 1 .. Linked - 1 :
          Without(order[i])[j] = order[IF j < i THEN j ELSE j + 1]
    BY <1>3
  <1>9. \A j \in 1 .. Linked - 1 : j >= i <=> ~(j < i)
    BY <1>1
  <1>10. QED
    BY <1>7, <1>8, <1>9

LEMMA UnlinkIInv ==
  ASSUME IInv, NEW s \in Syncers, Unlink(s)
  PROVE  IInv'
  <1> USE DEF ReaderGoes
  <1> DEFINE c == rcur[s]
             p == cell[c].pred
             n == cell[c].succ
             L == Linked
  <1>1. /\ rpc[s] = "delete" /\ rpc' = [rpc EXCEPT ![s] = "free"]
        /\ lock = Nobody /\ lock' = s
        /\ c \in used
        /\ first' = IF p = NULL THEN n ELSE first
        /\ last' = IF n = NULL THEN p ELSE last
        /\ cell' = [d \in Cells |->
                      [cell[d] EXCEPT !.succ = IF d = p THEN n ELSE @,
                                      !.pred = IF d = n THEN p ELSE @]]
        /\ order' = Without(c)
        /\ overtaken' = (overtaken \cup {t \in Threads : InTheList(t)}) \ {s}
        /\ UNCHANGED <<size, used, gone, handlerVars, rcur, idx, hop, count, dest,
                       culprit>>
    BY DEF Unlink
  <1>2. TypeOK /\ L \in Nat /\ s \in Readers /\ s # Round /\ c \in Cells
    BY <1>1, ListFacts, StatusPeersAssumption DEF IInv, Readers, TypeOK
  <1>3. /\ \A j, k \in 1..L : order[j] = order[k] => j = k
        /\ \A j \in 1..L :
             /\ order[j] \in used
             /\ order[j] \in Cells
             /\ cell[order[j]].succ = IF j < L THEN order[j + 1] ELSE NULL
             /\ cell[order[j]].pred = IF j > 1 THEN order[j - 1] ELSE NULL
        /\ first = IF L > 0 THEN order[1] ELSE NULL
        /\ last = IF L > 0 THEN order[L] ELSE NULL
    BY <1>1, <1>2, ListFacts, LockFree DEF IInv, Chained
  <1>4. PICK i \in 1..L : order[i] = c
    BY <1>1, LockFree
  <1>5. /\ p = IF i > 1 THEN order[i - 1] ELSE NULL
        /\ n = IF i < L THEN order[i + 1] ELSE NULL
    BY <1>3, <1>4
  <1>6. /\ p \in Cells \cup {NULL} /\ n \in Cells \cup {NULL}
        /\ p = NULL <=> i = 1
        /\ n = NULL <=> i = L
    <2>1. NULL \notin Cells
      BY StatusPeersAssumption
    <2>2. (i > 1 => i - 1 \in 1..L) /\ (i < L => i + 1 \in 1..L)
      BY <1>2
    <2>3. QED
      BY <1>2, <1>3, <1>5, <2>1, <2>2
  <1>7. /\ order' \in Seq(Cells) /\ Linked' = L - 1
        /\ \A j \in 1 .. L - 1 : /\ j < i => order'[j] = order[j]
                                 /\ j >= i => order'[j] = order[j + 1]
    <2>1. order' = Without(order[i])
      BY <1>1, <1>4
    <2>2. QED
      BY <1>2, <1>3, <2>1, WithoutFacts DEF Linked
  <1>8. \A d \in Cells : /\ cell'[d] \in Cell
                         /\ cell'[d].succ = IF d = p THEN n ELSE cell[d].succ
                         /\ cell'[d].pred = IF d = n THEN p ELSE cell[d].pred
    <2>1. cell \in [Cells -> Cell]
      BY <1>2 DEF TypeOK
    <2> HIDE DEF p, n
    <2>2. QED
      BY <1>1, <1>6, <2>1 DEF Cell
  <1>9. /\ \A h \in Handlers : hpc'[h] = hpc[h] /\ hpc[h] \notin {"link", "count"}
        /\ \A t \in Readers \ {s} : rpc'[t] = rpc[t] /\ rcur'[t] = rcur[t]
        /\ \A t \in Syncers : rpc[t] \notin {"free", "shrink"}
        /\ rpc'[s] = "free" /\ rcur'[s] = c
    BY <1>1, <1>2, LockFree DEF TypeOK, handlerVars
  <1>10. size = L /\ size' = size
    BY <1>1, LockFree
  <1> HIDE DEF c, p, n, L
  <1>11. TypeOK'
    <2>1. cell' \in [Cells -> Cell]
      BY <1>1, <1>8
    <2>2. {first', last'} \subseteq Cells \cup {NULL}
      BY <1>1, <1>2, <1>6 DEF TypeOK
    <2>3. rpc' \in [Readers -> {"idle", "start", "connect", "status", "delete",
                                "free", "shrink", "test", "get", "first",
                                "hop", "use"}]
      BY <1>1, <1>2 DEF TypeOK
    <2>4. overtaken' \subseteq Threads /\ lock' \in Threads \cup {Nobody}
      BY <1>1, <1>2 DEF TypeOK, Threads
    <2>5. QED
      BY <1>1, <1>2, <1>7, <2>1, <2>2, <2>3, <2>4 DEF TypeOK, handlerVars
  <1>12. Locked'
    BY <1>1, <1>2, <1>9, StatusPeersAssumption DEF IInv, Locked, Readers, Threads
  <1>13. Balance'
    <2>1. lock' # Nobody
      BY <1>1, <1>2, StatusPeersAssumption DEF Threads
    <2>2. size' = Linked' + 1
      BY <1>2, <1>7, <1>10
    <2>3. QED
      BY <1>9, <2>1, <2>2 DEF Balance
  <1>14. Chained'
    <2>0. ASSUME NEW j \in 1 .. L - 1
          PROVE  \E a \in 1..L : order'[j] = order[a] /\ a = IF j < i THEN j ELSE j + 1
      <3>1. j \in 1..L /\ j + 1 \in 1..L
        BY <1>2
      <3>2. CASE j < i
        BY <1>7, <3>1, <3>2
      <3>3. CASE ~(j < i)
        BY <1>2, <1>7, <3>1, <3>3
      <3>4. QED
        BY <3>2, <3>3
    <2>1. \A j, k \in 1..Linked' : order'[j] = order'[k] => j = k
      <3>1. SUFFICES ASSUME NEW j \in 1 .. L - 1, NEW k \in 1 .. L - 1,
                            order'[j] = order'[k]
                     PROVE  j = k
        BY <1>7
      <3>2. j \in 1..L /\ k \in 1..L /\ j + 1 \in 1..L /\ k + 1 \in 1..L
        BY <1>2
      <3>3. PICK a \in 1..L : order'[j] = order[a] /\ a = IF j < i THEN j ELSE j + 1
        BY <2>0
      <3>4. PICK b \in 1..L : order'[k] = order[b] /\ b = IF k < i THEN k ELSE k + 1
        BY <2>0
      <3>5. a = b
        BY <1>3, <3>1, <3>3, <3>4
      <3>6. QED
        BY <1>2, <3>3, <3>4, <3>5
    <2>2. \A j \in 1..Linked' : order'[j] \in used' /\ order'[j] \in Cells
      <3>1. SUFFICES ASSUME NEW j \in 1 .. L - 1
                     PROVE  order'[j] \in used /\ order'[j] \in Cells
        BY <1>1, <1>7
      <3>2. PICK a \in 1..L : order'[j] = order[a]
        BY <2>0
      <3>3. QED
        BY <1>3, <3>2
    <2>3. \A j \in 1..Linked' :
            cell'[order'[j]].succ = IF j < Linked' THEN order'[j + 1] ELSE NULL
      <3>1. SUFFICES ASSUME NEW j \in 1 .. L - 1
                     PROVE  cell'[order'[j]].succ =
                              IF j < L - 1 THEN order'[j + 1] ELSE NULL
        BY <1>7
      <3>2. /\ j \in 1..L /\ j + 1 \in 1..L /\ i \in 1..L
            /\ (i > 1 => i - 1 \in 1..L) /\ (j < L - 1 => j + 1 \in 1 .. L - 1)
        BY <1>2
      <3>3. CASE j < i - 1
        <4>1. order'[j] = order[j] /\ order[j] # p
          <5>1. i > 1 /\ i - 1 \in 1..L /\ i - 1 # j /\ j < i
            BY <1>2, <3>2, <3>3
          <5>2. p = order[i - 1]
            BY <1>5, <5>1
          <5>3. order[j] # order[i - 1]
            BY <1>3, <3>2, <5>1
          <5>4. QED
            BY <1>7, <3>1, <5>1, <5>2, <5>3
        <4>2. j < L - 1 /\ order'[j + 1] = order[j + 1]
          BY <1>2, <1>7, <3>2, <3>3
        <4>3. QED
          BY <1>2, <1>3, <1>8, <3>2, <4>1, <4>2
      <3>4. CASE j = i - 1
        <4>1. order'[j] = p /\ p \in Cells
          <5>1. i > 1 /\ j < i
            BY <1>2, <3>2, <3>4
          <5>2. order'[j] = order[i - 1]
            BY <1>7, <3>4, <5>1
          <5>3. QED
            BY <1>3, <1>5, <3>2, <5>1, <5>2
        <4>2. j < L - 1 => i < L /\ order'[j + 1] = order[i + 1]
          BY <1>2, <1>7, <3>2, <3>4
        <4>3. QED
          BY <1>2, <1>5, <1>8, <3>2, <3>4, <4>1, <4>2
      <3>5. CASE j >= i
        <4>1. order'[j] = order[j + 1] /\ order[j + 1] # p
          <5>1. i > 1 => i - 1 # j + 1
            BY <1>2, <3>2, <3>5
          <5>2. p = NULL \/ order[j + 1] # p
            BY <1>3, <1>5, <3>2, <5>1
          <5>3. QED
            BY <1>3, <1>7, <3>2, <3>5, <5>2, StatusPeersAssumption
        <4>2. j < L - 1 => order'[j + 1] = order[j + 1 + 1]
          BY <1>2, <1>7, <3>2, <3>5
        <4>3. cell[order[j + 1]].succ = IF j + 1 < L THEN order[j + 1 + 1] ELSE NULL
          BY <1>3, <3>2
        <4>4. QED
          BY <1>2, <1>3, <1>8, <3>2, <4>1, <4>2, <4>3
      <3>6. QED
        BY <1>2, <3>2, <3>3, <3>4, <3>5
    <2>4. \A j \in 1..Linked' :
            cell'[order'[j]].pred = IF j > 1 THEN order'[j - 1] ELSE NULL
      <3>1. SUFFICES ASSUME NEW j \in 1 .. L - 1
                     PROVE  cell'[order'[j]].pred =
                              IF j > 1 THEN order'[j - 1] ELSE NULL
        BY <1>7
      <3>2. /\ j \in 1..L /\ j + 1 \in 1..L /\ i \in 1..L
            /\ (i < L => i + 1 \in 1..L) /\ (j > 1 => j - 1 \in 1 .. L - 1)
        BY <1>2
      <3>3. CASE j < i
        <4>1. order'[j] = order[j] /\ order[j] # n
          <5>1. n = NULL \/ order[j] # n
            BY <1>2, <1>3, <1>5, <3>2, <3>3
          <5>2. QED
            BY <1>3, <1>7, <3>2, <3>3, <5>1, StatusPeersAssumption
        <4>2. j > 1 => order'[j - 1] = order[j - 1]
          BY <1>2, <1>7, <3>2, <3>3
        <4>3. QED
          BY <1>2, <1>3, <1>8, <3>2, <4>1, <4>2
      <3>4. CASE j = i
        <4>1. order'[j] = n /\ n \in Cells
          BY <1>2, <1>3, <1>5, <1>7, <3>2, <3>4
        <4>2. j > 1 => order'[j - 1] = order[i - 1]
          BY <1>2, <1>7, <3>2, <3>4
        <4>3. QED
          BY <1>2, <1>5, <1>8, <3>2, <3>4, <4>1, <4>2
      <3>5. CASE j > i
        <4>1. order'[j] = order[j + 1] /\ order[j + 1] # n
          <5>1. n = NULL \/ order[j + 1] # n
            BY <1>2, <1>3, <1>5, <3>2, <3>5
          <5>2. order[j + 1] \in Cells /\ NULL \notin Cells
            BY <1>3, <3>2, StatusPeersAssumption
          <5>3. j >= i
            BY <1>2, <3>2, <3>5
          <5>4. order'[j] = order[j + 1]
            BY <1>7, <3>1, <5>3
          <5>5. QED
            BY <5>1, <5>2, <5>4
        <4>2. j > 1 /\ order'[j - 1] = order[j]
          BY <1>2, <1>7, <3>2, <3>5
        <4>3. cell[order[j + 1]].pred = order[j]
          BY <1>2, <1>3, <3>2
        <4>4. QED
          BY <1>2, <1>3, <1>8, <3>2, <4>1, <4>2, <4>3
      <3>6. QED
        BY <1>2, <3>2, <3>3, <3>4, <3>5
    <2>5. first' = IF Linked' > 0 THEN order'[1] ELSE NULL
      <3>1. CASE i = 1
        <4>1. first' = IF i < L THEN order[i + 1] ELSE NULL
          BY <1>1, <1>5, <1>6, <3>1
        <4>2. i < L => 1 \in 1 .. L - 1 /\ order'[1] = order[i + 1]
          BY <1>2, <1>7, <3>1
        <4>3. Linked' > 0 <=> i < L
          BY <1>2, <1>7, <3>1
        <4>4. QED
          BY <4>1, <4>2, <4>3
      <3>2. CASE i > 1
        <4>1. first' = order[1]
          <5>1. p # NULL /\ L > 0
            BY <1>2, <1>6, <3>2
          <5>2. QED
            BY <1>1, <1>3, <5>1
        <4>2. Linked' > 0 /\ order'[1] = order[1]
          BY <1>2, <1>7, <3>2
        <4>3. QED
          BY <4>1, <4>2
      <3>3. QED
        BY <1>2, <3>1, <3>2
    <2>6. last' = IF Linked' > 0 THEN order'[Linked'] ELSE NULL
      <3>1. CASE i = L
        <4>1. last' = IF i > 1 THEN order[i - 1] ELSE NULL
          BY <1>1, <1>5, <1>6, <3>1
        <4>2. i > 1 => order'[Linked'] = order[i - 1]
          BY <1>2, <1>7, <3>1
        <4>3. Linked' > 0 <=> i > 1
          BY <1>2, <1>7, <3>1
        <4>4. QED
          BY <4>1, <4>2, <4>3
      <3>2. CASE i < L
        <4>1. last' = order[L]
          <5>1. n # NULL /\ L > 0
            BY <1>2, <1>6, <3>2
          <5>2. QED
            BY <1>1, <1>3, <5>1
        <4>2. Linked' > 0 /\ order'[Linked'] = order[L]
          BY <1>2, <1>7, <3>2
        <4>3. QED
          BY <4>1, <4>2
      <3>3. QED
        BY <1>2, <3>1, <3>2
    <2>7. QED
      BY <2>1, <2>2, <2>3, <2>4, <2>5, <2>6 DEF Chained
  <1>15. Unlisted(c)'
    <2>1. SUFFICES ASSUME NEW j \in 1 .. L - 1, order'[j] = order[i] PROVE FALSE
      BY <1>4, <1>7, <1>9 DEF Unlisted, c
    <2>2. j \in 1..L /\ j + 1 \in 1..L
      BY <1>2
    <2>3. QED
      BY <1>2, <1>3, <1>7, <2>1, <2>2
  <1>16. Pending'
    <2>1. \A t \in Syncers : rpc'[t] = "free" => t = s
      BY <1>9 DEF Readers
    <2>2. Unlisted(rcur[s])'
      BY <1>15 DEF c
    <2>3. QED
      BY <1>2, <1>9, <2>1, <2>2 DEF Pending
  <1>17. Accounted'
    <2>0. used' = used /\ rpc'[s] = "free" /\ rcur'[s] = c
      BY <1>1, <1>9
    <2>1. SUFFICES ASSUME NEW d \in used, d # c PROVE ~Unlisted(d)'
      BY <2>0 DEF Accounted
    <2>2. PICK k \in 1..L : order[k] = d
      BY <1>1, LockFree DEF L
    <2>3. k # i
      BY <1>4, <2>1, <2>2
    <2>4. \E j \in 1 .. L - 1 : order'[j] = d
      <3>1. CASE k < i
        <4>1. k \in 1 .. L - 1
          BY <1>2, <3>1
        <4>2. QED
          BY <1>7, <2>2, <3>1, <4>1
      <3>2. CASE k > i
        <4>1. k - 1 \in 1 .. L - 1 /\ k - 1 >= i /\ k - 1 + 1 = k
          BY <1>2, <3>2
        <4>2. QED
          BY <1>7, <2>2, <4>1
      <3>3. k < i \/ k > i
        BY <1>2, <2>3
      <3>4. QED
        BY <3>1, <3>2, <3>3
    <2>5. QED
      BY <1>7, <2>4 DEF Unlisted
  <1>18. Records'
    BY <1>1 DEF IInv, Records, handlerVars
  <1>19. QED
    BY <1>11, <1>12, <1>13, <1>14, <1>16, <1>17, <1>18 DEF IInv

LEMMA FreeIInv ==
  ASSUME IInv, NEW s \in Syncers, FreeNode(s)
  PROVE  IInv'
  <1> USE DEF ReaderGoes
  <1>1. /\ rpc[s] = "free" /\ rpc' = [rpc EXCEPT ![s] = "shrink"]
        /\ used' = used \ {rcur[s]}
        /\ UNCHANGED <<size, first, last, cell, order, lock, gone, handlerVars,
                       rcur, idx, hop, count, dest, overtaken, culprit>>
    BY DEF FreeNode
  <1>2. TypeOK /\ lock = s /\ s \in Readers /\ s # Round
    BY <1>1, StatusPeersAssumption DEF IInv, Locked, Readers
  <1>3. /\ Linked' = Linked /\ \A d : Unlisted(d)' <=> Unlisted(d)
        /\ Unlisted(rcur[s])
    BY <1>1 DEF IInv, Pending, Linked, Unlisted
  <1>4. /\ \A h \in Handlers : hpc'[h] = hpc[h] /\ hpc[h] \notin {"link", "count"}
        /\ \A t \in Readers \ {s} : rpc'[t] = rpc[t]
        /\ \A t \in Syncers \ {s} : rpc[t] \notin {"free", "shrink"}
        /\ rpc'[s] = "shrink"
    BY <1>1, <1>2, StatusPeersAssumption DEF IInv, Locked, TypeOK, handlerVars
  <1>5. TypeOK'
    <2>1. used' \subseteq Cells
      BY <1>1, <1>2 DEF TypeOK
    <2>2. rpc' \in [Readers -> {"idle", "start", "connect", "status", "delete",
                                "free", "shrink", "test", "get", "first",
                                "hop", "use"}]
      BY <1>1, <1>2 DEF TypeOK
    <2>3. QED
      BY <1>1, <1>2, <2>1, <2>2 DEF TypeOK, handlerVars
  <1>6. Locked'
    BY <1>1, <1>2, <1>4 DEF IInv, Locked, Readers
  <1>7. Balance'
    <2>1. size = Linked + 1 /\ lock # Nobody
      BY <1>1, <1>2, StatusPeersAssumption DEF IInv, Balance, Threads
    <2>2. QED
      BY <1>1, <1>3, <1>4, <2>1 DEF Balance
  <1>8. Chained'
    BY <1>1, <1>3, <1>4 DEF IInv, Chained, Unlisted
  <1>9. Pending'
    BY <1>4 DEF Pending, Readers
  <1>10. Accounted'
    BY <1>1, <1>3, <1>4 DEF IInv, Accounted
  <1>11. Records'
    BY <1>1 DEF IInv, Records, handlerVars
  <1>12. QED
    BY <1>5, <1>6, <1>7, <1>8, <1>9, <1>10, <1>11 DEF IInv

LEMMA ShrinkIInv ==
  ASSUME IInv, NEW s \in Syncers, Shrink(s)
  PROVE  IInv'
  <1> USE DEF Exit
  <1>1. /\ rpc[s] = "shrink" /\ rpc' = [rpc EXCEPT ![s] = "idle"]
        /\ rcur' = [rcur EXCEPT ![s] = NULL] /\ idx' = [idx EXCEPT ![s] = 0]
        /\ count' = [count EXCEPT ![s] = 0] /\ dest' = [dest EXCEPT ![s] = NULL]
        /\ overtaken' = overtaken \ {s}
        /\ size' = size - 1 /\ lock' = Nobody
        /\ UNCHANGED <<first, last, cell, used, order, gone, handlerVars, hop, culprit>>
    BY DEF Shrink
  <1>2. TypeOK /\ lock = s /\ s \in Readers /\ s # Round
    BY <1>1, StatusPeersAssumption DEF IInv, Locked, Readers
  <1>3. /\ Linked' = Linked /\ \A d : Unlisted(d)' <=> Unlisted(d)
        /\ Linked \in Nat /\ size = Linked + 1
    BY <1>1, <1>2, ListFacts DEF IInv, Balance, Linked, Unlisted
  <1>4. /\ \A h \in Handlers : hpc'[h] = hpc[h] /\ hpc[h] \notin {"link", "count"}
        /\ \A t \in Readers \ {s} : rpc'[t] = rpc[t]
        /\ \A t \in Syncers \ {s} : rpc[t] \notin {"free", "shrink"}
        /\ rpc'[s] = "idle"
    BY <1>1, <1>2, StatusPeersAssumption DEF IInv, Locked, TypeOK, handlerVars
  <1>5. TypeOK'
    <2>1. size' \in Nat /\ lock' \in Threads \cup {Nobody} /\ overtaken' \subseteq Threads
      BY <1>1, <1>2, <1>3 DEF TypeOK
    <2>2. rpc' \in [Readers -> {"idle", "start", "connect", "status", "delete",
                                "free", "shrink", "test", "get", "first",
                                "hop", "use"}]
      BY <1>1, <1>2 DEF TypeOK
    <2>3. /\ rcur' \in [Readers -> Cells \cup {NULL}] /\ idx' \in [Readers -> Nat]
          /\ count' \in [Syncers -> Nat] /\ dest' \in [Syncers -> Keys \cup {NULL}]
      BY <1>1, <1>2 DEF TypeOK
    <2>4. QED
      BY <1>1, <1>2, <2>1, <2>2, <2>3 DEF TypeOK, handlerVars
  <1>6. Locked'
    BY <1>1, <1>2, <1>4, StatusPeersAssumption DEF IInv, Locked, Readers, Threads
  <1>7. Balance'
    <2>1. size' = Linked'
      BY <1>1, <1>3
    <2>2. \A t \in Syncers : rpc'[t] \notin {"free", "shrink"}
      BY <1>4 DEF Readers
    <2>3. QED
      BY <1>4, <2>1, <2>2 DEF Balance
  <1>8. Chained'
    BY <1>1, <1>3, <1>4 DEF IInv, Chained
  <1>9. Pending'
    BY <1>4 DEF Pending, Readers
  <1>10. Accounted'
    <2>1. \A t \in Syncers : rpc[t] # "free"
      BY <1>1, <1>4
    <2>2. QED
      BY <1>1, <1>3, <1>4, <2>1 DEF IInv, Accounted
  <1>11. Records'
    BY <1>1 DEF IInv, Records, handlerVars
  <1>12. QED
    BY <1>5, <1>6, <1>7, <1>8, <1>9, <1>10, <1>11 DEF IInv

-----------------------------------------------------------------------------
LEMMA NextIInv == IInv /\ [Next]_vars => IInv'
  <1> SUFFICES ASSUME IInv, [Next]_vars PROVE IInv'
    OBVIOUS
  <1>1. ASSUME NEW k \in Keys, Leave(k) PROVE IInv'
    BY <1>1, StrayIInv
  <1>2. ASSUME NEW h \in Handlers,
               RecvIntroduction(h) \/ RecvRecord(h) \/ EndSession(h) \/ HandlerStep(h)
        PROVE  IInv'
    <2>1. CASE RenameFreed(h)
      BY <2>1, StrayIInv DEF RenameFreed, Threads
    <2>2. QED
      BY <1>2, <2>1, QuietHandler, AllocIInv, LinkIInv, CountIInv, RenameIInv
      DEF HandlerStep
  <1>3. CASE RoundStep
    BY <1>3, RoundIInv
  <1>4. ASSUME NEW s \in Syncers, SyncStep(s) PROVE IInv'
    <2>1. s \in Readers
      BY DEF Readers
    <2>2. CASE ReadNull(s) \/ UnlinkFreed(s)
      BY <2>1, <2>2, StrayIInv DEF ReadNull, UnlinkFreed, Threads
    <2>3. CASE Deletes(s)
      BY <2>2, <2>3, UnlinkIInv, FreeIInv, ShrinkIInv DEF Deletes
    <2>4. QED
      BY <1>4, <2>1, <2>2, <2>3, SyncIInv, ListGetIInv DEF SyncStep
  <1>5. CASE UNCHANGED vars
    <2>1. UNCHANGED <<listVars, lock, gone, handlerVars, readerVars, overtaken, culprit>>
      BY <1>5 DEF vars
    <2>2. TypeOK' /\ Records'
      BY <2>1 DEF IInv, TypeOK, Records, listVars, handlerVars, readerVars
    <2>3. QED
      BY <2>1, <2>2, Quiet DEF IInv, Locked, handlerVars, readerVars
  <1>6. QED
    BY <1>1, <1>2, <1>3, <1>4, <1>5 DEF Next

LEMMA SpecIInv == Spec => []IInv
  BY InitIInv, NextIInv, PTL DEF Spec

\* Of the two sets whose sizes ListWhole adds up one is empty, and the other
\* has at most the holder of the lock.
LEMMA WholeNow == IInv => Inv
  <1> SUFFICES ASSUME IInv PROVE ListWhole
    BY DEF Inv, IInv
  <1> DEFINE A == {h \in Handlers : hpc[h] = "count"}
             T == {s \in Syncers : rpc[s] \in {"free", "shrink"}}
  <1>1. Linked \in Nat /\ size \in Nat
    BY ListFacts DEF IInv, TypeOK
  <1>2. Adding = Cardinality(A) /\ Taking = Cardinality(T)
    BY DEF Adding, Taking
  <1>3. \A h \in A : A = {h} /\ T = {} /\ size + 1 = Linked
    BY StatusPeersAssumption DEF IInv, Locked, Balance, Readers
  <1>4. \A s \in T : T = {s} /\ A = {} /\ size = Linked + 1
    BY StatusPeersAssumption DEF IInv, Locked, Balance, Readers
  <1>5. A = {} /\ T = {} => size = Linked
    <2>1. SUFFICES ASSUME A = {}, T = {}, lock # Nobody PROVE size = Linked
      BY DEF IInv, Balance
    <2>2. PICK h \in Handlers : lock = h
      BY <2>1 DEF IInv, TypeOK, Locked, Threads, Readers
    <2>3. hpc[h] = "link"
      BY <2>1, <2>2 DEF IInv, Locked
    <2>4. QED
      BY <2>3 DEF IInv, Balance
  <1> HIDE DEF A, T
  <1>6. Cardinality({}) = 0 /\ \A t : Cardinality({t}) = 1
    BY FS_EmptySet, FS_Singleton
  <1>7. size + Adding = Linked + Taking
    <2>1. CASE A # {}
      <3>1. Cardinality(A) = 1 /\ Cardinality(T) = 0 /\ size + 1 = Linked
        BY <1>3, <1>6, <2>1
      <3>2. QED
        BY <1>1, <1>2, <3>1
    <2>2. CASE T # {}
      <3>1. Cardinality(A) = 0 /\ Cardinality(T) = 1 /\ size = Linked + 1
        BY <1>4, <1>6, <2>2
      <3>2. QED
        BY <1>1, <1>2, <3>1
    <2>3. CASE A = {} /\ T = {}
      BY <1>1, <1>2, <1>5, <1>6, <2>3
    <2>4. QED
      BY <2>1, <2>2, <2>3
  <1>8. QED
    BY <1>7 DEF IInv, Chained, ListWhole

\* However many handlers insert while synch threads delete, and however old
\* the pointers are with which they come, as long as the process runs, first,
\* last, succ, pred and size agree on one chain of allocated nodes, up to the
\* stores the holder of the lock has yet to do (linked_list.c:46-73, 112-140).
THEOREM ListStaysWhole == Spec => []Inv
  BY SpecIInv, WholeNow, PTL

-----------------------------------------------------------------------------
Entry(c) == [key |-> cell[c].key, named |-> cell[c].named]

EntriesInOrder ==
  /\ Listing \in Seq([key : Keys \cup {NULL}, named : BOOLEAN])
  /\ Len(Listing) = Linked /\ DOMAIN Listing = 1..Linked
  /\ Listing = [j \in 1..Linked |-> Entry(order[j])]

LEMMA ListingFacts == TypeOK => EntriesInOrder
  <1> SUFFICES ASSUME TypeOK PROVE EntriesInOrder
    OBVIOUS
  <1>1. Linked \in Nat /\ \A j \in 1..Linked : cell[order[j]] \in Cell
    BY ListFacts
  <1>2. \A j \in 1..Linked :
          Entry(order[j]) \in [key : Keys \cup {NULL}, named : BOOLEAN]
    BY <1>1 DEF Entry, Cell
  <1>3. Listing = [j \in 1..Linked |-> Entry(order[j])]
    BY DEF Listing, Entry
  <1>4. QED
    BY <1>1, <1>2, <1>3 DEF EntriesInOrder

LEMMA ListingFactsNext == TypeOK' => EntriesInOrder'
  BY ListingFacts, PTL

LEMMA ListingSame ==
  ASSUME order' = order,
         \A j \in 1..Linked : /\ cell'[order[j]].key = cell[order[j]].key
                              /\ cell'[order[j]].named = cell[order[j]].named
  PROVE  Listing' = Listing
  BY DEF Listing, Linked

LEMMA LinkAdds ==
  ASSUME IInv, IInv', NEW h \in Handlers, Link(h)
  PROVE  \E k \in Keys, n \in BOOLEAN : Abstract!Add(k, n)
  <1> DEFINE c == hcur[h]
  <1>1. /\ hpc[h] = "link" /\ order' = Append(order, c)
        /\ \/ UNCHANGED cell
           \/ cell' = [cell EXCEPT ![cell[c].pred].succ = c]
    BY DEF Link, HandlerGoes
  <1>2. TypeOK /\ TypeOK' /\ Linked \in Nat /\ order \in Seq(Cells)
    BY ListFacts DEF IInv
  <1>3. c \in Cells /\ cell[c].key \in Keys /\ cell[c].named \in BOOLEAN
    BY <1>1, <1>2 DEF IInv, Pending, Filled, TypeOK, Cell
  <1>4. \A d \in Cells : cell'[d].key = cell[d].key /\ cell'[d].named = cell[d].named
    <2>1. cell \in [Cells -> Cell]
      BY <1>2 DEF TypeOK
    <2>2. \A x : cell' = [cell EXCEPT ![x].succ = c] =>
            \A d \in Cells : cell'[d].key = cell[d].key /\ cell'[d].named = cell[d].named
      BY <1>3, <2>1 DEF Cell
    <2>3. QED
      BY <1>1, <2>2
  <1>5. /\ Linked' = Linked + 1 /\ order'[Linked + 1] = c
        /\ \A j \in 1..Linked : order'[j] = order[j] /\ order[j] \in Cells
    BY <1>1, <1>2, <1>3, AppendProperties, ListFacts DEF Linked
  <1> DEFINE e == Entry(c)
             S == [key : Keys \cup {NULL}, named : BOOLEAN]
  <1>6. e \in S
    BY <1>3 DEF Entry
  <1>7. /\ Listing \in Seq(S) /\ Len(Listing) = Linked
        /\ \A j \in 1..Linked : Listing[j] = Entry(order[j])
    BY <1>2, ListingFacts DEF EntriesInOrder
  <1>8. /\ Listing' \in Seq(S) /\ Len(Listing') = Linked + 1
        /\ \A j \in 1 .. Linked + 1 : Listing'[j] = Entry(order[j])'
    BY <1>2, <1>5, ListingFactsNext DEF EntriesInOrder
  <1>9. \A j \in 1 .. Linked + 1 :
          Listing'[j] = IF j <= Linked THEN Listing[j] ELSE e
    <2>1. SUFFICES ASSUME NEW j \in 1 .. Linked + 1
                   PROVE  Listing'[j] = IF j <= Linked THEN Listing[j] ELSE e
      OBVIOUS
    <2>2. CASE j <= Linked
      <3>1. j \in 1..Linked
        BY <1>2, <2>1, <2>2
      <3>2. order'[j] = order[j] /\ order[j] \in Cells
        BY <1>5, <3>1
      <3>3. Entry(order[j])' = Entry(order[j])
        BY <1>4, <3>2 DEF Entry
      <3>4. Listing'[j] = Entry(order[j])' /\ Listing[j] = Entry(order[j])
        BY <1>7, <1>8, <2>1, <3>1
      <3>5. QED
        BY <2>2, <3>3, <3>4
    <2>3. CASE j = Linked + 1
      BY <1>2, <1>3, <1>4, <1>5, <1>8, <2>1, <2>3 DEF Entry
    <2>4. QED
      BY <1>2, <2>1, <2>2, <2>3
  <1> HIDE DEF e, S
  <1>10. /\ Append(Listing, e) \in Seq(S) /\ Len(Append(Listing, e)) = Linked + 1
         /\ \A j \in 1..Linked : Append(Listing, e)[j] = Listing[j]
         /\ Append(Listing, e)[Linked + 1] = e
    BY <1>6, <1>7, AppendProperties
  <1>11. \A j \in 1 .. Linked + 1 : Listing'[j] = Append(Listing, e)[j]
    <2>1. SUFFICES ASSUME NEW j \in 1 .. Linked + 1
                   PROVE  Listing'[j] = Append(Listing, e)[j]
      OBVIOUS
    <2>2. CASE j \in 1..Linked
      BY <1>2, <1>9, <1>10, <2>2
    <2>3. CASE j = Linked + 1
      BY <1>2, <1>9, <1>10, <2>3
    <2>4. j \in 1..Linked \/ j = Linked + 1
      BY <1>2
    <2>5. QED
      BY <2>2, <2>3, <2>4
  <1>12. Listing' = Append(Listing, e)
    BY <1>8, <1>10, <1>11, SeqEqual
  <1>13. QED
    BY <1>3, <1>12 DEF Abstract!Add, e, Entry

LEMMA RenameSetsName ==
  ASSUME IInv, IInv', NEW h \in Handlers, Rename(h)
  PROVE  \E i \in DOMAIN Listing, n \in BOOLEAN : Abstract!SetName(i, n)
  <1> DEFINE c == hcur[h]
             n == rec[h].named
  <1>1. /\ lock = Nobody /\ c \in used /\ order' = order
        /\ cell' = [cell EXCEPT ![c].named = n]
    BY DEF Rename
  <1>2. TypeOK /\ Linked \in Nat /\ n \in BOOLEAN /\ Linked' = Linked
    BY <1>1, ListFacts DEF IInv, TypeOK, Record, Linked
  <1>3. PICK i \in 1..Linked : order[i] = c
    BY <1>1, LockFree
  <1> HIDE DEF c, n
  <1>4. \A j \in 1..Linked :
          Entry(order[j])' = IF j = i THEN [Entry(c) EXCEPT !.named = n]
                             ELSE Entry(order[j])
    <2>1. SUFFICES ASSUME NEW j \in 1..Linked
                   PROVE  Entry(order[j])' =
                            IF j = i THEN [Entry(c) EXCEPT !.named = n]
                            ELSE Entry(order[j])
      OBVIOUS
    <2>2. /\ cell \in [Cells -> Cell] /\ order[j] \in Cells /\ c \in Cells
          /\ order[j] = c <=> j = i
      BY <1>1, <1>2, <1>3, ListFacts DEF IInv, TypeOK, Chained
    <2>3. CASE j = i
      BY <1>1, <2>2, <2>3 DEF Entry, Cell
    <2>4. CASE j # i
      BY <1>1, <2>2, <2>4 DEF Entry
    <2>5. QED
      BY <2>3, <2>4
  <1>5. /\ Listing = [j \in 1..Linked |-> Entry(order[j])]
        /\ Listing' = [j \in 1..Linked |-> Entry(order[j])']
    BY <1>2, ListingFacts, ListingFactsNext DEF IInv, EntriesInOrder
  <1>6. Listing' = [Listing EXCEPT ![i] = [Entry(c) EXCEPT !.named = n]]
    BY <1>3, <1>4, <1>5
  <1>7. Listing' = [Listing EXCEPT ![i].named = n]
    BY <1>3, <1>5, <1>6
  <1>8. QED
    BY <1>2, <1>5, <1>7 DEF Abstract!SetName

LEMMA UnlinkRemoves ==
  ASSUME IInv, IInv', NEW s \in Syncers, Unlink(s)
  PROVE  \E i \in DOMAIN Listing : Abstract!Remove(i)
  <1> DEFINE c == rcur[s]
             p == cell[c].pred
             n == cell[c].succ
             L == Linked
  <1>1. /\ lock = Nobody /\ c \in used /\ order' = Without(c)
        /\ cell' = [d \in Cells |->
                      [cell[d] EXCEPT !.succ = IF d = p THEN n ELSE @,
                                      !.pred = IF d = n THEN p ELSE @]]
    BY DEF Unlink
  <1>2. TypeOK /\ L \in Nat /\ cell \in [Cells -> Cell]
    BY ListFacts DEF IInv, TypeOK
  <1>3. PICK i \in 1..L : order[i] = c
    BY <1>1, LockFree
  <1> HIDE DEF p, n
  <1>4. \A d \in Cells : cell'[d].key = cell[d].key /\ cell'[d].named = cell[d].named
    BY <1>1, <1>2 DEF Cell
  <1>5. /\ Linked' = L - 1
        /\ \A j \in 1 .. L - 1 : /\ j < i => order'[j] = order[j]
                                 /\ j >= i => order'[j] = order[j + 1]
    <2>1. order' = Without(order[i])
      BY <1>1, <1>3
    <2>2. QED
      BY <1>2, <2>1, WithoutFacts DEF IInv, Chained, Linked
  <1> HIDE DEF c, L
  <1>6. /\ Listing = [j \in 1..L |-> Entry(order[j])]
        /\ Listing' = [j \in 1 .. L - 1 |-> Entry(order[j])']
        /\ Len(Listing) = L /\ DOMAIN Listing = 1..L
    BY <1>2, <1>5, ListingFacts, ListingFactsNext DEF IInv, EntriesInOrder, L
  <1>7. \A j \in 1 .. L - 1 :
          Entry(order[j])' = Listing[IF j < i THEN j ELSE j + 1]
    <2>1. SUFFICES ASSUME NEW j \in 1 .. L - 1
                   PROVE  Entry(order[j])' = Listing[IF j < i THEN j ELSE j + 1]
      OBVIOUS
    <2>2. j \in 1..L /\ j + 1 \in 1..L /\ order[j] \in Cells /\ order[j + 1] \in Cells
      BY <1>2, ListFacts DEF L
    <2>3. CASE j < i
      BY <1>4, <1>5, <1>6, <2>2, <2>3 DEF Entry
    <2>4. CASE j >= i
      <3>1. ~(j < i)
        BY <1>2, <2>4
      <3>2. QED
        BY <1>4, <1>5, <1>6, <2>2, <2>4, <3>1 DEF Entry
    <2>5. QED
      BY <1>2, <2>3, <2>4
  <1>8. Listing' = [j \in 1 .. Len(Listing) - 1 |->
                      Listing[IF j < i THEN j ELSE j + 1]]
    BY <1>6, <1>7
  <1>9. QED
    BY <1>6, <1>8 DEF Abstract!Remove

LEMMA NextRefines ==
  IInv /\ IInv' /\ [Next]_vars => [Abstract!Next]_Listing
  <1> SUFFICES ASSUME IInv, IInv', [Next]_vars
               PROVE  [Abstract!Next]_Listing
    OBVIOUS
  <1> USE DEF listVars
  <1>1. CASE UNCHANGED <<order, cell>>
    BY <1>1, ListingSame
  <1>2. ASSUME NEW h \in Handlers,
               RecvIntroduction(h) \/ RecvRecord(h) \/ EndSession(h) \/ HandlerStep(h)
        PROVE  [Abstract!Next]_Listing
    <2>1. CASE Alloc(h)
      <3>1. PICK c \in Cells \ used :
              (\E v : cell' = [cell EXCEPT ![c] = v]) /\ order' = order
        BY <2>1 DEF Alloc
      <3>2. \A j \in 1..Linked : order[j] \in Cells /\ order[j] # c
        BY <3>1, ListFacts DEF IInv, Chained
      <3>3. \A j \in 1..Linked : cell'[order[j]] = cell[order[j]]
        BY <3>1, <3>2 DEF IInv, TypeOK
      <3>4. QED
        BY <3>1, <3>3, ListingSame
    <2>2. CASE Link(h)
      BY <2>2, LinkAdds DEF Abstract!Next
    <2>3. CASE Rename(h)
      BY <2>3, RenameSetsName DEF Abstract!Next
    <2>4. CASE ~Alloc(h) /\ ~Link(h) /\ ~Rename(h)
      <3>1. UNCHANGED <<order, cell>>
        BY <1>2, <2>4
        DEF HandlerStep, RecvIntroduction, RecvRecord, EndSession, WalkNext,
            WalkNamed, WalkBlank, WalkEnd, CheckAnswered, CheckFails, Count,
            RenameFreed, GoesWrong
      <3>2. QED
        BY <1>1, <3>1
    <2>5. QED
      BY <2>1, <2>2, <2>3, <2>4
  <1>3. ASSUME NEW s \in Syncers, SyncStep(s)
        PROVE  [Abstract!Next]_Listing
    <2>1. CASE Unlink(s)
      BY <2>1, UnlinkRemoves DEF Abstract!Next
    <2>2. CASE ~Unlink(s)
      <3>1. UNCHANGED <<order, cell>>
        BY <1>3, <2>2
        DEF SyncStep, ReadNode, ReadNull, Connect, ConnectFails, NotReady,
            SyncFails, SyncCount, SyncTest, SyncSend, SyncDone, Deletes,
            UnlinkFreed, FreeNode, Shrink, ListGet, GetSize, GetFirst, GetNext,
            GetPastEnd, GetDone, GoesWrong
      <3>2. QED
        BY <1>1, <3>1
    <2>3. QED
      BY <2>1, <2>2
  <1>4. CASE RoundStep
    <2>1. UNCHANGED <<order, cell>>
      BY <1>4
      DEF RoundStep, RoundTest, RoundSleep, Spawn, ListGet, GetSize, GetFirst,
          GetNext, GetPastEnd, GetDone, GoesWrong
    <2>2. QED
      BY <1>1, <2>1
  <1>5. CASE (\E k \in Keys : Leave(k)) \/ UNCHANGED vars
    <2>1. UNCHANGED <<order, cell>>
      BY <1>5 DEF Leave, vars
    <2>2. QED
      BY <1>1, <2>1
  <1>6. QED
    BY <1>2, <1>3, <1>4, <1>5 DEF Next

LEMMA InitRefines == Init => Abstract!Init
  <1> SUFFICES ASSUME Init PROVE Abstract!Init
    OBVIOUS
  <1>1. CASE Empty
    <2>1. Listing = << >>
      BY <1>1 DEF Empty, Listing, Linked
    <2>2. QED
      BY <2>1 DEF Abstract!Init
  <1>2. CASE Seeded
    <2>1. PICK c \in Cells, k \in Keys :
            /\ cell = [d \in Cells |-> IF d = c THEN [Blank EXCEPT !.key = k] ELSE Blank]
            /\ order = <<c>>
      BY <1>2 DEF Seeded
    <2>2. cell[c].key = k /\ cell[c].named = FALSE
      BY <2>1 DEF Blank
    <2>3. Linked = 1 /\ order[1] = c
      BY <2>1 DEF Linked
    <2>4. Listing = <<[key |-> k, named |-> FALSE]>>
      <3> DEFINE e == [key |-> k, named |-> FALSE]
      <3>1. Listing = [j \in 1..1 |-> e]
        <4>1. \A j \in 1..1 : [key |-> cell[order[j]].key,
                               named |-> cell[order[j]].named] = e
          <5>1. \A j \in 1..1 : j = 1
            OBVIOUS
          <5>2. cell[order[1]].key = k /\ cell[order[1]].named = FALSE
            BY <2>2, <2>3
          <5>3. QED
            BY <5>1, <5>2
        <4> HIDE DEF e
        <4>2. QED
          BY <2>3, <4>1 DEF Listing
      <3> HIDE DEF e
      <3>2. /\ Listing \in Seq({e}) /\ <<e>> \in Seq({e})
            /\ Len(Listing) = 1 /\ Len(<<e>>) = 1
            /\ Listing[1] = e /\ <<e>>[1] = e
        BY <3>1
      <3>3. Listing = <<e>>
        BY <3>2, SeqEqual
      <3>4. QED
        BY <3>3 DEF e
    <2>5. QED
      BY <2>4 DEF Abstract!Init
  <1>3. QED
    BY <1>1, <1>2 DEF Init

\* Every step of every thread is for a reader with the lock one of the three
\* steps of a table or none: an entry comes at the end, gets a name, or goes,
\* and the others stay as they are (linked_list.c:46-73, 112-140,
\* P2P.c:566-576, 638-655).
THEOREM ListImplementsTable == Spec => ListIsPeerTable
  BY InitRefines, SpecIInv, NextRefines, PTL
  DEF Spec, ListIsPeerTable, Abstract!Spec

-----------------------------------------------------------------------------
(* Who may go wrong.  A thread that is in the middle of the list and was   *)
(* not overtaken began when no deletion was under way, and none has begun  *)
(* since: what it read of the list is still there.                         *)

HandlerSound(h) ==
  /\ hpc[h] = "walk" => hcur[h] = NULL \/ ~Unlisted(hcur[h])
  /\ hpc[h] = "rename" => ~Unlisted(hcur[h]) /\ cell[hcur[h]].key = rec[h].key

ReaderSound(r) ==
  /\ rpc[r] \in {"get", "first", "hop"} => idx[r] < size
  /\ rpc[r] = "hop" => hop[r] <= idx[r] /\ rcur[r] = order[hop[r] + 1]
  /\ rpc[r] \in {"start", "connect", "status", "delete", "use"} => ~Unlisted(rcur[r])
  /\ r \in Syncers =>
       /\ rpc[r] \in {"connect", "status", "delete"} => cell[rcur[r]].key = dest[r]
       /\ rpc[r] \in {"test", "get", "first", "hop", "use"} => count[r] <= size

Sound(t) ==
  /\ t \in Handlers => HandlerSound(t)
  /\ t \in Readers => ReaderSound(t)

FreshOne(t) == InTheList(t) /\ t \notin overtaken => ~Deleting /\ Sound(t)
Fresh == \A t \in Threads : FreshOne(t)
Blame == culprit # Nobody => culprit \in overtaken

\* Insertions and names leave what others have read of the list as it is.
Grows ==
  /\ size' >= size /\ Linked' >= Linked
  /\ \A j \in 1..Linked : order'[j] = order[j] /\ cell'[order[j]].key = cell[order[j]].key

LEMMA SizeBound ==
  ASSUME IInv, ~Deleting
  PROVE  size <= Linked
  <1>1. size \in Nat /\ Linked \in Nat /\ lock \in Threads \cup {Nobody}
    BY ListFacts DEF IInv, TypeOK
  <1>2. \A s \in Syncers : lock # s
    BY DEF IInv, Locked, Deleting
  <1>3. lock = Nobody \/ \E h \in Handlers : hpc[h] \in {"link", "count"}
    BY <1>1, <1>2 DEF IInv, Locked, Threads, Readers
  <1>4. QED
    BY <1>1, <1>3 DEF IInv, Balance

LEMMA FreshFrame ==
  ASSUME IInv, IInv', NEW t \in Threads, FreshOne(t), Grows, Deleting' = Deleting,
         t \in overtaken => t \in overtaken',
         t \in Handlers => hpc'[t] = hpc[t] /\ hcur'[t] = hcur[t] /\ rec'[t] = rec[t],
         t \in Readers => /\ rpc'[t] = rpc[t] /\ rcur'[t] = rcur[t]
                          /\ idx'[t] = idx[t] /\ hop'[t] = hop[t],
         t \in Syncers => count'[t] = count[t] /\ dest'[t] = dest[t]
  PROVE  FreshOne(t)'
  <1>0. TypeOK /\ TypeOK'
    BY DEF IInv
  <1>1. SUFFICES ASSUME InTheList(t)', t \notin overtaken'
                 PROVE  ~Deleting' /\ Sound(t)'
    BY DEF FreshOne
  <1>2. InTheList(t) /\ t \notin overtaken
    BY <1>1 DEF InTheList, Threads
  <1>3. ~Deleting /\ Sound(t)
    BY <1>2 DEF FreshOne
  <1>4. /\ Linked \in Nat /\ Linked' \in Nat /\ size \in Nat /\ size' \in Nat
    BY <1>0, ListFacts DEF TypeOK, Linked
  <1>5. \A c : ~Unlisted(c) => ~Unlisted(c)' /\ cell'[c].key = cell[c].key
    BY <1>4 DEF Unlisted, Grows
  <1>6. t \in Handlers => HandlerSound(t)'
    BY <1>3, <1>5 DEF Sound, HandlerSound
  <1>7. ASSUME t \in Readers PROVE ReaderSound(t)'
    <2>1. ReaderSound(t) /\ idx[t] \in Nat /\ hop[t] \in Nat
      BY <1>0, <1>3, <1>7 DEF Sound, TypeOK
    <2>2. t \in Syncers => count[t] \in Nat
      BY <1>0 DEF TypeOK
    <2>3. rpc[t] \in {"get", "first", "hop"} => idx[t] < size'
      BY <1>4, <2>1 DEF ReaderSound, Grows
    <2>4. rpc[t] = "hop" => hop[t] <= idx[t] /\ rcur[t] = order'[hop[t] + 1]
      <3>1. SUFFICES ASSUME rpc[t] = "hop" PROVE order'[hop[t] + 1] = order[hop[t] + 1]
        BY <2>1 DEF ReaderSound
      <3>2. hop[t] + 1 \in 1..Linked
        <4>1. hop[t] < size
          BY <1>4, <2>1, <3>1 DEF ReaderSound
        <4>2. size <= Linked
          BY <1>3, <1>4, SizeBound
        <4>3. QED
          BY <1>4, <2>1, <4>1, <4>2
      <3>3. QED
        BY <3>2 DEF Grows
    <2>5. QED
      BY <1>4, <1>5, <1>7, <2>1, <2>2, <2>3, <2>4 DEF ReaderSound, Grows
  <1>8. QED
    BY <1>3, <1>6, <1>7 DEF Sound

\* The whole of Fresh from the frame and the thread that moves.
LEMMA FreshStep ==
  ASSUME IInv, IInv', Fresh, NEW m \in Threads, FreshOne(m)', Grows,
         Deleting' = Deleting,
         overtaken \ {m} \subseteq overtaken',
         \A h \in Handlers \ {m} : hpc'[h] = hpc[h] /\ hcur'[h] = hcur[h] /\ rec'[h] = rec[h],
         \A r \in Readers \ {m} : /\ rpc'[r] = rpc[r] /\ rcur'[r] = rcur[r]
                                  /\ idx'[r] = idx[r] /\ hop'[r] = hop[r],
         \A s \in Syncers \ {m} : count'[s] = count[s] /\ dest'[s] = dest[s]
  PROVE  Fresh'
  <1>1. SUFFICES ASSUME NEW t \in Threads, t # m PROVE FreshOne(t)'
    BY DEF Fresh
  <1>2. FreshOne(t)
    BY DEF Fresh
  <1>3. QED
    BY <1>1, <1>2, FreshFrame

LEMMA GrowsQuiet ==
  ASSUME IInv, listVars' = listVars
  PROVE  Grows
  BY ListFacts DEF IInv, TypeOK, listVars, Grows, Linked

\* Nodes that are not in the list may change.
LEMMA GrowsStore ==
  ASSUME IInv, order' = order, size' >= size,
         \A j \in 1..Linked : cell'[order[j]].key = cell[order[j]].key
  PROVE  Grows
  BY ListFacts DEF IInv, Grows, Linked

LEMMA HandlerGrows ==
  ASSUME IInv, IInv', NEW h \in Handlers, Alloc(h) \/ Link(h) \/ Count(h) \/ Rename(h)
  PROVE  Grows
  <1>1. TypeOK /\ cell \in [Cells -> Cell] /\ size \in Nat
        /\ \A j \in 1..Linked : order[j] \in used /\ order[j] \in Cells
    BY ListFacts DEF IInv, TypeOK, Chained
  <1>2. CASE Alloc(h)
    <2>1. PICK c \in Cells \ used :
            (\E v : cell' = [cell EXCEPT ![c] = v]) /\ order' = order /\ size' = size
      BY <1>2 DEF Alloc
    <2>2. \A j \in 1..Linked : cell'[order[j]].key = cell[order[j]].key
      BY <1>1, <2>1
    <2>3. QED
      BY <1>1, <2>1, <2>2, GrowsStore
  <1>3. CASE Link(h)
    <2>1. /\ order' = Append(order, hcur[h]) /\ size' = size
          /\ cell' = cell \/ \E x : cell' = [cell EXCEPT ![x].succ = hcur[h]]
          /\ hcur[h] \in Cells /\ order \in Seq(Cells)
      <3>1. hpc[h] = "link"
        BY <1>3 DEF Link, HandlerGoes
      <3>2. hcur[h] \in Cells
        BY <1>1, <3>1 DEF IInv, Pending, Filled, TypeOK
      <3>3. QED
        BY <1>1, <1>3, <3>2, ListFacts DEF Link
    <2>2. \A d \in Cells : cell'[d].key = cell[d].key
      BY <1>1, <2>1 DEF Cell
    <2>3. Linked' = Linked + 1 /\ \A j \in 1..Linked : order'[j] = order[j]
      BY <2>1, AppendProperties DEF Linked
    <2>4. Linked \in Nat
      BY <1>1, ListFacts
    <2>5. \A j \in 1..Linked : cell'[order[j]].key = cell[order[j]].key
      BY <1>1, <2>2
    <2>6. size' >= size /\ Linked' >= Linked
      BY <1>1, <2>1, <2>3, <2>4
    <2>7. QED
      BY <2>3, <2>5, <2>6 DEF Grows
  <1>4. CASE Count(h)
    <2>1. order' = order /\ cell' = cell /\ size' = size + 1
      BY <1>4 DEF Count
    <2>2. QED
      BY <1>1, <2>1, GrowsStore
  <1>5. CASE Rename(h)
    <2>1. /\ order' = order /\ size' = size
          /\ \E n : cell' = [cell EXCEPT ![hcur[h]].named = n]
      BY <1>5 DEF Rename
    <2>2. \A d \in Cells : cell'[d].key = cell[d].key
      BY <1>1, <2>1 DEF Cell
    <2>3. QED
      BY <1>1, <2>1, <2>2, GrowsStore
  <1>6. QED
    BY <1>2, <1>3, <1>4, <1>5

LEMMA HandlerFresh ==
  ASSUME IInv, IInv', Fresh, NEW h \in Handlers,
         \/ RecvIntroduction(h) \/ RecvRecord(h) \/ EndSession(h) \/ WalkNext(h)
         \/ WalkNamed(h) \/ WalkBlank(h) \/ WalkEnd(h) \/ CheckAnswered(h)
         \/ CheckFails(h) \/ Alloc(h) \/ Link(h) \/ Count(h) \/ Rename(h)
  PROVE  Fresh'
  <1> USE StatusPeersAssumption DEF HandlerGoes
  <1>1. h \in Threads /\ h \notin Readers /\ TypeOK /\ TypeOK'
    BY DEF IInv, Threads
  <1>2. UNCHANGED readerVars
    BY DEF RecvIntroduction, RecvRecord, EndSession, WalkNext, WalkNamed,
           WalkBlank, WalkEnd, CheckAnswered, CheckFails, Alloc, Link, Count, Rename
  <1>3. Deleting' = Deleting
    BY <1>2 DEF Deleting, readerVars
  <1>4. Grows
    <2>1. CASE Alloc(h) \/ Link(h) \/ Count(h) \/ Rename(h)
      BY <2>1, HandlerGrows
    <2>2. CASE ~(Alloc(h) \/ Link(h) \/ Count(h) \/ Rename(h))
      <3>1. listVars' = listVars
        BY <2>2 DEF RecvIntroduction, RecvRecord, EndSession, WalkNext, WalkNamed,
           WalkBlank, WalkEnd, CheckAnswered, CheckFails
      <3>2. QED
        BY <3>1, GrowsQuiet
    <2>3. QED
      BY <2>1, <2>2
  <1>5. \A g \in Handlers \ {h} : hpc'[g] = hpc[g] /\ hcur'[g] = hcur[g] /\ rec'[g] = rec[g]
    BY <1>1 DEF TypeOK, RecvIntroduction, RecvRecord, EndSession, WalkNext, WalkNamed,
           WalkBlank, WalkEnd, CheckAnswered, CheckFails, Alloc, Link, Count, Rename, Rest
  <1>6. overtaken \ {h} \subseteq overtaken'
    BY DEF RecvIntroduction, RecvRecord, EndSession, WalkNext, WalkNamed,
           WalkBlank, WalkEnd, CheckAnswered, CheckFails, Alloc, Link, Count,
           Rename, Rest, Enters
  <1>7. FreshOne(h)'
    <2>1. CASE ~(hpc'[h] \in {"walk", "rename"})
      BY <1>1, <2>1 DEF FreshOne, InTheList
    <2>2. CASE RecvIntroduction(h) \/ RecvRecord(h)
      <3>1. /\ hpc'[h] = "walk" /\ hcur'[h] = first /\ Enters(h)
            /\ UNCHANGED listVars
        BY <1>1, <2>2 DEF RecvIntroduction, RecvRecord, TypeOK
      <3>2. h \notin overtaken' => ~Deleting
        BY <3>1 DEF Enters
      <3>3. first = NULL \/ ~Unlisted(first)
        BY <1>1, ListFacts DEF IInv, Chained, Unlisted
      <3>4. HandlerSound(h)'
        BY <3>1, <3>3 DEF HandlerSound, Unlisted, Linked, listVars
      <3>5. QED
        BY <1>1, <1>3, <3>2, <3>4 DEF FreshOne, Sound
    <2>3. CASE WalkNext(h)
      <3>1. /\ hpc[h] = "walk" /\ hpc' = hpc /\ hcur[h] # NULL
            /\ hcur'[h] = cell[hcur[h]].succ
            /\ UNCHANGED <<listVars, overtaken>>
        BY <1>1, <2>3 DEF WalkNext, Walking, TypeOK
      <3>2. ASSUME h \notin overtaken PROVE hcur'[h] = NULL \/ ~Unlisted(hcur'[h])
        <4>1. ~Unlisted(hcur[h])
          BY <1>1, <3>1, <3>2 DEF Fresh, FreshOne, InTheList, Sound, HandlerSound
        <4>2. PICK j \in 1..Linked : order[j] = hcur[h]
          BY <4>1 DEF Unlisted
        <4>3. cell[order[j]].succ = IF j < Linked THEN order[j + 1] ELSE NULL
          BY DEF IInv, Chained
        <4>4. j < Linked => j + 1 \in 1..Linked
          BY <1>1, ListFacts
        <4>5. QED
          BY <3>1, <4>2, <4>3, <4>4 DEF Unlisted
      <3>3. h \notin overtaken => ~Deleting
        BY <1>1, <3>1 DEF Fresh, FreshOne, InTheList
      <3>4. h \notin overtaken => HandlerSound(h)'
        BY <3>1, <3>2 DEF HandlerSound, Unlisted, Linked, listVars
      <3>5. QED
        BY <1>1, <1>3, <3>1, <3>3, <3>4 DEF FreshOne, Sound
    <2>4. CASE WalkBlank(h)
      <3>1. /\ hpc[h] = "walk" /\ hpc'[h] = "rename" /\ hcur[h] # NULL
            /\ cell[hcur[h]].key = rec[h].key
            /\ UNCHANGED <<listVars, hcur, rec, overtaken>>
        BY <1>1, <2>4 DEF WalkBlank, Found, Walking, TypeOK
      <3>2. h \notin overtaken => ~Deleting /\ ~Unlisted(hcur[h])
        BY <1>1, <3>1 DEF Fresh, FreshOne, InTheList, Sound, HandlerSound
      <3>3. h \notin overtaken => HandlerSound(h)'
        BY <3>1, <3>2 DEF HandlerSound, Unlisted, Linked, listVars
      <3>4. QED
        BY <1>1, <1>3, <3>1, <3>2, <3>3 DEF FreshOne, Sound
    <2>5. CASE ~(RecvIntroduction(h) \/ RecvRecord(h) \/ WalkNext(h) \/ WalkBlank(h))
      <3>1. hpc'[h] \in {"idle", "recv", "check", "insert", "link", "count"}
        BY <1>1, <2>5 DEF TypeOK, EndSession, WalkNamed, WalkEnd, CheckAnswered,
           CheckFails, Alloc, Link, Count, Rename, Rest
      <3>2. QED
        BY <2>1, <3>1
    <2>6. QED
      BY <2>2, <2>3, <2>4, <2>5
  <1>8. QED
    BY <1>1, <1>2, <1>3, <1>4, <1>5, <1>6, <1>7, FreshStep DEF readerVars, Readers

\* What a reader's step must show when it is neither Spawn nor in list_delete_node.
LEMMA ReaderFresh ==
  ASSUME IInv, IInv', Fresh, NEW r \in Readers, UNCHANGED <<listVars, handlerVars>>,
         rpc[r] \notin {"free", "shrink"}, rpc'[r] \notin {"free", "shrink"},
         overtaken \ {r} \subseteq overtaken',
         \A q \in Readers \ {r} : /\ rpc'[q] = rpc[q] /\ rcur'[q] = rcur[q]
                                  /\ idx'[q] = idx[q] /\ hop'[q] = hop[q],
         \A s \in Syncers \ {r} : count'[s] = count[s] /\ dest'[s] = dest[s],
         InTheList(r)' /\ r \notin overtaken' => ~Deleting /\ ReaderSound(r)'
  PROVE  Fresh'
  <1>1. r \in Threads /\ r \notin Handlers
    BY StatusPeersAssumption DEF Threads
  <1>2. Deleting' = Deleting
    <2>1. \A s \in Syncers : rpc'[s] \in {"free", "shrink"} <=> rpc[s] \in {"free", "shrink"}
      BY DEF Readers
    <2>2. QED
      BY <2>1 DEF Deleting
  <1>3. FreshOne(r)'
    BY <1>1, <1>2 DEF FreshOne, Sound
  <1>4. Grows
    BY GrowsQuiet
  <1>5. QED
    BY <1>1, <1>2, <1>3, <1>4, FreshStep DEF handlerVars

\* The readers' variables after a step of r.
LEMMA ReaderTypes ==
  ASSUME IInv, NEW r \in Readers
  PROVE  /\ r \notin Handlers /\ r \in Threads
         /\ rpc \in [Readers -> {"idle", "start", "connect", "status", "delete",
                                 "free", "shrink", "test", "get", "first",
                                 "hop", "use"}]
         /\ rcur \in [Readers -> Cells \cup {NULL}]
         /\ idx \in [Readers -> Nat] /\ hop \in [Readers -> Nat]
         /\ count \in [Syncers -> Nat] /\ dest \in [Syncers -> Keys \cup {NULL}]
         /\ size \in Nat /\ Linked \in Nat
  BY StatusPeersAssumption, ListFacts DEF IInv, TypeOK, Threads

LEMMA ListGetFresh ==
  ASSUME IInv, IInv', Fresh, NEW r \in Readers,
         GetSize(r) \/ GetFirst(r) \/ GetNext(r) \/ GetDone(r)
  PROVE  Fresh'
  <1> USE ReaderTypes DEF ReaderGoes
  <1>1. /\ UNCHANGED <<listVars, handlerVars, idx, count, dest, overtaken>>
        /\ rpc[r] \in {"get", "first", "hop"} /\ rpc'[r] \in {"first", "hop", "use"}
        /\ \A q \in Readers \ {r} : /\ rpc'[q] = rpc[q] /\ rcur'[q] = rcur[q]
                                    /\ idx'[q] = idx[q] /\ hop'[q] = hop[q]
    BY DEF GetSize, GetFirst, GetNext, GetDone
  <1>2. ASSUME r \notin overtaken PROVE ~Deleting /\ ReaderSound(r)'
    <2>1. InTheList(r)
      BY <1>1 DEF InTheList
    <2>2. ~Deleting /\ ReaderSound(r)
      BY <1>2, <2>1 DEF Fresh, FreshOne, Sound
    <2>3. idx[r] < size /\ size <= Linked
      BY <1>1, <2>2, SizeBound DEF ReaderSound
    <2>4. rpc'[r] = "hop" => hop'[r] <= idx[r] /\ rcur'[r] = order[hop'[r] + 1]
      <3>1. CASE GetFirst(r)
        <4>1. rcur'[r] = first /\ hop'[r] = 0
          BY <3>1 DEF GetFirst
        <4>2. first = order[1] /\ 0 <= idx[r] /\ 0 + 1 = 1
          BY <2>3 DEF IInv, Chained
        <4>3. QED
          BY <4>1, <4>2
      <3>2. CASE GetNext(r)
        <4>1. /\ rpc[r] = "hop" /\ hop[r] < idx[r] /\ hop'[r] = hop[r] + 1
              /\ rcur'[r] = cell[rcur[r]].succ
          BY <3>2 DEF GetNext
        <4>2. rcur[r] = order[hop[r] + 1] /\ hop[r] + 1 \in 1..Linked
              /\ hop[r] + 1 < Linked
          BY <2>2, <2>3, <4>1 DEF ReaderSound
        <4>3. cell[rcur[r]].succ = order[hop[r] + 1 + 1]
          BY <4>2 DEF IInv, Chained
        <4>4. QED
          BY <4>1, <4>3
      <3>3. CASE GetSize(r) \/ GetDone(r)
        BY <3>3 DEF GetSize, GetDone
      <3>4. QED
        BY <3>1, <3>2, <3>3
    <2>5. rpc'[r] = "use" => ~Unlisted(rcur'[r])
      <3>1. CASE GetDone(r)
        <4>1. rcur'[r] = order[hop[r] + 1] /\ hop[r] = idx[r]
          BY <2>2, <3>1 DEF GetDone, ReaderSound
        <4>2. hop[r] + 1 \in 1..Linked
          BY <2>3, <4>1
        <4>3. QED
          BY <4>1, <4>2 DEF Unlisted
      <3>2. CASE GetSize(r)
        BY <2>3, <3>2 DEF GetSize
      <3>3. CASE GetFirst(r) \/ GetNext(r)
        BY <1>1, <3>3 DEF GetFirst, GetNext
      <3>4. QED
        BY <3>1, <3>2, <3>3
    <2>6. QED
      BY <1>1, <2>2, <2>3, <2>4, <2>5 DEF ReaderSound, Unlisted, Linked, listVars
  <1>3. QED
    BY <1>1, <1>2, ReaderFresh

LEMMA RoundFresh ==
  ASSUME IInv, IInv', Fresh, RoundTest \/ RoundSleep \/ \E s \in Syncers : Spawn(s)
  PROVE  Fresh'
  <1> USE StatusPeersAssumption DEF ReaderGoes
  <1>1. Round \in Readers /\ Round \notin Syncers /\ Round \notin Handlers
        /\ Round \in Threads
    BY DEF Readers, Threads
  <1>2. CASE RoundTest
    <2>1. /\ rpc[Round] = "test" /\ rpc'[Round] = "get" /\ idx[Round] < size
          /\ UNCHANGED <<listVars, handlerVars, rcur, idx, hop, count, dest>>
          /\ Enters(Round)
          /\ \A q \in Readers \ {Round} : rpc'[q] = rpc[q]
      BY <1>1, <1>2, ReaderTypes DEF RoundTest
    <2>2. ReaderSound(Round)'
      BY <1>1, <2>1 DEF ReaderSound, listVars
    <2>3. QED
      BY <1>1, <2>1, <2>2, ReaderFresh DEF Enters
  <1>3. CASE RoundSleep
    <2>1. /\ rpc[Round] = "test" /\ rpc' = rpc
          /\ UNCHANGED <<listVars, handlerVars, rcur, hop, count, dest, overtaken>>
          /\ \A q \in Readers \ {Round} : idx'[q] = idx[q]
      BY <1>1, <1>3, ReaderTypes DEF RoundSleep
    <2>2. ~InTheList(Round)'
      BY <1>1, <2>1 DEF InTheList
    <2>3. QED
      BY <1>1, <2>1, <2>2, ReaderFresh
  <1>4. ASSUME NEW s \in Syncers, Spawn(s) PROVE Fresh'
    <2>1. s \in Readers /\ s # Round /\ s \in Threads /\ s \notin Handlers
      BY <1>1 DEF Readers, Threads
    <2>2. /\ rpc[Round] = "use" /\ rpc'[Round] = "test" /\ rpc[s] = "idle"
          /\ rpc'[s] = "start" /\ rcur'[s] = rcur[Round]
          /\ UNCHANGED <<listVars, handlerVars, hop, count, dest>>
          /\ overtaken' = (overtaken \ {Round}) \cup
                            (IF Round \in overtaken THEN {s} ELSE {})
          /\ \A q \in Readers \ {s, Round} :
               rpc'[q] = rpc[q] /\ rcur'[q] = rcur[q] /\ idx'[q] = idx[q]
      BY <1>1, <1>4, <2>1, ReaderTypes DEF Spawn
    <2>3. Deleting' = Deleting
      <3>1. \A t \in Syncers : rpc'[t] \in {"free", "shrink"} <=> rpc[t] \in {"free", "shrink"}
        BY <1>1, <2>2 DEF Readers
      <3>2. QED
        BY <3>1 DEF Deleting
    <2>4. Grows
      BY <2>2, GrowsQuiet
    <2>5. FreshOne(Round)'
      BY <1>1, <2>2 DEF FreshOne, InTheList
    <2>6. FreshOne(s)'
      <3>1. SUFFICES ASSUME s \notin overtaken' PROVE ~Deleting /\ ReaderSound(s)'
        BY <2>1, <2>3 DEF FreshOne, Sound
      <3>2. Round \notin overtaken /\ InTheList(Round)
        BY <1>1, <2>2, <3>1 DEF InTheList
      <3>3. ~Deleting /\ ~Unlisted(rcur[Round])
        BY <1>1, <2>2, <3>2 DEF Fresh, FreshOne, Sound, ReaderSound
      <3>4. ReaderSound(s)'
        BY <2>2, <3>3 DEF ReaderSound, Unlisted, Linked, listVars
      <3>5. QED
        BY <3>3, <3>4
    <2>7. ASSUME NEW t \in Threads \ {s, Round} PROVE FreshOne(t)'
      <3>1. FreshOne(t)
        BY DEF Fresh
      <3>2. QED
        BY <2>2, <2>3, <2>4, <2>7, <3>1, FreshFrame DEF handlerVars
    <2>8. QED
      BY <2>5, <2>6, <2>7 DEF Fresh
  <1>5. QED
    BY <1>2, <1>3, <1>4

LEMMA SyncFresh ==
  ASSUME IInv, IInv', Fresh, NEW s \in Syncers,
         ReadNode(s) \/ Connect(s) \/ ConnectFails(s) \/ NotReady(s)
         \/ SyncFails(s) \/ SyncCount(s) \/ SyncTest(s) \/ SyncSend(s) \/ SyncDone(s)
  PROVE  Fresh'
  <1> USE DEF ReaderGoes
  <1>1. s \in Readers /\ s \in Threads /\ s \notin Handlers /\ s # Round
    BY StatusPeersAssumption DEF Readers, Threads
  <1>2. /\ UNCHANGED <<listVars, handlerVars, hop>>
        /\ rpc[s] \notin {"free", "shrink"} /\ rpc'[s] \notin {"free", "shrink"}
        /\ overtaken \ {s} \subseteq overtaken'
        /\ \A q \in Readers \ {s} : /\ rpc'[q] = rpc[q] /\ rcur'[q] = rcur[q]
                                    /\ idx'[q] = idx[q]
        /\ \A t \in Syncers \ {s} : count'[t] = count[t] /\ dest'[t] = dest[t]
    BY <1>1, ReaderTypes DEF ReadNode, Connect, ConnectFails, NotReady, SyncFails,
       SyncCount, SyncTest, SyncSend, SyncDone, Exit, Enters
  <1>3. ASSUME InTheList(s)', s \notin overtaken'
        PROVE  ~Deleting /\ ReaderSound(s)'
    <2> USE <1>1, ReaderTypes
    <2>1. CASE SyncFails(s) \/ SyncDone(s)
      <3>1. rpc'[s] = "idle"
        BY <2>1 DEF SyncFails, SyncDone, Exit
      <3>2. QED
        BY <1>3, <3>1 DEF InTheList
    <2>2. CASE SyncCount(s)
      <3>1. /\ rpc'[s] = "test" /\ count'[s] = size /\ Enters(s)
        BY <2>2 DEF SyncCount
      <3>2. QED
        BY <1>2, <1>3, <3>1 DEF Enters, ReaderSound, listVars
    <2>3. CASE ReadNode(s) \/ Connect(s) \/ ConnectFails(s) \/ NotReady(s)
               \/ SyncTest(s) \/ SyncSend(s)
      <3>1. overtaken' = overtaken /\ InTheList(s)
        BY <2>3 DEF InTheList, ReadNode, Connect, ConnectFails, NotReady, SyncTest, SyncSend
      <3>2. ~Deleting /\ ReaderSound(s)
        BY <1>3, <3>1 DEF Fresh, FreshOne, Sound
      <3>3. CASE ReadNode(s)
        <4>1. /\ rpc[s] = "start" /\ rpc'[s] = "connect" /\ rcur' = rcur
              /\ dest'[s] = cell[rcur[s]].key
          BY <3>3 DEF ReadNode
        <4>2. QED
          BY <1>2, <3>2, <4>1 DEF ReaderSound, Unlisted, Linked, listVars
      <3>4. CASE Connect(s) \/ ConnectFails(s) \/ NotReady(s)
        <4>1. /\ rpc[s] \in {"connect", "status"} /\ rpc'[s] \in {"status", "delete"}
              /\ UNCHANGED <<rcur, dest>>
          BY <3>4 DEF Connect, ConnectFails, NotReady
        <4>2. QED
          BY <1>2, <3>2, <4>1 DEF ReaderSound, Unlisted, Linked, listVars
      <3>5. CASE SyncTest(s)
        <4>1. /\ rpc[s] = "test" /\ rpc'[s] = "get" /\ idx[s] < count[s]
              /\ UNCHANGED <<idx, count>>
          BY <3>5 DEF SyncTest
        <4>2. count[s] <= size /\ idx[s] < size
          BY <3>2, <4>1 DEF ReaderSound
        <4>3. QED
          BY <1>2, <3>2, <4>1, <4>2 DEF ReaderSound, listVars
      <3>6. CASE SyncSend(s)
        <4>1. /\ rpc[s] = "use" /\ rpc'[s] = "test" /\ UNCHANGED count
          BY <3>6 DEF SyncSend
        <4>2. QED
          BY <1>2, <3>2, <4>1 DEF ReaderSound, listVars
      <3>7. QED
        BY <2>3, <3>2, <3>3, <3>4, <3>5, <3>6
    <2>4. QED
      BY <2>1, <2>2, <2>3
  <1>4. QED
    BY <1>1, <1>2, <1>3, ReaderFresh

LEMMA InitFresh == Init => Fresh /\ Blame
  <1> SUFFICES ASSUME Init PROVE Fresh /\ Blame
    OBVIOUS
  <1>1. ASSUME NEW t \in Threads PROVE ~InTheList(t)
    <2>1. CASE t \in Handlers
      BY <2>1 DEF Init, InTheList
    <2>2. CASE t \in Readers /\ t \notin Handlers
      BY <2>2 DEF Init, InTheList
    <2>3. QED
      BY <1>1, <2>1, <2>2 DEF Threads
  <1>2. QED
    BY <1>1 DEF Fresh, FreshOne, Blame, Init

\* A deletion overtakes all that are in the list when it begins, and until it
\* ends all that are in the list are overtaken.
LEMMA DeletionFresh ==
  ASSUME IInv, Fresh, NEW s \in Syncers, Unlink(s) \/ FreeNode(s) \/ Shrink(s)
  PROVE  Fresh'
  <1> USE DEF ReaderGoes
  <1>1. s \in Readers /\ s \in Threads /\ s \notin Handlers /\ s # Round
    BY StatusPeersAssumption DEF Readers, Threads
  <1>2. /\ UNCHANGED <<handlerVars, hop>>
        /\ rpc'[s] \in {"free", "shrink", "idle"}
        /\ \A q \in Readers \ {s} : rpc'[q] = rpc[q]
    BY <1>1, ReaderTypes DEF Unlink, FreeNode, Shrink, Exit
  <1>3. ASSUME NEW t \in Threads, InTheList(t)' PROVE t # s /\ InTheList(t)
    BY <1>1, <1>2, <1>3 DEF InTheList, Threads, handlerVars
  <1>4. ASSUME NEW t \in Threads, InTheList(t)' PROVE t \in overtaken'
    <2>1. t # s /\ InTheList(t)
      BY <1>3, <1>4
    <2>2. CASE Unlink(s)
      BY <2>1, <2>2 DEF Unlink
    <2>3. CASE FreeNode(s) \/ Shrink(s)
      <3>1. Deleting
        BY <2>3 DEF FreeNode, Shrink, Deleting
      <3>2. t \in overtaken
        BY <2>1, <3>1 DEF Fresh, FreshOne
      <3>3. QED
        BY <2>1, <2>3, <3>2 DEF FreeNode, Shrink, Exit
    <2>4. QED
      BY <2>2, <2>3
  <1>5. QED
    BY <1>4 DEF Fresh, FreshOne

\* A step that changes neither the list nor a thread.
LEMMA FreshQuiet ==
  ASSUME Fresh, UNCHANGED <<listVars, lock, handlerVars, readerVars, overtaken>>
  PROVE  Fresh'
  <1>1. Deleting' = Deleting
    BY DEF Deleting, readerVars
  <1>2. ASSUME NEW t \in Threads PROVE FreshOne(t)'
    <2>1. FreshOne(t)
      BY DEF Fresh
    <2>2. InTheList(t)' = InTheList(t)
      BY DEF InTheList, handlerVars, readerVars
    <2>3. Sound(t) => Sound(t)'
      BY DEF Sound, HandlerSound, ReaderSound, Unlisted, Linked, listVars,
             handlerVars, readerVars
    <2>4. QED
      BY <1>1, <2>1, <2>2, <2>3 DEF FreshOne
  <1>3. QED
    BY <1>2 DEF Fresh

\* What a thread that was not overtaken is about to follow is in the list.
LEMMA FollowsListed ==
  ASSUME IInv, Fresh, NEW t \in Threads, t \notin overtaken
  PROVE  \A c \in Follows(t) : ~Unlisted(c)
  <1>1. CASE t \in Handlers
    BY <1>1 DEF Fresh, FreshOne, InTheList, Sound, HandlerSound, Follows
  <1>2. CASE t \in Readers /\ t \notin Handlers
    <2>1. SUFFICES ASSUME Follows(t) # {} PROVE ~Unlisted(rcur[t])
      BY <1>2 DEF Follows
    <2>2. InTheList(t)
      BY <1>2, <2>1 DEF Follows, InTheList
    <2>3. ~Deleting /\ ReaderSound(t)
      BY <1>2, <2>2 DEF Fresh, FreshOne, Sound
    <2>4. CASE rpc[t] = "hop" /\ hop[t] < idx[t]
      <3>1. idx[t] < size /\ size <= Linked /\ rcur[t] = order[hop[t] + 1]
        BY <2>3, <2>4, SizeBound DEF ReaderSound
      <3>2. hop[t] + 1 \in 1..Linked
        BY <1>2, <2>4, <3>1, ReaderTypes
      <3>3. QED
        BY <3>1, <3>2 DEF Unlisted
    <2>5. CASE rpc[t] \in {"start", "connect", "status", "delete", "use"}
      BY <2>3, <2>5 DEF ReaderSound
    <2>6. QED
      BY <1>2, <2>1, <2>4, <2>5 DEF Follows
  <1>3. QED
    BY <1>1, <1>2 DEF Threads

LEMMA ListedUsed ==
  ASSUME IInv, NEW c, ~Unlisted(c)
  PROVE  c \in used /\ c # NULL
  BY StatusPeersAssumption DEF IInv, TypeOK, Chained, Unlisted

\* Only an overtaken thread follows NULL or frees or names a freed node.
LEMMA WrongBlame ==
  ASSUME IInv, Fresh, NEW t \in Threads,
         \/ t \in Handlers /\ RenameFreed(t)
         \/ t \in Readers /\ GetPastEnd(t)
         \/ t \in Syncers /\ (ReadNull(t) \/ UnlinkFreed(t))
  PROVE  /\ Fresh' /\ Blame'
  <1>1. GoesWrong(t)
    BY DEF RenameFreed, GetPastEnd, ReadNull, UnlinkFreed
  <1>2. Fresh'
    BY <1>1, FreshQuiet DEF GoesWrong
  <1>3. t \in overtaken
    <2>1. SUFFICES ASSUME t \notin overtaken PROVE FALSE
      OBVIOUS
    <2>2. \A c \in Follows(t) : c \in used /\ c # NULL
      BY <2>1, FollowsListed, ListedUsed
    <2>3. CASE t \in Handlers /\ RenameFreed(t)
      <3>1. hpc[t] = "rename" /\ hcur[t] \notin used
        BY <2>3 DEF RenameFreed
      <3>2. HandlerSound(t)
        BY <2>1, <2>3, <3>1 DEF Fresh, FreshOne, InTheList, Sound
      <3>3. QED
        BY <3>1, <3>2, ListedUsed DEF HandlerSound
    <2>4. CASE t \in Readers /\ GetPastEnd(t)
      <3>1. t \notin Handlers /\ rcur[t] = NULL /\ rcur[t] \in Follows(t)
        BY <2>4, ReaderTypes DEF GetPastEnd, Follows
      <3>2. QED
        BY <2>2, <3>1
    <2>5. CASE t \in Syncers /\ ReadNull(t)
      <3>1. t \notin Handlers /\ rcur[t] = NULL /\ rcur[t] \in Follows(t)
        BY <2>5, ReaderTypes DEF Readers, ReadNull, Follows
      <3>2. QED
        BY <2>2, <3>1
    <2>6. CASE t \in Syncers /\ UnlinkFreed(t)
      <3>1. t \notin Handlers /\ rcur[t] \notin used /\ rcur[t] \in Follows(t)
        BY <2>6, ReaderTypes DEF Readers, UnlinkFreed, Follows
      <3>2. QED
        BY <2>2, <3>1
    <2>7. QED
      BY <2>3, <2>4, <2>5, <2>6
  <1>4. QED
    BY <1>1, <1>2, <1>3 DEF GoesWrong, Blame

LEMMA NextFresh == IInv /\ IInv' /\ Fresh /\ Blame /\ [Next]_vars => Fresh' /\ Blame'
  <1> SUFFICES ASSUME IInv, IInv', Fresh, Blame, [Next]_vars PROVE Fresh' /\ Blame'
    OBVIOUS
  <1>1. ASSUME culprit' = Nobody, Fresh' PROVE Fresh' /\ Blame'
    BY <1>1 DEF Blame
  <1>2. CASE UNCHANGED vars
    BY <1>2, FreshQuiet DEF vars, Blame
  <1>3. SUFFICES ASSUME Next PROVE Fresh' /\ Blame'
    BY <1>2
  <1>4. culprit = Nobody
    BY <1>3 DEF Next
  <1>5. ASSUME NEW k \in Keys, Leave(k) PROVE Fresh' /\ Blame'
    BY <1>1, <1>4, <1>5, FreshQuiet DEF Leave
  <1>6. ASSUME NEW h \in Handlers,
               RecvIntroduction(h) \/ RecvRecord(h) \/ EndSession(h) \/ HandlerStep(h)
        PROVE  Fresh' /\ Blame'
    <2>1. CASE RenameFreed(h)
      BY <2>1, WrongBlame DEF Threads
    <2>2. CASE ~RenameFreed(h)
      <3>1. \/ RecvIntroduction(h) \/ RecvRecord(h) \/ EndSession(h) \/ WalkNext(h)
            \/ WalkNamed(h) \/ WalkBlank(h) \/ WalkEnd(h) \/ CheckAnswered(h)
            \/ CheckFails(h) \/ Alloc(h) \/ Link(h) \/ Count(h) \/ Rename(h)
        BY <1>6, <2>2 DEF HandlerStep
      <3>2. Fresh'
        BY <3>1, HandlerFresh
      <3>3. culprit' = culprit
        BY <3>1 DEF RecvIntroduction, RecvRecord, EndSession, WalkNext, WalkNamed,
           WalkBlank, WalkEnd, CheckAnswered, CheckFails, Alloc, Link, Count, Rename
      <3>4. QED
        BY <1>1, <1>4, <3>2, <3>3
    <2>3. QED
      BY <2>1, <2>2
  <1>7. ASSUME NEW r \in Readers, ListGet(r) PROVE Fresh' /\ Blame'
    <2>1. CASE GetPastEnd(r)
      BY <2>1, WrongBlame DEF Threads
    <2>2. CASE ~GetPastEnd(r)
      <3>1. GetSize(r) \/ GetFirst(r) \/ GetNext(r) \/ GetDone(r)
        BY <1>7, <2>2 DEF ListGet
      <3>2. Fresh'
        BY <3>1, ListGetFresh
      <3>3. culprit' = culprit
        BY <3>1 DEF GetSize, GetFirst, GetNext, GetDone
      <3>4. QED
        BY <1>1, <1>4, <3>2, <3>3
    <2>3. QED
      BY <2>1, <2>2
  <1>8. CASE RoundStep
    <2>1. CASE ListGet(Round)
      BY <1>7, <2>1 DEF Readers
    <2>2. CASE RoundTest \/ RoundSleep \/ \E s \in Syncers : Spawn(s)
      <3>1. Fresh'
        BY <2>2, RoundFresh
      <3>2. culprit' = culprit
        BY <2>2 DEF RoundTest, RoundSleep, Spawn
      <3>3. QED
        BY <1>1, <1>4, <3>1, <3>2
    <2>3. QED
      BY <1>8, <2>1, <2>2 DEF RoundStep
  <1>9. ASSUME NEW s \in Syncers, SyncStep(s) PROVE Fresh' /\ Blame'
    <2>1. s \in Readers /\ s \in Threads
      BY DEF Readers, Threads
    <2>2. CASE ReadNull(s) \/ UnlinkFreed(s)
      BY <2>1, <2>2, WrongBlame
    <2>3. CASE ListGet(s)
      BY <1>7, <2>1, <2>3
    <2>4. CASE Unlink(s) \/ FreeNode(s) \/ Shrink(s)
      <3>1. Fresh'
        BY <2>4, DeletionFresh
      <3>2. culprit' = culprit
        BY <2>4 DEF Unlink, FreeNode, Shrink
      <3>3. QED
        BY <1>1, <1>4, <3>1, <3>2
    <2>5. CASE ReadNode(s) \/ Connect(s) \/ ConnectFails(s) \/ NotReady(s)
               \/ SyncFails(s) \/ SyncCount(s) \/ SyncTest(s) \/ SyncSend(s)
               \/ SyncDone(s)
      <3>1. Fresh'
        BY <2>5, SyncFresh
      <3>2. culprit' = culprit
        BY <2>5 DEF ReadNode, Connect, ConnectFails, NotReady, SyncFails,
           SyncCount, SyncTest, SyncSend, SyncDone
      <3>3. QED
        BY <1>1, <1>4, <3>1, <3>2
    <2>6. QED
      BY <1>9, <2>2, <2>3, <2>4, <2>5 DEF SyncStep, Deletes
  <1>10. QED
    BY <1>3, <1>5, <1>6, <1>8, <1>9 DEF Next

LEMMA StrayNow == IInv /\ Fresh /\ Blame => OnlyOvertakenStray
  <1> SUFFICES ASSUME IInv, Fresh, Blame,
                      NEW t \in Threads, ~(Follows(t) \subseteq used) \/ Mistakes(t)
               PROVE  t \in overtaken
    BY DEF OnlyOvertakenStray, Blame
  <1>1. SUFFICES ASSUME t \notin overtaken PROVE FALSE
    OBVIOUS
  <1>2. Follows(t) \subseteq used
    BY <1>1, FollowsListed, ListedUsed
  <1>3. ~Mistakes(t)
    <2>1. CASE t \in Handlers /\ hpc[t] = "rename"
      <3>1. HandlerSound(t) /\ t \notin Syncers
        BY <1>1, <2>1, StatusPeersAssumption
        DEF Fresh, FreshOne, InTheList, Sound, Readers
      <3>2. QED
        BY <2>1, <3>1 DEF HandlerSound, Mistakes
    <2>2. CASE t \in Syncers /\ rpc[t] \in {"connect", "status", "delete"}
      <3>1. t \in Readers /\ t \notin Handlers
        BY <2>2, StatusPeersAssumption DEF Readers
      <3>2. ReaderSound(t)
        BY <1>1, <2>2, <3>1 DEF Fresh, FreshOne, InTheList, Sound
      <3>3. QED
        BY <2>2, <3>1, <3>2 DEF ReaderSound, Mistakes
    <2>3. QED
      BY <2>1, <2>2 DEF Mistakes
  <1>4. QED
    BY <1>2, <1>3

\* A thread that follows NULL, touches or frees a freed node, or takes the node
\* of one peer for that of another, was in the middle of the list, without the
\* lock, while a deletion was under way: walks, rounds and deletions that do
\* not overlap a deletion are safe, whatever is inserted and renamed meanwhile
\* (P2P.c:123-258, 405-414, linked_list.c:112-140, 158-167).
THEOREM OnlyOvertakenGoWrong == Spec => []OnlyOvertakenStray
  <1>1. Init => IInv /\ Fresh /\ Blame
    BY InitIInv, InitFresh
  <1>2. IInv /\ Fresh /\ Blame /\ [Next]_vars => (IInv /\ Fresh /\ Blame)'
    BY NextIInv, NextFresh
  <1>3. QED
    BY <1>1, <1>2, StrayNow, PTL DEF Spec
=============================================================================
