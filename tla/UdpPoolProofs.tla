---------------------------- MODULE UdpPoolProofs ----------------------------
(***************************************************************************)
(* Proofs about UdpPool, for any number of clients and slots, any socket   *)
(* buffer, and any losses, copies and failures of pthread_create.          *)
(***************************************************************************)
EXTENDS UdpPool, SequenceTheorems, FiniteSetTheorems, TLAPS

Inv == TypeOK /\ SlotsAccounted /\ Owned

LEMMA InitInv == Init => Inv
  <1> SUFFICES ASSUME Init PROVE Inv
    OBVIOUS
  <1> USE UdpPoolAssumption DEF Init, Slots
  <1>1. TypeOK
    BY DEF TypeOK, Thread, NoThread
  <1>2. SlotsAccounted
    BY DEF SlotsAccounted, NoThread
  <1>3. Owned
    BY DEF Owned, NoCrossTalk, NoThread
  <1>4. QED
    BY <1>1, <1>2, <1>3 DEF Inv

LEMMA RequestType ==
  ASSUME NEW d \in Data
  PROVE  RequestFrom(d) \in Datagram
  BY DEF RequestFrom, Datagram, Data

LEMMA ReplyType ==
  ASSUME NEW d \in Data, NEW c \in Clients
  PROVE  ReplyTo(c, d) \in Datagram
  BY DEF ReplyTo, Datagram, Data

LEMMA DatagramType ==
  ASSUME NEW d \in Datagram
  PROVE  d.type \in {"request", "reply"} /\ d.peer \in Clients /\ d.data \in Data
  BY DEF Datagram

LEMMA ThreadType ==
  ASSUME NEW w \in Thread, w.at = "reply"
  PROVE  w.addr \in Clients /\ w.data \in Data
  BY DEF Thread, NoThread, Receiving

LEMMA ReplyingType ==
  ASSUME NEW a \in Clients, NEW d \in Data
  PROVE  [at |-> "reply", addr |-> a, data |-> d] \in Thread
  BY DEF Thread

LEMMA AdvanceType ==
  ASSUME TypeOK, Advance
  PROVE  next' \in Slots
  BY UdpPoolAssumption DEF TypeOK, Advance, Slots

LEMMA MainInv ==
  ASSUME Inv, MainStep
  PROVE  Inv'
  <1> USE DEF Inv
  <1>1. CASE SkipSlot
    BY <1>1, AdvanceType
    DEF SkipSlot, netVars, clientVars, TypeOK, SlotsAccounted, Owned, NoCrossTalk
  <1>2. CASE StartThread
    <2>1. next \in Slots
      BY DEF TypeOK
    <2>2. Receiving \in Thread /\ Receiving # NoThread /\ Receiving.at # "reply"
      BY DEF Thread, Receiving, NoThread
    <2>3. TypeOK'
      BY <1>2, <2>1, <2>2, AdvanceType
      DEF StartThread, netVars, clientVars, TypeOK
    <2>4. SlotsAccounted'
      BY <1>2, <2>1, <2>2 DEF StartThread, TypeOK, SlotsAccounted
    <2>5. Owned'
      BY <1>2, <2>1, <2>2
      DEF StartThread, netVars, clientVars, TypeOK, Owned, NoCrossTalk
    <2>6. QED
      BY <2>3, <2>4, <2>5
  <1>3. CASE StartFails
    <2>1. TypeOK'
      BY <1>3, AdvanceType DEF StartFails, netVars, clientVars, TypeOK
    <2>2. SlotsAccounted'
      BY <1>3 DEF StartFails, TypeOK, SlotsAccounted
    <2>3. Owned'
      BY <1>3 DEF StartFails, netVars, clientVars, TypeOK, Owned, NoCrossTalk
    <2>4. QED
      BY <2>1, <2>2, <2>3
  <1>4. QED
    BY <1>1, <1>2, <1>3 DEF MainStep

LEMMA ThreadInv ==
  ASSUME Inv, NEW i \in Slots, ThreadStep(i)
  PROVE  Inv'
  <1> USE DEF Inv
  <1>1. CASE Recv(i)
    <2> DEFINE d == Head(inbox)
               w == [at |-> "reply", addr |-> d.peer, data |-> d.data]
    <2>1. inbox # << >> /\ d = inbox[1] /\ 1 \in DOMAIN inbox
      BY <1>1 DEF Recv, TypeOK
    <2>2. d \in Datagram /\ d.peer = d.data.by
      BY <2>1 DEF TypeOK, Owned
    <2>3. w \in Thread /\ w # NoThread
      BY <2>2, DatagramType, ReplyingType DEF NoThread
    <2>4. /\ inbox' = Tail(inbox)
          /\ work' = [work EXCEPT ![i] = w]
          /\ UNCHANGED <<thread_used, next, lost, net, copied, clientVars>>
          /\ work[i] = Receiving
      BY <1>1 DEF Recv
    <2>5. /\ inbox' \in Seq(Datagram)
          /\ \A n \in DOMAIN inbox' : inbox'[n] = inbox[n + 1] /\ n + 1 \in DOMAIN inbox
      BY <2>1, <2>4, HeadTailProperties DEF TypeOK
    <2> HIDE DEF w, d
    <2>6. TypeOK'
      BY <2>3, <2>4, <2>5 DEF TypeOK, clientVars
    <2>7. SlotsAccounted'
      BY <2>3, <2>4 DEF SlotsAccounted, TypeOK, Receiving, NoThread
    <2>8. NoCrossTalk'
      BY <2>4 DEF Owned, NoCrossTalk, clientVars
    <2>9. \A n \in DOMAIN inbox' : inbox'[n].peer = inbox'[n].data.by
      BY <2>5 DEF Owned
    <2>10. \A j \in Slots : work'[j].at = "reply" => work'[j].addr = work'[j].data.by
      BY <2>2, <2>4 DEF Owned, TypeOK, w
    <2>11. QED
      BY <2>6, <2>7, <2>8, <2>9, <2>10 DEF Owned
  <1>2. CASE Reply(i)
    <2> DEFINE r == ReplyTo(work[i].addr, work[i].data)
               sleeper == [at |-> "sleep"]
    <2>1. work[i] \in Thread /\ work[i].at = "reply"
      BY <1>2 DEF Reply, TypeOK
    <2>2. r \in Datagram /\ r.peer = r.data.by
      BY <2>1, ThreadType, ReplyType DEF Owned, ReplyTo
    <2>3. sleeper \in Thread /\ sleeper # NoThread /\ sleeper.at # "reply"
      BY DEF Thread, NoThread
    <2>4. /\ net' = net \cup {r}
          /\ work' = [work EXCEPT ![i] = sleeper]
          /\ UNCHANGED <<thread_used, next, lost, inbox, copied, clientVars>>
      BY <1>2 DEF Reply
    <2>5. work[i] # NoThread
      BY <2>1 DEF NoThread
    <2> HIDE DEF r, sleeper
    <2>6. TypeOK'
      BY <2>2, <2>3, <2>4 DEF TypeOK, clientVars
    <2>7. SlotsAccounted'
      BY <2>3, <2>4, <2>5 DEF SlotsAccounted, TypeOK
    <2>8. Owned'
      BY <2>2, <2>3, <2>4 DEF Owned, NoCrossTalk, TypeOK, clientVars
    <2>9. QED
      BY <2>6, <2>7, <2>8
  <1>3. CASE Finish(i)
    <2>1. NoThread \in Thread /\ NoThread.at # "reply"
      BY DEF Thread, NoThread
    <2>2. i \notin lost
      BY <1>3 DEF Finish, SlotsAccounted, NoThread
    <2>3. TypeOK'
      BY <1>3, <2>1 DEF Finish, TypeOK, netVars, clientVars
    <2>4. SlotsAccounted'
      BY <1>3, <2>2 DEF Finish, SlotsAccounted, TypeOK, NoThread
    <2>5. Owned'
      BY <1>3, <2>1 DEF Finish, Owned, NoCrossTalk, TypeOK, netVars, clientVars
    <2>6. QED
      BY <2>3, <2>4, <2>5
  <1>4. QED
    BY <1>1, <1>2, <1>3 DEF ThreadStep

LEMMA NetworkInv ==
  ASSUME Inv, NEW e \in net, Deliver(e) \/ DeliverCopy(e) \/ Lose(e)
  PROVE  Inv'
  <1> USE DEF Inv
  <1>1. e \in Datagram /\ e.peer = e.data.by
    BY DEF TypeOK, Owned, NoCrossTalk
  <1>2. /\ net' \subseteq net
        /\ inbox' = Append(inbox, e) \/ inbox' = inbox
        /\ copied' \in Nat
        /\ UNCHANGED <<poolVars, clientVars>>
    BY DEF Deliver, DeliverCopy, Lose, TypeOK
  <1>3. /\ inbox' \in Seq(Datagram)
        /\ \A n \in DOMAIN inbox' :
             (n \in DOMAIN inbox /\ inbox'[n] = inbox[n]) \/ inbox'[n] = e
    <2>1. inbox \in Seq(Datagram)
      BY DEF TypeOK
    <2>2. CASE inbox' = Append(inbox, e)
      <3>1. /\ inbox' \in Seq(Datagram)
            /\ Len(inbox') = Len(inbox) + 1
            /\ \A n \in 1..Len(inbox) : inbox'[n] = inbox[n]
            /\ inbox'[Len(inbox) + 1] = e
        BY <1>1, <2>1, <2>2, AppendProperties
      <3>2. DOMAIN inbox' = 1..(Len(inbox) + 1) /\ DOMAIN inbox = 1..Len(inbox)
            /\ Len(inbox) \in Nat
        BY <2>1, <3>1, LenProperties
      <3>3. QED
        BY <3>1, <3>2
    <2>3. QED
      BY <1>2, <2>1, <2>2
  <1>4. TypeOK'
    BY <1>2, <1>3 DEF TypeOK, poolVars, clientVars
  <1>5. SlotsAccounted'
    BY <1>2 DEF SlotsAccounted, poolVars
  <1>6. Owned'
    BY <1>1, <1>2, <1>3 DEF Owned, NoCrossTalk, poolVars, clientVars
  <1>7. QED
    BY <1>4, <1>5, <1>6

LEMMA AskInv ==
  ASSUME Inv, NEW c \in Clients, Ask(c)
  PROVE  Inv'
  <1> USE DEF Inv
  <1>1. PICK v \in Values :
          /\ asked' = [asked EXCEPT ![c] = [by |-> c, val |-> v]]
          /\ net' = net \cup {RequestFrom([by |-> c, val |-> v])}
    BY DEF Ask
  <1> DEFINE d == [by |-> c, val |-> v]
  <1>2. d \in Data /\ d.by = c
    BY DEF Data
  <1> HIDE DEF d
  <1>3. RequestFrom(d) \in Datagram /\ RequestFrom(d).peer = RequestFrom(d).data.by
    BY <1>2, RequestType DEF RequestFrom
  <1>4. /\ asked' = [asked EXCEPT ![c] = d]
        /\ net' = net \cup {RequestFrom(d)}
        /\ cpc' = [cpc EXCEPT ![c] = "wait"]
        /\ UNCHANGED <<poolVars, inbox, copied, got>>
    BY <1>1 DEF Ask, d
  <1>5. TypeOK'
    BY <1>2, <1>3, <1>4 DEF TypeOK, poolVars
  <1>6. SlotsAccounted'
    BY <1>4 DEF SlotsAccounted, poolVars
  <1>7. Owned'
    BY <1>3, <1>4 DEF Owned, NoCrossTalk, poolVars
  <1>8. QED
    BY <1>5, <1>6, <1>7

LEMMA AnsweredInv ==
  ASSUME Inv, NEW c \in Clients, NEW e \in net, Answered(c, e)
  PROVE  Inv'
  <1> USE DEF Inv
  <1>1. e \in Datagram /\ e.peer = e.data.by /\ e.data \in Data /\ e.peer = c
    BY DatagramType DEF TypeOK, Owned, NoCrossTalk, Answered
  <1>2. TypeOK'
    BY <1>1 DEF Answered, TypeOK, poolVars
  <1>3. SlotsAccounted'
    BY DEF Answered, SlotsAccounted, poolVars
  <1>4. \A x \in Clients : got'[x] # Nothing => got'[x].by = x
    BY <1>1 DEF Answered, TypeOK, Owned, NoCrossTalk
  <1>5. Owned'
    BY <1>4 DEF Answered, Owned, NoCrossTalk, poolVars
  <1>6. QED
    BY <1>2, <1>3, <1>5

LEMMA NextInv == Inv /\ [Next]_vars => Inv'
  <1> SUFFICES ASSUME Inv, [Next]_vars PROVE Inv'
    OBVIOUS
  <1>1. CASE MainStep
    BY <1>1, MainInv
  <1>2. CASE \E i \in Slots : ThreadStep(i)
    BY <1>2, ThreadInv
  <1>3. CASE \E c \in Clients : Ask(c)
    BY <1>3, AskInv
  <1>4. CASE \E c \in Clients : Arrive(c)
    BY <1>4, NetworkInv, AnsweredInv DEF Arrive
  <1>5. CASE \E e \in net : Lose(e)
    BY <1>5, NetworkInv
  <1>6. CASE UNCHANGED vars
    BY <1>6 DEF Inv, TypeOK, SlotsAccounted, Owned, NoCrossTalk, vars, poolVars,
                netVars, clientVars
  <1>7. QED
    BY <1>1, <1>2, <1>3, <1>4, <1>5, <1>6 DEF Next

\* Types, slots and owners together, in every behaviour of the pool.
THEOREM Invariant == Spec => []Inv
  BY InitInv, NextInv, PTL DEF Spec

\* No slot gets a second thread, and none is lost but by a failing
\* pthread_create (server.c:60, 141-147).
THEOREM SlotsAccountedFor == Spec => []SlotsAccounted
  <1>1. Inv => SlotsAccounted
    BY DEF Inv
  <1>2. QED
    BY <1>1, Invariant, PTL

\* Threads that share the socket never mix up their clients (server.c:26-53).
THEOREM OwnAnswers == Spec => []NoCrossTalk
  <1>1. Inv => NoCrossTalk
    BY DEF Inv, Owned
  <1>2. QED
    BY <1>1, Invariant, PTL

-----------------------------------------------------------------------------
(* Where a client's request, or the answer to it, may be.                  *)

InNet(c) == \E d \in net : d.peer = c
InInbox(c) == \E n \in DOMAIN inbox : inbox[n].peer = c
Serves(i, c) == work[i].at = "reply" /\ work[i].addr = c
Served(c) == \E i \in Slots : Serves(i, c)

\* It is in one place at most, and says what the client has asked last.
Alone(c) ==
  /\ \A d, e \in net : d.peer = c /\ e.peer = c => d = e
  /\ \A m, n \in DOMAIN inbox : inbox[m].peer = c /\ inbox[n].peer = c => m = n
  /\ \A i, j \in Slots : Serves(i, c) /\ Serves(j, c) => i = j
  /\ ~(InNet(c) /\ InInbox(c)) /\ ~(InNet(c) /\ Served(c))
  /\ ~(InInbox(c) /\ Served(c))

Current(c) ==
  /\ \A d \in net : d.peer = c => d.data = asked[c]
  /\ \A n \in DOMAIN inbox : inbox[n].peer = c => inbox[n].data = asked[c]
  /\ \A i \in Slots : Serves(i, c) => work[i].data = asked[c]

Prompting(c) ==
  cpc[c] = "prompt" =>
    ~InNet(c) /\ ~InInbox(c) /\ ~Served(c) /\ got[c] = asked[c]

Latest(c) == Alone(c) /\ Current(c) /\ Prompting(c)
AllLatest == copied = 0 => \A c \in Clients : Latest(c)

LEMMA InitLatest == Init => AllLatest
  BY DEF Init, AllLatest, Latest, Alone, Current, Prompting, InNet, InInbox,
         Served, Serves, NoThread

\* A step that sends nothing and answers nobody.
LEMMA QuietLatest ==
  ASSUME Inv, AllLatest, UNCHANGED <<inbox, copied, clientVars>>, net' \subseteq net,
         \A i \in Slots : work'[i].at = "reply" => work'[i] = work[i]
  PROVE  AllLatest'
  <1> SUFFICES ASSUME copied = 0, NEW c \in Clients PROVE Latest(c)'
    BY DEF AllLatest
  <1>1. Latest(c)
    BY DEF AllLatest
  <1>2. \A i \in Slots : Serves(i, c)' => Serves(i, c) /\ work'[i].data = work[i].data
    BY DEF Serves
  <1>3. Alone(c)'
    BY <1>1, <1>2 DEF Latest, Alone, InNet, InInbox, Served
  <1>4. Current(c)' /\ Prompting(c)'
    BY <1>1, <1>2 DEF Latest, Current, Prompting, InNet, InInbox, Served, clientVars
  <1>5. QED
    BY <1>3, <1>4 DEF Latest

\* The first datagram moves from the socket to a thread.
LEMMA RecvLatest ==
  ASSUME Inv, AllLatest, NEW i \in Slots, Recv(i)
  PROVE  AllLatest'
  <1> DEFINE w == [at |-> "reply", addr |-> Head(inbox).peer, data |-> Head(inbox).data]
  <1> SUFFICES ASSUME copied = 0, NEW c \in Clients PROVE Latest(c)'
    BY DEF Recv, AllLatest
  <1>1. Latest(c)
    BY DEF AllLatest
  <1>2. /\ inbox \in Seq(Datagram) /\ inbox # << >> /\ inbox' = Tail(inbox)
        /\ Head(inbox) = inbox[1] /\ 1 \in DOMAIN inbox
    BY DEF Recv, Inv, TypeOK
  <1>3. \A n \in DOMAIN inbox' :
          inbox'[n] = inbox[n + 1] /\ n + 1 \in DOMAIN inbox /\ n + 1 # 1 /\ n \in Nat
    BY <1>2, HeadTailProperties
  <1>4. /\ UNCHANGED <<net, copied, clientVars>> /\ work[i] = Receiving
        /\ \A j \in Slots : work'[j] = IF j = i THEN w ELSE work[j]
    BY DEF Recv, Inv, TypeOK
  <1>5. w.at = "reply" /\ w.addr = inbox[1].peer /\ w.data = inbox[1].data
    BY <1>2
  <1> HIDE DEF w
  <1>6. \A j \in Slots : Serves(j, c)' <=>
          IF j = i THEN inbox[1].peer = c ELSE Serves(j, c)
    BY <1>4, <1>5 DEF Serves
  <1>7. CASE inbox[1].peer = c
    <2>1. InInbox(c) /\ ~InNet(c) /\ ~Served(c)
      BY <1>1, <1>2, <1>7 DEF InInbox, Latest, Alone
    <2>2. ~InInbox(c)'
      BY <1>1, <1>2, <1>3, <1>7 DEF InInbox, Latest, Alone
    <2>3. ~InNet(c)'
      BY <1>4, <2>1 DEF InNet
    <2>4. \A j \in Slots : Serves(j, c)' => j = i
      BY <1>6, <2>1 DEF Served
    <2>5. Alone(c)'
      BY <2>2, <2>3, <2>4 DEF Alone, InNet, InInbox
    <2>6. inbox[1].data = asked[c]
      BY <1>1, <1>2, <1>7 DEF Latest, Current
    <2>7. Current(c)'
      BY <1>4, <1>5, <2>2, <2>3, <2>4, <2>6 DEF Current, InNet, InInbox, clientVars
    <2>8. Prompting(c)'
      BY <1>1, <1>4, <2>1 DEF Latest, Prompting, clientVars
    <2>9. QED
      BY <2>5, <2>7, <2>8 DEF Latest
  <1>8. CASE inbox[1].peer # c
    <2>1. \A j \in Slots : Serves(j, c)' => Serves(j, c) /\ j # i
      BY <1>6, <1>8
    <2>2. /\ InInbox(c)' => InInbox(c)
          /\ Served(c)' => Served(c)
          /\ InNet(c)' => InNet(c)
      BY <1>3, <1>4, <2>1 DEF InInbox, Served, InNet
    <2>3. \A m, n \in DOMAIN inbox' :
            inbox'[m].peer = c /\ inbox'[n].peer = c => m = n
      <3>1. SUFFICES ASSUME NEW m \in DOMAIN inbox', NEW n \in DOMAIN inbox',
                            inbox'[m].peer = c, inbox'[n].peer = c
                     PROVE  m = n
        OBVIOUS
      <3>2. m + 1 = n + 1
        BY <1>1, <1>3, <3>1 DEF Latest, Alone
      <3>3. m \in Nat /\ n \in Nat
        BY <1>3
      <3>4. QED
        BY <3>2, <3>3
    <2>4. Alone(c)'
      BY <1>1, <1>4, <2>1, <2>2, <2>3 DEF Latest, Alone
    <2>5. Current(c)'
      BY <1>1, <1>3, <1>4, <2>1 DEF Latest, Current, clientVars
    <2>6. Prompting(c)'
      BY <1>1, <1>4, <2>2 DEF Latest, Prompting, clientVars
    <2>7. QED
      BY <2>4, <2>5, <2>6 DEF Latest
  <1>9. QED
    BY <1>7, <1>8

\* The answer moves from the thread to the network.
LEMMA ReplyLatest ==
  ASSUME Inv, AllLatest, NEW i \in Slots, Reply(i)
  PROVE  AllLatest'
  <1> DEFINE r == ReplyTo(work[i].addr, work[i].data)
  <1> SUFFICES ASSUME copied = 0, NEW c \in Clients PROVE Latest(c)'
    BY DEF Reply, AllLatest
  <1>1. Latest(c)
    BY DEF AllLatest
  <1>2. /\ work[i].at = "reply" /\ net' = net \cup {r}
        /\ r.peer = work[i].addr /\ r.data = work[i].data
        /\ UNCHANGED <<inbox, copied, clientVars>>
        /\ \A j \in Slots : work'[j] = IF j = i THEN [at |-> "sleep"] ELSE work[j]
    BY DEF Reply, ReplyTo, Inv, TypeOK
  <1> HIDE DEF r
  <1>3. \A j \in Slots : Serves(j, c)' <=> j # i /\ Serves(j, c)
    BY <1>2 DEF Serves
  <1>4. Served(c)' => Served(c)
    BY <1>3 DEF Served
  <1>5. CASE r.peer = c
    <2>1. Serves(i, c) /\ Served(c) /\ ~InNet(c) /\ ~InInbox(c)
      BY <1>1, <1>2, <1>5 DEF Serves, Served, Latest, Alone
    <2>2. ~Served(c)' /\ ~InInbox(c)'
      BY <1>1, <1>2, <1>3, <2>1 DEF Served, InInbox, Latest, Alone
    <2>3. \A d \in net' : d.peer = c => d = r
      BY <1>2, <2>1 DEF InNet
    <2>4. Alone(c)'
      BY <2>2, <2>3 DEF Alone, Served, InInbox
    <2>5. r.data = asked[c]
      BY <1>1, <1>2, <2>1 DEF Latest, Current
    <2>6. Current(c)'
      BY <1>2, <2>2, <2>3, <2>5 DEF Current, Served, InInbox, clientVars
    <2>7. Prompting(c)'
      BY <1>1, <1>2, <2>1 DEF Latest, Prompting, clientVars
    <2>8. QED
      BY <2>4, <2>6, <2>7 DEF Latest
  <1>6. CASE r.peer # c
    <2>1. \A d \in net' : d.peer = c => d \in net
      BY <1>2, <1>6
    <2>2. (InNet(c)' => InNet(c)) /\ InInbox(c)' = InInbox(c)
      BY <1>2, <2>1 DEF InNet, InInbox
    <2>3. Alone(c)'
      BY <1>1, <1>2, <1>3, <1>4, <2>1, <2>2 DEF Latest, Alone
    <2>4. Current(c)'
      BY <1>1, <1>2, <1>3, <2>1 DEF Latest, Current, clientVars
    <2>5. Prompting(c)'
      BY <1>1, <1>2, <1>4, <2>2 DEF Latest, Prompting, clientVars
    <2>6. QED
      BY <2>3, <2>4, <2>5 DEF Latest
  <1>7. QED
    BY <1>5, <1>6

\* A request moves from the network to the socket, or is dropped.
LEMMA DeliverLatest ==
  ASSUME Inv, AllLatest, NEW e \in net, Deliver(e)
  PROVE  AllLatest'
  <1> SUFFICES ASSUME copied = 0, NEW c \in Clients PROVE Latest(c)'
    BY DEF Deliver, AllLatest
  <1>1. Latest(c)
    BY DEF AllLatest
  <1>2. /\ net' = net \ {e} /\ UNCHANGED <<poolVars, copied, clientVars>>
        /\ inbox' = inbox \/ inbox' = Append(inbox, e)
        /\ inbox \in Seq(Datagram) /\ e \in Datagram
    BY DEF Deliver, Inv, TypeOK
  <1>3. CASE inbox' = inbox
    BY <1>1, <1>2, <1>3 DEF poolVars, clientVars, Latest, Alone, Current, Prompting,
                            InNet, InInbox, Served, Serves
  <1>4. CASE inbox' = Append(inbox, e)
    <2>1. \A n \in DOMAIN inbox' :
            (n \in DOMAIN inbox /\ inbox'[n] = inbox[n])
            \/ (n = Len(inbox) + 1 /\ inbox'[n] = e)
      <3>1. /\ Len(inbox') = Len(inbox) + 1
            /\ \A n \in 1..Len(inbox) : inbox'[n] = inbox[n]
            /\ inbox'[Len(inbox) + 1] = e /\ inbox' \in Seq(Datagram)
        BY <1>2, <1>4, AppendProperties
      <3>2. DOMAIN inbox' = 1..(Len(inbox) + 1) /\ DOMAIN inbox = 1..Len(inbox)
            /\ Len(inbox) \in Nat
        BY <1>2, <3>1, LenProperties
      <3>3. QED
        BY <3>1, <3>2
    <2>2. \A i \in Slots : Serves(i, c)' = Serves(i, c)
      BY <1>2 DEF poolVars, Serves
    <2>3. Served(c)' = Served(c)
      BY <2>2 DEF Served
    <2>4. CASE e.peer = c
      <3>1. InNet(c) /\ ~InInbox(c) /\ ~Served(c)
        BY <1>1, <2>4 DEF InNet, Latest, Alone
      <3>2. ~InNet(c)'
        BY <1>1, <1>2, <2>4 DEF InNet, Latest, Alone
      <3>3. \A n \in DOMAIN inbox' : inbox'[n].peer = c =>
              n = Len(inbox) + 1 /\ inbox'[n] = e
        BY <2>1, <3>1 DEF InInbox
      <3>4. Alone(c)'
        BY <2>3, <3>1, <3>2, <3>3 DEF Alone, InNet, Served
      <3>5. Current(c)'
        BY <1>1, <1>2, <2>4, <3>1, <2>3, <3>2, <3>3
        DEF Latest, Current, InNet, Served, clientVars
      <3>6. Prompting(c)'
        BY <1>1, <1>2, <3>1 DEF Latest, Prompting, clientVars
      <3>7. QED
        BY <3>4, <3>5, <3>6 DEF Latest
    <2>5. CASE e.peer # c
      <3>1. \A n \in DOMAIN inbox' : inbox'[n].peer = c =>
              n \in DOMAIN inbox /\ inbox'[n] = inbox[n]
        BY <2>1, <2>5
      <3>2. (InNet(c)' => InNet(c)) /\ (InInbox(c)' => InInbox(c))
        BY <1>2, <3>1 DEF InNet, InInbox
      <3>3. Alone(c)'
        BY <1>1, <1>2, <2>2, <2>3, <3>1, <3>2 DEF Latest, Alone
      <3>4. Current(c)'
        BY <1>1, <1>2, <2>2, <3>1 DEF Latest, Current, clientVars, poolVars
      <3>5. Prompting(c)'
        BY <1>1, <1>2, <2>3, <3>2 DEF Latest, Prompting, clientVars
      <3>6. QED
        BY <3>3, <3>4, <3>5 DEF Latest
    <2>6. QED
      BY <2>4, <2>5
  <1>5. QED
    BY <1>2, <1>3, <1>4

LEMMA AskLatest ==
  ASSUME Inv, AllLatest, NEW b \in Clients, Ask(b)
  PROVE  AllLatest'
  <1> SUFFICES ASSUME copied = 0, NEW c \in Clients PROVE Latest(c)'
    BY DEF Ask, AllLatest
  <1>1. Latest(c)
    BY DEF AllLatest
  <1>2. PICK v \in Values :
          /\ asked' = [asked EXCEPT ![b] = [by |-> b, val |-> v]]
          /\ net' = net \cup {RequestFrom([by |-> b, val |-> v])}
    BY DEF Ask
  <1> DEFINE d == [by |-> b, val |-> v]
  <1>3. RequestFrom(d).peer = b /\ RequestFrom(d).data = d
    BY DEF RequestFrom
  <1> HIDE DEF d
  <1>4. /\ cpc[b] = "prompt" /\ cpc'[b] = "wait"
        /\ UNCHANGED <<poolVars, inbox, copied, got>>
        /\ asked' = [asked EXCEPT ![b] = d] /\ net' = net \cup {RequestFrom(d)}
        /\ asked'[b] = d
        /\ c # b => cpc'[c] = cpc[c] /\ asked'[c] = asked[c]
    BY <1>2 DEF Ask, Inv, TypeOK, d
  <1>5. \A i \in Slots : Serves(i, c)' = Serves(i, c)
    BY <1>4 DEF poolVars, Serves
  <1>6. Served(c)' = Served(c) /\ InInbox(c)' = InInbox(c)
    BY <1>4, <1>5 DEF Served, InInbox
  <1>7. CASE c = b
    <2>1. ~InNet(c) /\ ~InInbox(c) /\ ~Served(c)
      BY <1>1, <1>4, <1>7 DEF Latest, Prompting
    <2>2. \A e \in net' : e.peer = c => e = RequestFrom(d)
      BY <1>4, <2>1 DEF InNet
    <2>3. Alone(c)' /\ Current(c)'
      BY <1>3, <1>4, <1>6, <1>7, <2>1, <2>2 DEF Alone, Current, InInbox, Served
    <2>4. Prompting(c)'
      BY <1>4, <1>7 DEF Prompting
    <2>5. QED
      BY <2>3, <2>4 DEF Latest
  <1>8. CASE c # b
    <2>1. \A e \in net' : e.peer = c => e \in net
      BY <1>3, <1>4, <1>8
    <2>2. InNet(c)' => InNet(c)
      BY <2>1 DEF InNet
    <2>3. Alone(c)'
      BY <1>1, <1>4, <1>5, <1>6, <2>1, <2>2 DEF Latest, Alone
    <2>4. Current(c)'
      BY <1>1, <1>4, <1>5, <1>8, <2>1 DEF Latest, Current, poolVars
    <2>5. Prompting(c)'
      BY <1>1, <1>4, <1>6, <1>8, <2>2 DEF Latest, Prompting
    <2>6. QED
      BY <2>3, <2>4, <2>5 DEF Latest
  <1>9. QED
    BY <1>7, <1>8

LEMMA AnsweredLatest ==
  ASSUME Inv, AllLatest, NEW b \in Clients, NEW e \in net, Answered(b, e)
  PROVE  AllLatest'
  <1> SUFFICES ASSUME copied = 0, NEW c \in Clients PROVE Latest(c)'
    BY DEF Answered, AllLatest
  <1>1. Latest(c)
    BY DEF AllLatest
  <1>2. /\ e.peer = b /\ net' = net \ {e} /\ got'[b] = e.data
        /\ UNCHANGED <<poolVars, inbox, copied, asked>>
        /\ c # b => cpc'[c] = cpc[c] /\ got'[c] = got[c]
    BY DEF Answered, Inv, TypeOK
  <1>3. \A i \in Slots : Serves(i, c)' = Serves(i, c)
    BY <1>2 DEF poolVars, Serves
  <1>4. /\ Served(c)' = Served(c) /\ InInbox(c)' = InInbox(c)
        /\ InNet(c)' => InNet(c)
    BY <1>2, <1>3 DEF Served, InInbox, InNet
  <1>5. Alone(c)' /\ Current(c)'
    BY <1>1, <1>2, <1>3, <1>4 DEF Latest, Alone, Current, poolVars
  <1>6. CASE c = b
    <2>1. InNet(c) /\ ~InInbox(c) /\ ~Served(c) /\ e.data = asked[c]
      BY <1>1, <1>2, <1>6 DEF InNet, Latest, Alone, Current
    <2>2. ~InNet(c)'
      BY <1>1, <1>2, <1>6 DEF InNet, Latest, Alone
    <2>3. QED
      BY <1>2, <1>4, <1>5, <1>6, <2>1, <2>2 DEF Latest, Prompting
  <1>7. CASE c # b
    BY <1>1, <1>2, <1>4, <1>5, <1>7 DEF Latest, Prompting
  <1>8. QED
    BY <1>6, <1>7

LEMMA NextLatest == Inv /\ AllLatest /\ [Next]_vars => AllLatest'
  <1> SUFFICES ASSUME Inv, AllLatest, [Next]_vars PROVE AllLatest'
    OBVIOUS
  <1>1. CASE MainStep
    BY <1>1, QuietLatest
    DEF MainStep, SkipSlot, StartThread, StartFails, netVars, Receiving, Inv, TypeOK
  <1>2. ASSUME NEW i \in Slots, Finish(i) PROVE AllLatest'
    BY <1>2, QuietLatest DEF Finish, netVars, NoThread, Inv, TypeOK
  <1>3. ASSUME NEW e \in net, DeliverCopy(e) PROVE AllLatest'
    BY <1>3 DEF DeliverCopy, AllLatest, Inv, TypeOK
  <1>4. ASSUME NEW e \in net, Lose(e) PROVE AllLatest'
    BY <1>4, QuietLatest DEF Lose, poolVars
  <1>5. CASE UNCHANGED vars
    BY <1>5, QuietLatest DEF vars, poolVars, netVars
  <1>6. CASE \E i \in Slots : ThreadStep(i)
    BY <1>2, <1>6, RecvLatest, ReplyLatest DEF ThreadStep
  <1>7. CASE \E c \in Clients : Ask(c) \/ Arrive(c)
    BY <1>3, <1>7, AskLatest, DeliverLatest, AnsweredLatest DEF Arrive
  <1>8. QED
    BY <1>1, <1>4, <1>5, <1>6, <1>7 DEF Next

\* A set whose elements are all the same has one at most.
LEMMA AtMostOne ==
  ASSUME NEW S, \A x, y \in S : x = y
  PROVE  Cardinality(S) = IF S = {} THEN 0 ELSE 1
  <1>1. CASE S = {}
    BY <1>1, FS_EmptySet
  <1>2. CASE S # {}
    <2>1. PICK x : S = {x}
      BY <1>2
    <2>2. QED
      BY <2>1, FS_Singleton
  <1>3. QED
    BY <1>1, <1>2

LEMMA LatestNow == Inv /\ AllLatest => AnswersLatest
  <1> SUFFICES ASSUME Inv, AllLatest, copied = 0, NEW c \in Clients
               PROVE  /\ cpc[c] = "prompt" => got[c] = asked[c]
                      /\ Places(c) <= IF cpc[c] = "wait" THEN 1 ELSE 0
    BY DEF AnswersLatest
  <1> DEFINE A == {d \in net : d.peer = c}
             B == {i \in DOMAIN inbox : inbox[i].peer = c}
             C == {i \in Slots : work[i].at = "reply" /\ work[i].addr = c}
  <1>1. Latest(c) /\ cpc[c] \in {"prompt", "wait"}
    BY DEF AllLatest, Inv, TypeOK
  <1>2. (\A x, y \in A : x = y) /\ (\A x, y \in B : x = y) /\ (\A x, y \in C : x = y)
    BY <1>1 DEF Latest, Alone, Serves
  <1>3. /\ A # {} <=> InNet(c)
        /\ B # {} <=> InInbox(c)
        /\ C # {} <=> Served(c)
    BY DEF InNet, InInbox, Served, Serves
  <1>4. Places(c) = Cardinality(A) + Cardinality(B) + Cardinality(C)
    BY DEF Places
  <1> HIDE DEF A, B, C
  <1>5. /\ Cardinality(A) = IF A = {} THEN 0 ELSE 1
        /\ Cardinality(B) = IF B = {} THEN 0 ELSE 1
        /\ Cardinality(C) = IF C = {} THEN 0 ELSE 1
    BY <1>2, AtMostOne
  <1>6. (A = {} \/ B = {}) /\ (A = {} \/ C = {}) /\ (B = {} \/ C = {})
    <2>1. /\ ~(InNet(c) /\ InInbox(c)) /\ ~(InNet(c) /\ Served(c))
          /\ ~(InInbox(c) /\ Served(c))
      BY <1>1 DEF Latest, Alone
    <2>2. QED
      BY <1>3, <2>1, Zenon
  <1>7. cpc[c] = "prompt" => A = {} /\ B = {} /\ C = {} /\ got[c] = asked[c]
    BY <1>1, <1>3 DEF Latest, Prompting
  <1>8. Places(c) <= 1 /\ (A = {} /\ B = {} /\ C = {} => Places(c) = 0)
    BY <1>4, <1>5, <1>6
  <1>9. QED
    BY <1>1, <1>7, <1>8

\* Where datagrams are not copied, what a client shows is the answer to the
\* request it sent last, whatever the network loses and reorders and whichever
\* threads answer: no second request or answer of the client is on the way
\* (server.c:39-53, client.c:67-89).
THEOREM ShowsLatestAnswer == Spec => []AnswersLatest
  <1>1. Init => Inv /\ AllLatest
    BY InitInv, InitLatest
  <1>2. Inv /\ AllLatest /\ [Next]_vars => (Inv /\ AllLatest)'
    BY NextInv, NextLatest
  <1>3. QED
    BY <1>1, <1>2, LatestNow, PTL DEF Spec
=============================================================================
