------------------------------- MODULE Gossip -------------------------------
(***************************************************************************)
(* Several peers of week09_new and the sessions between them.  Every round *)
(* a peer connects to every peer it lists (synch), introduces itself,      *)
(* announces how many peers it lists and sends one record for each; the    *)
(* accepting peer (connection_handler) lists what it did not list yet, and *)
(* names what has no name.                                                 *)
(*                                                                         *)
(* A peer listens on all its addresses (INADDR_ANY), and who listens at an *)
(* address depends on who connects: 127.0.0.1 is a peer on the same host.  *)
(* An entry is an address and a port, here one value of Addrs.  A peer     *)
(* knows none of its own addresses but that of the connection at hand: it  *)
(* introduces itself with it (getsockname in synch), and filters its own   *)
(* records by it (getsockname in connection_handler).  So a peer with      *)
(* several addresses is several entries to the others, and may list, and   *)
(* then connect to, itself.                                                *)
(*                                                                         *)
(* A restarted peer does not get its port back (bind to port 0), so a      *)
(* restart is a new peer.  The list itself, shared by the threads of one   *)
(* peer, is that of KnownNodes; here its operations are single steps, but  *)
(* the look-up of a record and the change it leads to are two.             *)
(***************************************************************************)
EXTENDS Naturals, Sequences, FiniteSets

CONSTANTS Peers,
          Addrs,       \* addresses, each with a port
          Reaches,     \* <<p, a>>: who listens where p connects to a, or Nobody
          From,        \* <<p, a>>: the address p itself has on that connection
          Nobody,      \* owner of a name made of blanks only
          MaxSessions, \* bound: sessions open at the same time
          MaxExits,    \* bound: peers that exit
          Capacity     \* bound: messages a connection buffers

ASSUME GossipAssumption ==
  /\ IsFiniteSet(Peers) /\ Nobody \notin Peers
  /\ Reaches \in [Peers \X Addrs -> Peers \cup {Nobody}]
  /\ From \in [Peers \X Addrs -> Addrs]
  /\ MaxSessions \in Nat \ {0}
  /\ MaxExits \in Nat
  /\ Capacity \in Nat \ {0}

VARIABLES
  power,  \* per peer: "off", "on", "exited" or "killed"
  known,  \* per peer: its known_nodes
  snd,    \* per session <<p, a>>: the synch thread of p that connects to a
  chan,   \* per session: the messages on the way
  rcv     \* per session: the handler thread of the peer at a

vars == <<power, known, snd, chan, rcv>>

Sessions == {s \in Peers \X Addrs : Reaches[s] \in Peers}

\* The peer that accepts; s[2] is its own address on the connection.
To(s) == Reaches[s]

\* A name is its owner's PEER_NAME, if anyone's, and the blanks behind it.
Name == [of : Peers \cup {Nobody}, pad : Nat]
Unnamed == [of |-> Nobody, pad |-> 0]
OwnName(p) == [of |-> p, pad |-> 0]

Entry(k, n) == [key |-> k, name |-> n]

\* get_peer_information puts a blank behind every name, also an empty one.
Padded(n) == [n EXCEPT !.pad = @ + 1]

Nothing == [op |-> "none"]
IdleSender == [at |-> "idle", i |-> 0, n |-> 0, reset |-> FALSE]
IdleHandler == [at |-> "idle", left |-> 0, todo |-> Nothing]

Keys(p) == {known[p][i].key : i \in DOMAIN known[p]}

Init ==
  /\ power = [p \in Peers |-> "off"]
  /\ known = [p \in Peers |-> << >>]
  /\ snd = [s \in Sessions |-> IdleSender]
  /\ chan = [s \in Sessions |-> << >>]
  /\ rcv = [s \in Sessions |-> IdleHandler]

-----------------------------------------------------------------------------
(* main: a peer waits, or starts with the address of one that has started. *)

Start(p) ==
  /\ power[p] = "off"
  /\ power' = [power EXCEPT ![p] = "on"]
  /\ \/ UNCHANGED known
     \/ \E s \in Sessions :
          /\ s[1] = p /\ power[To(s)] # "off"
          /\ known' = [known EXCEPT ![p] = << Entry(s[2], Unnamed) >>]
  /\ UNCHANGED <<snd, chan, rcv>>

\* Every thread of the peer is gone, its connections are closed, and its list
\* is lost.  Where it leaves something unread, the connection is reset at
\* once: the next send of the other side fails, and that is all its thread
\* still does.
Stop(p, how) ==
  /\ power' = [power EXCEPT ![p] = how]
  /\ snd' = [s \in Sessions |-> IF s[1] = p \/ (To(s) = p /\ chan[s] # << >>)
                                THEN IdleSender ELSE snd[s]]
  /\ rcv' = [s \in Sessions |-> IF To(s) = p THEN IdleHandler ELSE rcv[s]]
  /\ chan' = [s \in Sessions |-> IF To(s) = p THEN << >> ELSE chan[s]]
  /\ UNCHANGED known

\* The "exit" command.
Exit(p) ==
  /\ power[p] = "on"
  /\ Cardinality({q \in Peers : power[q] = "exited"}) < MaxExits
  /\ Stop(p, "exited")

-----------------------------------------------------------------------------
(* synch                                                                   *)

Idle(s) == snd[s].at = "idle" /\ rcv[s].at = "idle" /\ chan[s] = << >>

\* Mutant: the round stops after the first entry.
ConnectFirst(s) ==
  LET p == s[1]
  IN  /\ power[p] = "on" /\ power[To(s)] = "on"
      /\ known[p] # << >> /\ s[2] = known[p][1].key
      /\ Idle(s)
      /\ Cardinality({t \in Sessions : ~Idle(t)}) < MaxSessions
      /\ snd' = [snd EXCEPT ![s].at = "intro"]
      /\ rcv' = [rcv EXCEPT ![s].at = "intro"]
      /\ UNCHANGED <<power, known, chan>>

\* A round reaches the entry, and connect and accept succeed.
Connect(s) ==
  LET p == s[1]
  IN  /\ power[p] = "on" /\ power[To(s)] = "on"
      /\ s[2] \in Keys(p)
      /\ Idle(s)
      /\ Cardinality({t \in Sessions : ~Idle(t)}) < MaxSessions
      /\ snd' = [snd EXCEPT ![s].at = "intro"]
      /\ rcv' = [rcv EXCEPT ![s].at = "intro"]
      /\ UNCHANGED <<power, known, chan>>

\* The sender's thread goes on to `next' after putting m on the way.
Send(s, m, next) ==
  /\ power[To(s)] = "on"
  /\ Len(chan[s]) < Capacity
  /\ chan' = [chan EXCEPT ![s] = Append(@, m)]
  /\ snd' = [snd EXCEPT ![s] = next]
  /\ UNCHANGED <<power, known, rcv>>

\* getsockname and create_introduction: the address is that of this connection.
SendIntroduction(s) ==
  /\ snd[s].at = "intro"
  /\ Send(s, [type |-> "intro", key |-> From[s], name |-> OwnName(s[1])],
             [snd[s] EXCEPT !.at = "count"])

SendCount(s) ==
  LET n == Len(known[s[1]])
  IN  /\ snd[s].at = "count"
      /\ Send(s, [type |-> "count", n |-> n],
                 [snd[s] EXCEPT !.at = "records", !.i = 0, !.n = n])

\* Mutant: the record carries the sender's own name.
SendRecordOwn(s) ==
  LET e == known[s[1]][snd[s].i + 1]
  IN  /\ snd[s].at = "records" /\ snd[s].i < snd[s].n
      /\ Send(s, [type |-> "record", key |-> e.key, name |-> OwnName(s[1])],
                 [snd[s] EXCEPT !.i = @ + 1])

SendRecord(s) ==
  LET e == known[s[1]][snd[s].i + 1]
  IN  /\ snd[s].at = "records" /\ snd[s].i < snd[s].n
      /\ Send(s, [type |-> "record", key |-> e.key, name |-> Padded(e.name)],
                 [snd[s] EXCEPT !.i = @ + 1])

\* All records are sent, or a send fails as the other side is gone.
CloseSender(s) ==
  /\ \/ snd[s].at = "records" /\ snd[s].i >= snd[s].n
     \/ snd[s].at # "idle" /\ power[To(s)] # "on"
  /\ snd' = [snd EXCEPT ![s] = IdleSender]
  /\ UNCHANGED <<power, known, chan, rcv>>

\* The other side is gone, having read everything.  The kernel takes the next
\* message all the same; the connection is reset in answer to it.
SendToNobody(s) ==
  /\ power[To(s)] # "on" /\ ~snd[s].reset
  /\ \/ /\ snd[s].at = "intro"
        /\ snd' = [snd EXCEPT ![s].at = "count", ![s].reset = TRUE]
     \/ /\ snd[s].at = "count"
        /\ snd' = [snd EXCEPT ![s] = [at |-> "records", i |-> 0,
                                      n |-> Len(known[s[1]]), reset |-> TRUE]]
     \/ /\ snd[s].at = "records" /\ snd[s].i < snd[s].n
        /\ snd' = [snd EXCEPT ![s].i = @ + 1, ![s].reset = TRUE]
  /\ UNCHANGED <<power, known, chan, rcv>>

\* A further send raises SIGPIPE, which nothing handles or blocks: the whole
\* process of the sender dies.
BrokenPipe(s) ==
  /\ snd[s].reset
  /\ snd[s].at = "records" => snd[s].i < snd[s].n
  /\ Stop(s[1], "killed")

-----------------------------------------------------------------------------
(* connection_handler                                                      *)

\* Mutant: the comparison of the key is missing.
FindAny(p, k) == IF known[p] # << >> THEN 1 ELSE 0

\* get_known_peer: the first entry with the key, or 0.
Find(p, k) ==
  IF k \in Keys(p)
  THEN CHOOSE i \in DOMAIN known[p] :
         known[p][i].key = k /\ \A j \in 1..(i - 1) : known[p][j].key # k
  ELSE 0

\* Mutant: a new peer is named and a listed one is inserted.
DecisionSwapped(p, k, n) ==
  LET i == Find(p, k)
  IN  IF i = 0 THEN [op |-> "name", at |-> i, name |-> n]
      ELSE [op |-> "insert", key |-> k, name |-> n]

\* What the look-up of a record decides: insert it, name its entry, or skip.
Decision(p, k, n) ==
  LET i == Find(p, k)
  IN  IF i = 0 THEN [op |-> "insert", key |-> k, name |-> n]
      ELSE IF known[p][i].name = Unnamed THEN [op |-> "name", at |-> i, name |-> n]
      ELSE Nothing

\* The handler takes the next message and becomes h.
Receive(s, h) ==
  /\ rcv[s].todo = Nothing
  /\ chan' = [chan EXCEPT ![s] = Tail(@)]
  /\ rcv' = [rcv EXCEPT ![s] = h]
  /\ UNCHANGED <<power, known, snd>>

RecvIntroduction(s) ==
  /\ rcv[s].at = "intro" /\ chan[s] # << >>
  /\ LET m == Head(chan[s])
     IN  Receive(s, [rcv[s] EXCEPT !.at = "count",
                                   !.todo = Decision(To(s), m.key, m.name)])

RecvCount(s) ==
  /\ rcv[s].at = "count" /\ chan[s] # << >>
  /\ Receive(s, [rcv[s] EXCEPT !.at = "records", !.left = Head(chan[s]).n])

\* Mutant: the receiver does not skip its own record.
RecvRecordAny(s) ==
  /\ rcv[s].at = "records" /\ rcv[s].left > 0 /\ chan[s] # << >>
  /\ LET m == Head(chan[s])
     IN  Receive(s, [rcv[s] EXCEPT !.left = @ - 1,
                                   !.todo = Decision(To(s), m.key, m.name)])

\* A record with the receiver's address on this connection is skipped.
RecvRecord(s) ==
  /\ rcv[s].at = "records" /\ rcv[s].left > 0 /\ chan[s] # << >>
  /\ LET m == Head(chan[s])
         d == IF m.key = s[2] THEN Nothing ELSE Decision(To(s), m.key, m.name)
     IN  Receive(s, [rcv[s] EXCEPT !.left = @ - 1, !.todo = d])

\* Mutant: list_insert puts the new node first.
StoreFirst(s) ==
  LET q == To(s)  d == rcv[s].todo
  IN  /\ d # Nothing
      /\ known' = [known EXCEPT ![q] =
           IF d.op = "insert" THEN <<Entry(d.key, d.name)>> \o @
                              ELSE [@ EXCEPT ![d.at].name = d.name]]
      /\ rcv' = [rcv EXCEPT ![s].todo = Nothing]
      /\ UNCHANGED <<power, snd, chan>>

\* list_insert, or the memcpy of the name, under the lock.
Store(s) ==
  LET q == To(s)  d == rcv[s].todo
  IN  /\ d # Nothing
      /\ known' = [known EXCEPT ![q] =
           IF d.op = "insert" THEN Append(@, Entry(d.key, d.name))
                              ELSE [@ EXCEPT ![d.at].name = d.name]]
      /\ rcv' = [rcv EXCEPT ![s].todo = Nothing]
      /\ UNCHANGED <<power, snd, chan>>

\* The announced records are there, or recv returns 0 as the sender closed.
CloseHandler(s) ==
  /\ rcv[s].at # "idle" /\ rcv[s].todo = Nothing
  /\ \/ rcv[s].at = "records" /\ rcv[s].left = 0
     \/ chan[s] = << >> /\ snd[s].at = "idle"
  /\ rcv' = [rcv EXCEPT ![s] = IdleHandler]
  /\ UNCHANGED <<power, known, snd, chan>>

-----------------------------------------------------------------------------
SenderStep(s) ==
  SendIntroduction(s) \/ SendCount(s) \/ SendRecord(s) \/ CloseSender(s)

SenderFails(s) == SendToNobody(s) \/ BrokenPipe(s)

HandlerStep(s) ==
  \/ RecvIntroduction(s) \/ RecvCount(s) \/ RecvRecord(s)
  \/ Store(s) \/ CloseHandler(s)

Next ==
  \/ \E p \in Peers : Start(p) \/ Exit(p)
  \/ \E s \in Sessions :
       Connect(s) \/ SenderStep(s) \/ SenderFails(s) \/ HandlerStep(s)

Spec == Init /\ [][Next]_vars

\* Every round thread keeps reaching every entry of its list, and a thread
\* that can go on does.  Connect needs strong fairness for the bound
\* MaxSessions alone: other sessions may use it up again and again.
FairSpec ==
  /\ Spec
  /\ \A s \in Sessions : /\ SF_vars(Connect(s))
                         /\ WF_vars(SenderStep(s))
                         /\ WF_vars(HandlerStep(s))

-----------------------------------------------------------------------------
Message ==
  [type : {"intro", "record"}, key : Addrs, name : Name]
    \cup [type : {"count"}, n : Nat]

Todo ==
  {Nothing} \cup [op : {"insert"}, key : Addrs, name : Name]
    \cup [op : {"name"}, at : Nat \ {0}, name : Name]

\* The type of every variable.
TypeOK ==
  /\ power \in [Peers -> {"off", "on", "exited", "killed"}]
  /\ known \in [Peers -> Seq([key : Addrs, name : Name])]
  /\ snd \in [Sessions -> [at : {"idle", "intro", "count", "records"},
                           i : Nat, n : Nat, reset : BOOLEAN]]
  /\ chan \in [Sessions -> Seq(Message)]
  /\ rcv \in [Sessions -> [at : {"idle", "intro", "count", "records"},
                           left : Nat, todo : Todo]]

\* Whoever connects to p does so at a, and nobody else is taken for it.
OnlyAddress(p, a) ==
  /\ Reaches[<<p, a>>] \in {p, Nobody}
  /\ \A s \in Sessions : /\ To(s) = p => s[2] = a
                         /\ From[s] = a => s[1] = p

\* A peer with one address does not list it: its records come back from the
\* others and are filtered (P2P.c:539-543).  A peer with more than one address
\* may list itself, under one, by what it hears on a connection to another.
NoSelf ==
  \A p \in Peers, a \in Addrs : OnlyAddress(p, a) => a \notin Keys(p)

\* A blank is put behind a name on every hop (P2P.c:107), but no peer takes
\* one in twice for the same address, so a name has at most one blank per
\* peer, and with few enough peers it fits into NAME_LENGTH.
PadBounded ==
  \A p \in Peers : \A i \in DOMAIN known[p] :
    known[p][i].name.pad <= Cardinality(Peers)

\* Those that introduce themselves with an address.
Owners(a) == {p \in Peers : \E s \in Sessions : s[1] = p /\ From[s] = a}

\* A listed name was sent by a peer that has the address itself, or is blank
\* (P2P.c:94-128, 163-172, 445-484, 505-557).
NameIsOwners ==
  \A p \in Peers : \A i \in DOMAIN known[p] :
    known[p][i].name.of \in Owners(known[p][i].key) \cup {Nobody}

\* Whatever way an entry came, over however many peers and addresses, its
\* address and its name are right (P2P.c:107, 163-172, 525-543).
EntriesTrue == NoSelf /\ PadBounded /\ NameIsOwners

\* After r records the receiver lists every one of the sender's first r
\* entries but the address it is reached at, and it lists the address the
\* sender has on the connection (P2P.c:464-557).
Transferred ==
  \A s \in Sessions :
    LET p == s[1]  q == To(s)  h == rcv[s]
    IN  /\ h.at \in {"count", "records"} /\ h.todo = Nothing => From[s] \in Keys(q)
        /\ h.at = "records" /\ snd[s].at = "records" /\ h.todo = Nothing =>
             \A i \in 1..(snd[s].n - h.left) :
               known[p][i].key \in Keys(q) \cup {s[2]}

\* Lists only grow, entries keep their key, and a name is never emptied
\* (P2P.c:474-484, 545-557).
ListsGrow ==
  [][\A p \in Peers : \A i \in DOMAIN known[p] :
       /\ i \in DOMAIN known'[p]
       /\ known'[p][i].key = known[p][i].key
       /\ known[p][i].name # Unnamed => known'[p][i].name # Unnamed]_vars

\* Every peer can be reached at every address of its own, from everywhere.
Routed ==
  /\ \A p, q \in Peers, a \in Addrs :
       Reaches[<<p, a>>] \in Peers /\ Reaches[<<p, a>>] = Reaches[<<q, a>>]
  /\ \A s \in Sessions : Reaches[<<To(s), From[s]>>] = s[1]

\* The peers that p can reach by its list.
Neighbours(p) == {Reaches[<<p, a>>] : a \in Keys(p)}

Connected ==
  \A S \in SUBSET Peers : S # {} /\ S # Peers =>
    \E p \in S, q \in Peers \ S : q \in Neighbours(p) \/ p \in Neighbours(q)

AllOn == \A p \in Peers : power[p] = "on"
Everyone == \A p \in Peers : Peers \ {p} \subseteq Neighbours(p)

\* Where addresses mean the same everywhere: once every peer runs and the lists
\* connect them all, every peer eventually lists every other, under one of its
\* addresses, unless a peer exits before (P2P.c:228-237, 464-557).
Converges == Routed => ((Connected /\ AllOn) ~> (Everyone \/ ~AllOn))
=============================================================================
