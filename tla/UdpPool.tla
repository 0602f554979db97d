------------------------------- MODULE UdpPool -------------------------------
(***************************************************************************)
(* The UDP server of week05 and its clients.  The server's main thread     *)
(* keeps a pool of threads filled; every thread reads one datagram from    *)
(* the shared socket, answers it, sleeps, and gives its slot back.  A      *)
(* client sends one request and blocks until a datagram comes back.        *)
(*                                                                         *)
(* The threads are never joined or detached, so each keeps its stack, and  *)
(* after enough requests pthread_create fails, whose result the server     *)
(* does not look at.  The network may lose, copy and reorder datagrams.    *)
(* What a request says is a value of `Values', and the reply repeats it.   *)
(***************************************************************************)
EXTENDS Naturals, Sequences, FiniteSets

CONSTANTS Clients, Values,
          THREAD_COUNTS, \* slots of the pool
          MaxFailures,   \* bound: how often pthread_create fails
          MaxQueue,      \* requests the server's socket buffers
          Lossy,         \* the network may lose datagrams
          MaxCopies,     \* bound: datagrams the network copies
          Nothing        \* a client has not been answered yet

ASSUME UdpPoolAssumption ==
  /\ THREAD_COUNTS \in Nat \ {0}
  /\ MaxFailures \in Nat /\ MaxCopies \in Nat
  /\ MaxQueue \in Nat \ {0}
  /\ Lossy \in BOOLEAN

Slots == 1..THREAD_COUNTS

VARIABLES
  thread_used, \* per slot
  next,        \* the slot the main thread looks at
  work,        \* per slot: its thread, with its client_addr and data_buffer
  lost,        \* history: the slots for which pthread_create failed
  inbox,       \* the server's socket
  net,         \* datagrams on their way
  copied,      \* history: datagrams that were copied
  cpc,         \* per client: it prompts, or waits in recvfrom
  asked, got   \* per client: the last request and the last answer

poolVars   == <<thread_used, next, work, lost>>
netVars    == <<inbox, net, copied>>
clientVars == <<cpc, asked, got>>
vars == <<poolVars, netVars, clientVars>>

Data == [by : Clients, val : Values]
RequestFrom(d) == [type |-> "request", peer |-> d.by, data |-> d]
ReplyTo(c, d)  == [type |-> "reply", peer |-> c, data |-> d]
Datagram == [type : {"request", "reply"}, peer : Clients, data : Data]

NoThread == [at |-> "none"]
Receiving == [at |-> "recv"]

Init ==
  /\ thread_used = [i \in Slots |-> FALSE]
  /\ next = 1
  /\ work = [i \in Slots |-> NoThread]
  /\ lost = {}
  /\ inbox = << >> /\ net = {} /\ copied = 0
  /\ cpc = [c \in Clients |-> "prompt"]
  /\ asked = [c \in Clients |-> Nothing]
  /\ got = [c \in Clients |-> Nothing]

-----------------------------------------------------------------------------
(* setup_udp_server_communication, the main thread                         *)

Advance == next' = IF next = THREAD_COUNTS THEN 1 ELSE next + 1

SkipSlot ==
  /\ thread_used[next]
  /\ Advance
  /\ UNCHANGED <<thread_used, work, lost, netVars, clientVars>>

StartThread ==
  /\ ~thread_used[next]
  /\ Advance
  /\ thread_used' = [thread_used EXCEPT ![next] = TRUE]
  /\ work' = [work EXCEPT ![next] = Receiving]
  /\ UNCHANGED <<lost, netVars, clientVars>>

\* pthread_create fails, and the slot stays used.
StartFails ==
  /\ ~thread_used[next]
  /\ Cardinality(lost) < MaxFailures
  /\ Advance
  /\ thread_used' = [thread_used EXCEPT ![next] = TRUE]
  /\ lost' = lost \cup {next}
  /\ UNCHANGED <<work, netVars, clientVars>>

-----------------------------------------------------------------------------
(* connection_handler, one thread of the pool                              *)

\* Mutants: data_buffer is global, as in week04; client_addr is too.
RecvSharedBuffer(i) ==
  /\ work[i] = Receiving /\ inbox # << >>
  /\ LET d == Head(inbox)
     IN  work' = [j \in Slots |->
           IF j = i THEN [at |-> "reply", addr |-> d.peer, data |-> d.data]
           ELSE IF work[j].at = "reply" THEN [work[j] EXCEPT !.data = d.data]
           ELSE work[j]]
  /\ inbox' = Tail(inbox)
  /\ UNCHANGED <<thread_used, next, lost, net, copied, clientVars>>

RecvShared(i) ==
  /\ work[i] = Receiving /\ inbox # << >>
  /\ LET d == Head(inbox)
         w == [at |-> "reply", addr |-> d.peer, data |-> d.data]
     IN  work' = [j \in Slots |->
           IF j = i \/ work[j].at = "reply" THEN w ELSE work[j]]
  /\ inbox' = Tail(inbox)
  /\ UNCHANGED <<thread_used, next, lost, net, copied, clientVars>>

\* recvfrom: one of the waiting threads gets the first datagram.
Recv(i) ==
  /\ work[i] = Receiving
  /\ inbox # << >>
  /\ LET d == Head(inbox)
     IN  work' = [work EXCEPT ![i] =
                    [at |-> "reply", addr |-> d.peer, data |-> d.data]]
  /\ inbox' = Tail(inbox)
  /\ UNCHANGED <<thread_used, next, lost, net, copied, clientVars>>

\* Mutant: the thread answers in a loop.
ReplyAgain(i) ==
  /\ work[i].at = "reply"
  /\ net' = net \cup {ReplyTo(work[i].addr, work[i].data)}
  /\ UNCHANGED <<poolVars, inbox, copied, clientVars>>

\* parse_input and sendto.
Reply(i) ==
  /\ work[i].at = "reply"
  /\ net' = net \cup {ReplyTo(work[i].addr, work[i].data)}
  /\ work' = [work EXCEPT ![i] = [at |-> "sleep"]]
  /\ UNCHANGED <<thread_used, next, lost, inbox, copied, clientVars>>

\* Mutant: thread_used is not reset.
FinishUsed(i) ==
  /\ work[i].at = "sleep"
  /\ work' = [work EXCEPT ![i] = NoThread]
  /\ UNCHANGED <<thread_used, next, lost, netVars, clientVars>>

\* After sleep(10): thread_used[t_args->tid] = 0, and pthread_exit.
Finish(i) ==
  /\ work[i].at = "sleep"
  /\ work' = [work EXCEPT ![i] = NoThread]
  /\ thread_used' = [thread_used EXCEPT ![i] = FALSE]
  /\ UNCHANGED <<next, lost, netVars, clientVars>>

-----------------------------------------------------------------------------
(* The network and the sockets                                             *)

\* A request reaches the server's socket, which drops it when it is full.
Deliver(d) ==
  /\ d \in net /\ d.type = "request"
  /\ net' = net \ {d}
  /\ inbox' = IF Len(inbox) < MaxQueue THEN Append(inbox, d) ELSE inbox
  /\ UNCHANGED <<poolVars, copied, clientVars>>

\* A copy of a request reaches the server's socket.
DeliverCopy(d) ==
  /\ d \in net /\ d.type = "request"
  /\ copied < MaxCopies /\ Len(inbox) < MaxQueue
  /\ inbox' = Append(inbox, d)
  /\ copied' = copied + 1
  /\ UNCHANGED <<poolVars, net, clientVars>>

Lose(d) ==
  /\ Lossy /\ d \in net
  /\ net' = net \ {d}
  /\ UNCHANGED <<poolVars, inbox, copied, clientVars>>

-----------------------------------------------------------------------------
(* The client's setup_udp_communication                                    *)

\* The user types a request, and it is sent.
Ask(c) ==
  /\ cpc[c] = "prompt"
  /\ \E v \in Values :
       LET d == [by |-> c, val |-> v]
       IN  /\ asked' = [asked EXCEPT ![c] = d]
           /\ net' = net \cup {RequestFrom(d)}
  /\ cpc' = [cpc EXCEPT ![c] = "wait"]
  /\ UNCHANGED <<poolVars, inbox, copied, got>>

\* recvfrom returns, with whatever datagram came to the client's port.
Answered(c, d) ==
  /\ cpc[c] = "wait"
  /\ d \in net /\ d.type = "reply" /\ d.peer = c
  /\ net' = net \ {d}
  /\ got' = [got EXCEPT ![c] = d.data]
  /\ cpc' = [cpc EXCEPT ![c] = "prompt"]
  /\ UNCHANGED <<poolVars, inbox, copied, asked>>

-----------------------------------------------------------------------------
MainStep == SkipSlot \/ StartThread \/ StartFails
ThreadStep(i) == Recv(i) \/ Reply(i) \/ Finish(i)
Arrive(c) ==
  \E d \in net : d.peer = c /\ (Deliver(d) \/ DeliverCopy(d) \/ Answered(c, d))

Next ==
  \/ MainStep
  \/ \E i \in Slots : ThreadStep(i)
  \/ \E c \in Clients : Ask(c) \/ Arrive(c)
  \/ \E d \in net : Lose(d)

Spec == Init /\ [][Next]_vars

\* Threads are scheduled and what the network does not lose arrives; users
\* need not type.
FairSpec ==
  /\ Spec
  /\ WF_vars(MainStep)
  /\ \A i \in Slots : WF_vars(ThreadStep(i))
  /\ \A c \in Clients : WF_vars(Arrive(c))

-----------------------------------------------------------------------------
Thread ==
  {NoThread, Receiving, [at |-> "sleep"]}
    \cup [at : {"reply"}, addr : Clients, data : Data]

\* The type of every variable.
TypeOK ==
  /\ thread_used \in [Slots -> BOOLEAN]
  /\ next \in Slots
  /\ work \in [Slots -> Thread]
  /\ lost \subseteq Slots
  /\ inbox \in Seq(Datagram)
  /\ net \subseteq Datagram
  /\ copied \in Nat
  /\ cpc \in [Clients -> {"prompt", "wait"}]
  /\ asked \in [Clients -> Data \cup {Nothing}]
  /\ got \in [Clients -> Data \cup {Nothing}]

\* A slot is marked used exactly while its thread runs, or for good when the
\* thread could not be started: no slot gets a second thread, whose arguments
\* would overwrite those of the first, and none is lost in another way
\* (server.c:60, 141-147).
SlotsAccounted ==
  \A i \in Slots :
    /\ thread_used[i] <=> work[i] # NoThread \/ i \in lost
    /\ i \in lost => work[i] = NoThread

\* A client is answered with its own data, however many threads read the
\* one socket at the same time and in whatever order they go on
\* (server.c:26-53).
NoCrossTalk ==
  /\ \A d \in net : d.peer = d.data.by
  /\ \A c \in Clients : got[c] # Nothing => got[c].by = c

\* What makes that inductive: whoever holds a datagram holds its sender's.
Owned ==
  /\ NoCrossTalk
  /\ \A n \in DOMAIN inbox : inbox[n].peer = inbox[n].data.by
  /\ \A i \in Slots : work[i].at = "reply" => work[i].addr = work[i].data.by

\* A client's requests and answers that are on the way.
Places(c) ==
  Cardinality({d \in net : d.peer = c})
    + Cardinality({i \in DOMAIN inbox : inbox[i].peer = c})
    + Cardinality({i \in Slots : work[i].at = "reply" /\ work[i].addr = c})

\* As long as the network copies nothing, the answer a client shows is the
\* one to the request it has just sent: a request or its answer is in one
\* place at most, and nothing old is left when the next one is sent, whatever
\* was lost or reordered (server.c:39-53, client.c:67-89).
AnswersLatest ==
  copied = 0 =>
    \A c \in Clients :
      /\ cpc[c] = "prompt" => got[c] = asked[c]
      /\ Places(c) <= IF cpc[c] = "wait" THEN 1 ELSE 0

\* A request that has reached the server is answered, whatever the network does
\* afterwards with the answer, as long as not every slot of the pool is lost.
Asks(c) == \E i \in DOMAIN inbox : inbox[i].peer = c
Answers(c) == \E d \in net : d.type = "reply" /\ d.peer = c

RequestAnswered == \A c \in Clients : Asks(c) ~> (Answers(c) \/ lost = Slots)

\* "Server infinite loop for servicing the client" (server.c:138): the server
\* gets back to waiting for a request again and again, as long as not every slot
\* of the pool is lost.  When pthread_create has failed for all of them, main
\* spins and nobody receives any more (server.c:59-61, 138-149).
Waits == \E i \in Slots : work[i] = Receiving
ServesOnOneSlot == []<>(Waits \/ lost = Slots)
=============================================================================
