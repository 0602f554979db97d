----------------------------- MODULE TcpService ------------------------------
(***************************************************************************)
(* The TCP server of week04 and its clients.  The server serves one client *)
(* at a time: it accepts a connection, answers one request after the other *)
(* and closes it when the client is gone or asks for it (age 0).  The next *)
(* connections wait in the kernel's queue.                                 *)
(*                                                                         *)
(* A connection is a pair of byte streams, so recvfrom may return a part   *)
(* of a message, or the rest of one and the next.  A request (a            *)
(* student_struct_t) is a stream of three pieces, the names, the age and   *)
(* the group.  The value of a request stands for what the user typed, 0    *)
(* for an age of 0.  A reply is the whole result struct of the server, in  *)
(* two halves.  It is never cleared: behind the NUL of an answer lies what *)
(* longer answers, also those for others, have left there, and it is sent. *)
(* The server of week03 runs the same loop, with two integers for a        *)
(* request and their sum.                                                  *)
(***************************************************************************)
EXTENDS Naturals, Sequences, FiniteSets

CONSTANTS Clients,
          Values,    \* what users type
          Backlog,   \* connections listen lets wait
          MaxSplits, \* bound: reads that return less than has been sent
          Zero,      \* a part of data_buffer that memset cleared
          Nobody, Nothing

ASSUME TcpServiceAssumption ==
  /\ Values \subseteq Nat
  /\ Backlog \in Nat \ {0}
  /\ MaxSplits \in Nat
  /\ Nobody \notin Clients

VARIABLES
  spc,         \* where the server is: "select", "recv", "reply", or ended
  serving,     \* the client behind comm_socket_fd
  data_buffer, \* its three parts
  left,        \* whose bytes may be in the server's result struct
  queue,       \* connections that wait for accept
  ctos, stoc,  \* per client: the two streams of its connection
  sEnd, cEnd,  \* per client: what each side knows of the other, see below
  cpc,         \* per client: where it is
  asked,       \* per client: the last request
  result,      \* per client: the two halves of its result struct
  heard,       \* history, per client: the last recvfrom brought data
  splits

serverVars == <<spc, serving, data_buffer, left>>
linkVars   == <<queue, ctos, stoc, sEnd, cEnd>>
clientVars == <<cpc, asked, result, heard>>
vars == <<serverVars, linkVars, clientVars, splits>>

\* An end of a connection is "up"; "fin" when the other side has closed in
\* order; "cut" when a reset has arrived and no call has reported it yet;
\* "dead" when it was reported, or was the answer to something sent after
\* "fin", or when there never was a connection.
Ends == {"up", "fin", "cut", "dead"}

Parts == 1..3
AgePart == 2
Piece == [part : Parts, by : Clients, val : Values]
Request(c, v) == [p \in Parts |-> [part |-> p, by |-> c, val |-> v]]
Buffer == [Parts -> Piece \cup {Zero}]
Cleared == [p \in Parts |-> Zero]

\* A half of the result struct: what it has of the answer, if the answer is
\* that long, and whose bytes may lie behind it.
Half == [half : {1, 2}, info : Buffer \cup {Nothing}, behind : SUBSET Clients]

\* A client's result struct before its first answer.
Untouched == [i \in 1..2 |-> [half |-> i, info |-> Nothing, behind |-> {}]]

Init ==
  /\ spc = "select" /\ serving = Nobody /\ data_buffer = Cleared
  /\ left = {}
  /\ queue = << >>
  /\ ctos = [c \in Clients |-> << >>]
  /\ stoc = [c \in Clients |-> << >>]
  /\ sEnd = [c \in Clients |-> "dead"]
  /\ cEnd = [c \in Clients |-> "dead"]
  /\ cpc = [c \in Clients |-> "off"]
  /\ asked = [c \in Clients |-> Nothing]
  /\ result = [c \in Clients |-> Untouched]
  /\ heard = [c \in Clients |-> FALSE]
  /\ splits = 0

-----------------------------------------------------------------------------
(* Sockets                                                                 *)

\* The other end after one end is closed with `unread' still to be read.
AfterClose(end, unread) ==
  IF end # "up" THEN end ELSE IF unread # << >> THEN "cut" ELSE "fin"

\* The ends that may be left by a send on `end'; on a dead end it raises
\* SIGPIPE, which ends the process.
AfterSend(end) ==
  CASE end = "up"  -> {"up"}
    [] end = "fin" -> {"fin", "dead"}
    [] OTHER       -> {"dead"}

\* How much of a stream recvfrom may return: all of it, unless it is split.
Portions(stream) ==
  {k \in 1..Len(stream) : k < Len(stream) => splits < MaxSplits}

CountSplit(stream, k) == splits' = IF k < Len(stream) THEN splits + 1 ELSE splits

Rest(stream, k) == SubSeq(stream, k + 1, Len(stream))

-----------------------------------------------------------------------------
(* The server                                                              *)

\* Mutant: the result of accept is not kept.
AcceptUnkept ==
  /\ spc = "select" /\ queue # << >>
  /\ spc' = "recv"
  /\ queue' = Tail(queue)
  /\ UNCHANGED <<serving, data_buffer, left, ctos, stoc, sEnd, cEnd, clientVars, splits>>

Accept ==
  /\ spc = "select" /\ queue # << >>
  /\ spc' = "recv" /\ serving' = Head(queue)
  /\ queue' = Tail(queue)
  /\ UNCHANGED <<data_buffer, left, ctos, stoc, sEnd, cEnd, clientVars, splits>>

\* The process ends, and the kernel resets what still waits.
ServerEnds(how) ==
  /\ spc' = how
  /\ queue' = << >>
  /\ cEnd' = [c \in Clients |-> IF cEnd[c] = "up" THEN "cut" ELSE cEnd[c]]
  /\ sEnd' = [c \in Clients |-> "dead"]
  /\ ctos' = [c \in Clients |-> << >>]
  /\ UNCHANGED <<serving, data_buffer, left, stoc, clientVars, splits>>

\* accept fails: exit(0).
AcceptFails == spc = "select" /\ queue # << >> /\ ServerEnds("exited")

\* close(comm_socket_fd), and back to select; `unread' is left on it.
CloseConnection(unread) ==
  /\ spc' = "select" /\ serving' = Nobody
  /\ ctos' = [ctos EXCEPT ![serving] = << >>]
  /\ sEnd' = [sEnd EXCEPT ![serving] = "dead"]
  /\ cEnd' = [cEnd EXCEPT ![serving] = AfterClose(@, unread)]

\* What the server may read as the age: bytes that are out of step with the
\* message may be anything, a cleared part is 0.
Ages(b) ==
  CASE b[AgePart] = Zero         -> {0}
    [] b[AgePart].part = AgePart -> {b[AgePart].val}
    [] OTHER                     -> {0, 1}

\* Mutant: data_buffer is not cleared before recvfrom.
FilledOver(stream, k) ==
  [p \in Parts |-> IF p <= k THEN stream[p] ELSE data_buffer[p]]

Filled(stream, k) == [p \in Parts |-> IF p <= k THEN stream[p] ELSE Zero]

\* recvfrom brings data: an age of 0 closes the connection.
Recv ==
  /\ spc = "recv"
  /\ \E k \in Portions(ctos[serving]) :
       /\ data_buffer' = Filled(ctos[serving], k)
       /\ CountSplit(ctos[serving], k)
       /\ \E age \in Ages(Filled(ctos[serving], k)) :
            \/ /\ age # 0
               /\ spc' = "reply"
               /\ ctos' = [ctos EXCEPT ![serving] = Rest(@, k)]
               /\ UNCHANGED <<serving, sEnd, cEnd>>
            \/ /\ age = 0
               /\ CloseConnection(Rest(ctos[serving], k))
  /\ UNCHANGED <<left, queue, stoc, clientVars>>

\* Mutant: the end of the stream does not end the loop.
RecvEndContinue ==
  /\ spc = "recv" /\ ctos[serving] = << >> /\ sEnd[serving] = "fin"
  /\ data_buffer' = Cleared
  /\ UNCHANGED <<spc, serving, left, linkVars, clientVars, splits>>

\* recvfrom returns 0: the client has closed.
RecvEnd ==
  /\ spc = "recv" /\ ctos[serving] = << >> /\ sEnd[serving] = "fin"
  /\ data_buffer' = Cleared
  /\ CloseConnection(<< >>)
  /\ UNCHANGED <<left, queue, stoc, clientVars, splits>>

\* recvfrom returns -1, which is not looked at: the cleared data_buffer has
\* an age of 0, so the connection is closed.
RecvError ==
  /\ spc = "recv" /\ ctos[serving] = << >> /\ sEnd[serving] \in {"cut", "dead"}
  /\ data_buffer' = Cleared
  /\ CloseConnection(<< >>)
  /\ UNCHANGED <<left, queue, stoc, clientVars, splits>>

\* parse_input writes the answer over the start of the result struct, with its
\* NUL in half n, and leaves behind it what was there.
Answer(n) ==
  [i \in 1..2 |-> [half   |-> i,
                   info   |-> IF i <= n THEN data_buffer ELSE Nothing,
                   behind |-> IF i < n THEN {} ELSE left]]

\* parse_input and sendto, which sends the whole struct.
Reply ==
  /\ spc = "reply" /\ sEnd[serving] # "dead"
  /\ spc' = "recv"
  /\ left' = left \cup {serving}
  /\ \E n \in 1..2 :
       stoc' = IF sEnd[serving] # "up" THEN stoc
               ELSE [stoc EXCEPT ![serving] = @ \o Answer(n)]
  /\ \E e \in AfterSend(sEnd[serving]) : sEnd' = [sEnd EXCEPT ![serving] = e]
  /\ UNCHANGED <<serving, data_buffer, queue, ctos, cEnd, clientVars, splits>>

\* sendto on a dead connection: SIGPIPE.
BrokenPipe ==
  spc = "reply" /\ sEnd[serving] = "dead" /\ ServerEnds("killed")

-----------------------------------------------------------------------------
(* The client                                                              *)

ClientGoes(c, from, to) == cpc[c] = from /\ cpc' = [cpc EXCEPT ![c] = to]

Listening == spc \notin {"exited", "killed"}

Connect(c) ==
  /\ ClientGoes(c, "off", "prompt")
  /\ Listening /\ Len(queue) < Backlog
  /\ queue' = Append(queue, c)
  /\ sEnd' = [sEnd EXCEPT ![c] = "up"]
  /\ cEnd' = [cEnd EXCEPT ![c] = "up"]
  /\ UNCHANGED <<serverVars, ctos, stoc, asked, result, heard, splits>>

\* connect is refused or times out, which is not looked at.
ConnectFails(c) ==
  /\ ClientGoes(c, "off", "prompt")
  /\ Listening => Len(queue) >= Backlog
  /\ UNCHANGED <<serverVars, linkVars, asked, result, heard, splits>>

\* The user types v, and it is sent.
Ask(c, v) ==
  /\ cpc[c] = "prompt"
  /\ cpc' = [cpc EXCEPT ![c] = IF cEnd[c] = "dead" THEN "gone" ELSE "wait"]
  /\ asked' = [asked EXCEPT ![c] = v]
  /\ ctos' = IF cEnd[c] # "up" THEN ctos
             ELSE [ctos EXCEPT ![c] = @ \o Request(c, v)]
  /\ \E e \in AfterSend(cEnd[c]) : cEnd' = [cEnd EXCEPT ![c] = e]
  /\ UNCHANGED <<serverVars, queue, stoc, sEnd, result, heard, splits>>

\* The result struct has room for one answer.
Arrived(c) == SubSeq(stoc[c], 1, IF Len(stoc[c]) < 2 THEN Len(stoc[c]) ELSE 2)

Overwritten(old, stream, k) == [i \in 1..2 |-> IF i <= k THEN stream[i] ELSE old[i]]

\* Mutant: the client does not wait for the reply.
RecvReplyEarly(c) ==
  /\ ClientGoes(c, "wait", "prompt")
  /\ LET k == Len(Arrived(c))
     IN  /\ result' = [result EXCEPT ![c] = Overwritten(@, Arrived(c), k)]
         /\ stoc' = [stoc EXCEPT ![c] = Rest(@, k)]
  /\ heard' = [heard EXCEPT ![c] = TRUE]
  /\ UNCHANGED <<serverVars, queue, ctos, sEnd, cEnd, asked, splits>>

\* recvfrom fills the result struct from its start.
RecvReply(c) ==
  /\ ClientGoes(c, "wait", "prompt")
  /\ \E k \in Portions(Arrived(c)) :
       /\ result' = [result EXCEPT ![c] = Overwritten(@, Arrived(c), k)]
       /\ stoc' = [stoc EXCEPT ![c] = Rest(@, k)]
       /\ CountSplit(Arrived(c), k)
  /\ heard' = [heard EXCEPT ![c] = TRUE]
  /\ UNCHANGED <<serverVars, queue, ctos, sEnd, cEnd, asked>>

\* recvfrom returns 0 or -1, which is not looked at: the client shows the
\* result it had before.
RecvNothing(c) ==
  /\ ClientGoes(c, "wait", "prompt")
  /\ stoc[c] = << >> /\ cEnd[c] # "up"
  /\ cEnd' = [cEnd EXCEPT ![c] = IF @ = "fin" THEN "fin" ELSE "dead"]
  /\ heard' = [heard EXCEPT ![c] = FALSE]
  /\ UNCHANGED <<serverVars, queue, ctos, stoc, sEnd, asked, result, splits>>

\* The user stops the client.
Quit(c) ==
  /\ cpc[c] \in {"prompt", "wait"}
  /\ cpc' = [cpc EXCEPT ![c] = "gone"]
  /\ stoc' = [stoc EXCEPT ![c] = << >>]
  /\ cEnd' = [cEnd EXCEPT ![c] = "dead"]
  /\ sEnd' = [sEnd EXCEPT ![c] = AfterClose(@, stoc[c])]
  /\ UNCHANGED <<serverVars, queue, ctos, asked, result, heard, splits>>

-----------------------------------------------------------------------------
ServerStep == Accept \/ Recv \/ RecvEnd \/ RecvError \/ Reply \/ BrokenPipe

ClientRecv(c) == RecvReply(c) \/ RecvNothing(c)

Next ==
  \/ ServerStep \/ AcceptFails
  \/ \E c \in Clients :
       \/ Connect(c) \/ ConnectFails(c) \/ ClientRecv(c) \/ Quit(c)
       \/ \E v \in Values : Ask(c, v)

Spec == Init /\ [][Next]_vars

\* The server and what waits in recvfrom are scheduled; nobody need type.
FairSpec ==
  /\ Spec
  /\ WF_vars(ServerStep)
  /\ \A c \in Clients : WF_vars(ClientRecv(c))

-----------------------------------------------------------------------------
\* The type of every variable.
TypeOK ==
  /\ spc \in {"select", "recv", "reply", "exited", "killed"}
  /\ serving \in Clients \cup {Nobody}
  /\ spc \in {"recv", "reply"} => serving \in Clients
  /\ data_buffer \in Buffer
  /\ left \in SUBSET Clients
  /\ queue \in Seq(Clients)
  /\ ctos \in [Clients -> Seq(Piece)]
  /\ stoc \in [Clients -> Seq(Half)]
  /\ sEnd \in [Clients -> Ends] /\ cEnd \in [Clients -> Ends]
  /\ cpc \in [Clients -> {"off", "prompt", "wait", "gone"}]
  /\ asked \in [Clients -> Values \cup {Nothing}]
  /\ \A c \in Clients : \A i \in 1..2 : result[c][i] \in Half
  /\ heard \in [Clients -> BOOLEAN]
  /\ splits \in Nat

\* The one data_buffer of the server never carries a client's data into the
\* text of the answer for the next, not even when a message arrives in parts
\* (server.c:154, 162-195).  What lies behind the NUL of the text is another
\* matter: it is sent too, and may be anybody's (`behind').
Own(c, b) == \A p \in Parts : b[p] # Zero => b[p].by = c
OwnText(c, h) == h.info # Nothing => Own(c, h.info)

NoCrossTalk ==
  /\ spc = "reply" => Own(serving, data_buffer)
  /\ \A c \in Clients : \A i \in 1..Len(stoc[c]) : OwnText(c, stoc[c][i])
  /\ \A c \in Clients : \A i \in 1..2 : OwnText(c, result[c][i])

\* The server never sends on a connection that is known to be gone, which
\* would kill it: whatever recvfrom fails with, the cleared data_buffer makes
\* it close (server.c:154-188).
ServerSurvives ==
  /\ spc = "reply" => sEnd[serving] # "dead"
  /\ spc # "killed"

\* The text that starts in x[1] and goes on in x[2], if that is not all of it,
\* answers the request b.
IsAnswer(x, b) ==
  /\ x[1].half = 1 /\ x[1].info = b
  /\ x[2].half = 2 /\ x[2].info \in {b, Nothing}

\* What a client shows as the result, up to the NUL, is the answer to what it
\* has just sent (client.c:73-95).
ResultIsAnswer ==
  \A c \in Clients : cpc[c] = "prompt" /\ heard[c] =>
    IsAnswer(result[c], Request(c, asked[c]))

\* Both hold as long as messages arrive whole.  With parts neither does: a
\* client that has taken half an answer for a whole one runs ahead, and dies
\* leaving two requests behind.
WholeMessages == splits = 0 => ServerSurvives /\ ResultIsAnswer

\* If users do not stay for ever, every waiting connection is accepted, in
\* whatever way the clients before it went, unless the server ends before:
\* as accept fails, or by SIGPIPE (server.c:128-188).
Waiting(c) == \E i \in DOMAIN queue : queue[i] = c

EveryoneAccepted ==
  (\A c \in Clients : []<>(cpc[c] \in {"off", "gone"})) =>
    \A c \in Clients : Waiting(c) ~> (serving = c \/ ~Listening)
=============================================================================
