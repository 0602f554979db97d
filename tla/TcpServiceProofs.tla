--------------------------- MODULE TcpServiceProofs ---------------------------
(***************************************************************************)
(* Proofs about TcpService, for any clients, values and backlog, and       *)
(* recvfrom returning any part of what has been sent.                      *)
(***************************************************************************)
EXTENDS TcpService, SequenceTheorems, TLAPS

Replying(c) == spc = "reply" /\ serving = c

\* No message of client c is under way, ...
Quiet(c) == ctos[c] = << >> /\ stoc[c] = << >> /\ ~Replying(c)

\* ... its request is, the server works on it, ...
Sent(c) ==
  /\ ctos[c] = Request(c, asked[c]) /\ stoc[c] = << >>
  /\ ~Replying(c) /\ cEnd[c] = "up"

Served(c) ==
  /\ ctos[c] = << >> /\ stoc[c] = << >>
  /\ Replying(c) /\ data_buffer = Request(c, asked[c]) /\ cEnd[c] = "up"

\* ... or the answer is.
Answered(c) ==
  /\ ctos[c] = << >> /\ Len(stoc[c]) = 2 /\ IsAnswer(stoc[c], Request(c, asked[c]))
  /\ ~Replying(c)

\* The ends of a connection that is up agree, and the server has nothing to
\* read, and nothing to send, on one that it can no longer use.
Linked(c) ==
  /\ cEnd[c] = "up" <=> sEnd[c] = "up"
  /\ sEnd[c] \in {"cut", "dead"} => ctos[c] = << >> /\ ~Replying(c)

InStep(c) ==
  /\ Linked(c)
  /\ cpc[c] = "off" => Quiet(c) /\ ~heard[c]
  /\ cpc[c] = "prompt" =>
       Quiet(c) /\ (heard[c] => IsAnswer(result[c], Request(c, asked[c])))
  /\ cpc[c] = "wait" =>
       asked[c] \in Values /\ (Quiet(c) \/ Sent(c) \/ Served(c) \/ Answered(c))
  /\ cpc[c] = "gone" =>
       /\ cEnd[c] = "dead"
       /\ ctos[c] # << >> => asked[c] \in Values /\ ctos[c] = Request(c, asked[c])
       /\ Replying(c) => ctos[c] = << >>

\* Every piece is the client's whose connection it is on.
OwnStreams == \A c \in Clients : \A i \in 1..Len(ctos[c]) : ctos[c][i].by = c

Types == TypeOK /\ result \in [Clients -> [1..2 -> Half]]

Base == Types /\ OwnStreams /\ NoCrossTalk

\* What holds as long as messages arrive whole.
Whole == splits = 0 => spc # "killed" /\ \A c \in Clients : InStep(c)

IInv == Base /\ Whole

-----------------------------------------------------------------------------
(* Messages and streams                                                    *)

LEMMA SplitsCount ==
  ASSUME TypeOK, NEW stream, NEW k, CountSplit(stream, k)
  PROVE  splits' \in Nat /\ (splits' = 0 => splits = 0 /\ ~(k < Len(stream)))
  BY DEF CountSplit, TypeOK

LEMMA RequestIs ==
  ASSUME NEW c \in Clients, NEW v \in Values
  PROVE  /\ Request(c, v) \in Seq(Piece) /\ Len(Request(c, v)) = 3
         /\ Request(c, v) \in Buffer /\ Request(c, v) # << >>
         /\ \A p \in 1..3 : Request(c, v)[p].by = c
         /\ Own(c, Request(c, v))
  <1>1. Request(c, v) \in [1..3 -> Piece]
    BY DEF Request, Piece, Parts
  <1>2. Request(c, v) \in Seq(Piece)
    BY <1>1, SeqDef
  <1>3. DOMAIN Request(c, v) = 1..3 /\ DOMAIN Request(c, v) = 1..Len(Request(c, v))
    BY <1>1, <1>2, LenProperties
  <1>4. Len(Request(c, v)) = 3
    BY <1>2, <1>3, LenProperties
  <1>5. \A p \in 1..3 : Request(c, v)[p].by = c
    BY DEF Request, Parts
  <1>6. Request(c, v) \in Buffer
    BY <1>1 DEF Buffer, Parts
  <1>7. QED
    BY <1>2, <1>4, <1>5, <1>6, EmptySeq DEF Own, Parts

LEMMA AnswerIs ==
  ASSUME TypeOK, NEW n \in 1..2
  PROVE  /\ Answer(n) \in Seq(Half) /\ Len(Answer(n)) = 2
         /\ \A i \in 1..2 : Answer(n)[i].info \in {data_buffer, Nothing}
         /\ IsAnswer(Answer(n), data_buffer)
  <1>1. data_buffer \in Buffer /\ left \in SUBSET Clients
    BY DEF TypeOK
  <1>2. Answer(n) \in [1..2 -> Half]
    <2>1. ASSUME NEW i \in 1..2
          PROVE  /\ (IF i <= n THEN data_buffer ELSE Nothing) \in Buffer \cup {Nothing}
                 /\ (IF i < n THEN {} ELSE left) \in SUBSET Clients /\ i \in {1, 2}
      BY <1>1
    <2>2. \A i \in 1..2 : Answer(n)[i] =
            [half   |-> i,
             info   |-> IF i <= n THEN data_buffer ELSE Nothing,
             behind |-> IF i < n THEN {} ELSE left]
      BY DEF Answer
    <2>3. ASSUME NEW i \in 1..2 PROVE Answer(n)[i] \in Half
      BY <2>1, <2>2 DEF Half
    <2>4. Answer(n) = [i \in 1..2 |-> Answer(n)[i]]
      BY DEF Answer
    <2>5. QED
      BY <2>3, <2>4
  <1>3. Answer(n) \in Seq(Half)
    <2>1. \A x : x \in [1..2 -> Half] => x \in Seq(Half)
      <3>1. Seq(Half) = UNION {[1..m -> Half] : m \in Nat} /\ 2 \in Nat
        BY SeqDef
      <3> HIDE DEF Half
      <3>2. QED
        BY <3>1
    <2>2. QED
      BY <1>2, <2>1
  <1>4. DOMAIN Answer(n) = 1..2 /\ DOMAIN Answer(n) = 1..Len(Answer(n))
    BY <1>2, <1>3, LenProperties
  <1>5. Len(Answer(n)) = 2
    BY <1>3, <1>4, LenProperties
  <1>6. /\ \A i \in 1..2 : /\ Answer(n)[i].half = i
                           /\ Answer(n)[i].info \in {data_buffer, Nothing}
        /\ Answer(n)[1].info = data_buffer
    BY DEF Answer
  <1>7. QED
    BY <1>3, <1>5, <1>6 DEF IsAnswer

\* What is left of a stream of which k pieces have been read.
LEMMA RestIs ==
  ASSUME NEW S, NEW s \in Seq(S), NEW k \in 1..Len(s)
  PROVE  /\ Rest(s, k) \in Seq(S)
         /\ \A i \in 1..Len(Rest(s, k)) : \E j \in 1..Len(s) : Rest(s, k)[i] = s[j]
         /\ ~(k < Len(s)) => Rest(s, k) = << >>
  <1>1. Len(s) \in Nat /\ \A i \in 1..Len(s) : s[i] \in S
    BY LenProperties
  <1>2. k \in Nat /\ k + 1 \in Int /\ \A i \in k + 1 .. Len(s) : s[i] \in S
    BY <1>1
  <1>3. /\ Rest(s, k) \in Seq(S)
        /\ Len(Rest(s, k)) = IF k + 1 <= Len(s) THEN Len(s) - (k + 1) + 1 ELSE 0
        /\ \A i \in 1 .. Len(s) - (k + 1) + 1 : Rest(s, k)[i] = s[k + 1 + i - 1]
    BY <1>1, <1>2, SubSeqProperties DEF Rest
  <1>4. ASSUME NEW i \in 1..Len(Rest(s, k))
        PROVE  \E j \in 1..Len(s) : Rest(s, k)[i] = s[j]
    <2>1. i \in 1 .. Len(s) - (k + 1) + 1
      BY <1>1, <1>2, <1>3
    <2>2. k + 1 + i - 1 \in 1..Len(s) /\ Rest(s, k)[i] = s[k + 1 + i - 1]
      BY <1>1, <1>2, <1>3, <2>1
    <2>3. QED
      BY <2>2
  <1>5. ASSUME ~(k < Len(s)) PROVE Rest(s, k) = << >>
    <2>1. Len(Rest(s, k)) = 0
      BY <1>1, <1>2, <1>3, <1>5
    <2>2. QED
      BY <1>3, <2>1, EmptySeq
  <1>6. QED
    BY <1>3, <1>4, <1>5

\* A stream to which a message has been added.
LEMMA LongerIs ==
  ASSUME NEW S, NEW s \in Seq(S), NEW t \in Seq(S)
  PROVE  /\ s \o t \in Seq(S) /\ Len(s) \in Nat /\ Len(s \o t) = Len(s) + Len(t)
         /\ \A i \in 1 .. Len(s) + Len(t) :
              (s \o t)[i] = IF i <= Len(s) THEN s[i] ELSE t[i - Len(s)]
  BY ConcatProperties, LenProperties

LEMMA ArrivedIs ==
  ASSUME TypeOK, NEW c \in Clients
  PROVE  /\ Arrived(c) \in Seq(Half) /\ Len(Arrived(c)) \in 0..2
         /\ Len(Arrived(c)) <= Len(stoc[c])
         /\ \A i \in 1..Len(Arrived(c)) : Arrived(c)[i] = stoc[c][i]
         /\ Len(stoc[c]) = 2 => Len(Arrived(c)) = 2
  <1>1. /\ stoc[c] \in Seq(Half) /\ Len(stoc[c]) \in Nat
        /\ \A i \in 1..Len(stoc[c]) : stoc[c][i] \in Half
    BY LenProperties DEF TypeOK
  <1> DEFINE m == IF Len(stoc[c]) < 2 THEN Len(stoc[c]) ELSE 2
  <1>2. m \in 0..2 /\ m <= Len(stoc[c]) /\ (Len(stoc[c]) = 2 => m = 2)
    <2>1. \A l \in Nat : LET k == IF l < 2 THEN l ELSE 2
                         IN  k \in 0..2 /\ k <= l /\ (l = 2 => k = 2)
      OBVIOUS
    <2>2. Len(stoc[c]) \in Nat
      BY <1>1
    <2>3. QED
      BY <2>1, <2>2
  <1>3. Arrived(c) = SubSeq(stoc[c], 1, m)
    BY DEF Arrived
  <1> HIDE DEF m
  <1>4. \A i \in 1..m : stoc[c][i] \in Half
    BY <1>1, <1>2
  <1>5. /\ Arrived(c) \in Seq(Half) /\ Len(Arrived(c)) = IF 1 <= m THEN m - 1 + 1 ELSE 0
        /\ \A i \in 1 .. m - 1 + 1 : Arrived(c)[i] = stoc[c][1 + i - 1]
    BY <1>2, <1>3, <1>4, SubSeqProperties
  <1>6. Len(Arrived(c)) = m
    BY <1>2, <1>5
  <1>7. \A i \in 1..m : Arrived(c)[i] = stoc[c][i]
    BY <1>2, <1>5
  <1>8. QED
    BY <1>2, <1>5, <1>6, <1>7

\* The parts of the stream, and nothing else, get to data_buffer.
LEMMA FilledIs ==
  ASSUME NEW s \in Seq(Piece), NEW k \in 1..Len(s)
  PROVE  /\ Filled(s, k) \in Buffer
         /\ \A c : (\A i \in 1..Len(s) : s[i].by = c) => Own(c, Filled(s, k))
  <1>1. Len(s) \in Nat /\ \A i \in 1..Len(s) : s[i] \in Piece
    BY LenProperties
  <1>2. \A p \in Parts : p <= k => p \in 1..Len(s)
    BY <1>1 DEF Parts
  <1>3. QED
    BY <1>1, <1>2 DEF Filled, Buffer, Own

LEMMA FilledWhole ==
  ASSUME NEW c \in Clients, NEW v \in Values, NEW k \in 1..3, ~(k < 3)
  PROVE  Filled(Request(c, v), k) = Request(c, v)
  <1>1. k = 3
    OBVIOUS
  <1>2. \A p \in Parts : p <= k
    BY <1>1 DEF Parts
  <1>3. Filled(Request(c, v), k) = [p \in Parts |-> Request(c, v)[p]]
    BY <1>2 DEF Filled
  <1>4. Request(c, v) = [p \in Parts |-> Request(c, v)[p]]
    BY DEF Request
  <1>5. QED
    BY <1>3, <1>4

-----------------------------------------------------------------------------
(* Steps of the server                                                     *)

\* A step that has nothing to do with client d.
LEMMA InStepSame ==
  ASSUME NEW d \in Clients, InStep(d), cpc'[d] = cpc[d], asked'[d] = asked[d],
         result'[d] = result[d], heard'[d] = heard[d], ctos'[d] = ctos[d],
         stoc'[d] = stoc[d], cEnd'[d] = cEnd[d], sEnd'[d] = sEnd[d],
         Replying(d)' <=> Replying(d), Replying(d) => data_buffer' = data_buffer
  PROVE  InStep(d)'
  <1>1. Request(d, asked[d])' = Request(d, asked[d])
    BY DEF Request
  <1>2. /\ IsAnswer(stoc[d], Request(d, asked[d]))' <=> IsAnswer(stoc[d], Request(d, asked[d]))
        /\ IsAnswer(result[d], Request(d, asked[d]))'
             <=> IsAnswer(result[d], Request(d, asked[d]))
    BY DEF Request, IsAnswer
  <1>3. /\ Quiet(d) <=> Quiet(d)'
        /\ Sent(d) <=> Sent(d)'
        /\ Served(d) <=> Served(d)'
        /\ Answered(d) <=> Answered(d)'
        /\ Linked(d) <=> Linked(d)'
    BY <1>1, <1>2 DEF Quiet, Sent, Served, Answered, Linked
  <1>4. QED
    BY <1>1, <1>2, <1>3 DEF InStep

\* The server closes the connection to its client.
LEMMA CloseStep ==
  ASSUME Base, NEW u, spc = "recv", CloseConnection(u), data_buffer' \in Buffer,
         splits' \in Nat, UNCHANGED <<left, queue, stoc, clientVars>>
  PROVE  /\ Base'
         /\ (\A d \in Clients : InStep(d)) => \A d \in Clients : InStep(d)'
  <1>1. TypeOK /\ Types
    BY DEF Base, Types
  <1>2. /\ spc' = "select" /\ ctos' = [ctos EXCEPT ![serving] = << >>] /\ serving' = Nobody
        /\ sEnd' = [sEnd EXCEPT ![serving] = "dead"]
        /\ queue' = queue /\ stoc' = stoc /\ cpc' = cpc /\ asked' = asked
        /\ result' = result /\ heard' = heard /\ serving \in Clients
    BY <1>1 DEF CloseConnection, clientVars, TypeOK
  <1>3. /\ ctos'[serving] = << >> /\ sEnd'[serving] = "dead"
        /\ cEnd'[serving] \in Ends \ {"up"}
        /\ (cEnd[serving] = "dead" => cEnd'[serving] = "dead")
        /\ \A d \in Clients : d # serving =>
             ctos'[d] = ctos[d] /\ sEnd'[d] = sEnd[d] /\ cEnd'[d] = cEnd[d]
        /\ cEnd' \in [Clients -> Ends]
    BY <1>1, <1>2 DEF CloseConnection, AfterClose, TypeOK, Ends
  <1>4. Types'
    <2>1. ctos' \in [Clients -> Seq(Piece)] /\ sEnd' \in [Clients -> Ends]
      BY <1>1, <1>2, EmptySeq DEF TypeOK, Ends
    <2>2. QED
      BY <1>1, <1>2, <1>3, <2>1 DEF Types, TypeOK
  <1>5. OwnStreams'
    <2>1. ASSUME NEW d \in Clients, NEW i \in 1..Len(ctos'[d]) PROVE ctos'[d][i].by = d
      <3>1. CASE d = serving
        BY <1>3, <2>1, <3>1, EmptySeq
      <3>2. CASE d # serving
        BY <1>3, <2>1, <3>2 DEF Base, OwnStreams
      <3>3. QED
        BY <3>1, <3>2
    <2>2. QED
      BY <2>1 DEF OwnStreams
  <1>6. NoCrossTalk'
    BY <1>2 DEF Base, NoCrossTalk
  <1>7. ASSUME \A d \in Clients : InStep(d), NEW d \in Clients PROVE InStep(d)'
    <2>1. ~Replying(d) /\ ~Replying(d)'
      BY <1>2 DEF Replying
    <2>2. CASE d = serving
      <3>1. Linked(d)'
        BY <1>3, <2>1, <2>2 DEF Linked
      <3>2. stoc[d] = << >> => Quiet(d)'
        BY <1>2, <1>3, <2>1, <2>2 DEF Quiet
      <3>3. Answered(d) => Answered(d)'
        BY <1>2, <1>3, <2>1, <2>2 DEF Answered, IsAnswer, Request
      <3>4. InStep(d)
        BY <1>7
      <3>5. cpc[d] = "off" \/ cpc[d] = "prompt" => stoc[d] = << >>
        BY <3>4 DEF InStep, Quiet
      <3>6. cpc[d] = "wait" => stoc[d] = << >> \/ Answered(d)
        BY <3>4 DEF InStep, Quiet, Sent, Served
      <3>7. cpc'[d] = "prompt" /\ heard'[d] => IsAnswer(result[d], Request(d, asked[d]))'
        BY <1>2, <3>4 DEF InStep, IsAnswer, Request
      <3>8. cpc[d] = "gone" => cEnd'[d] = "dead" /\ ctos'[d] = << >>
        BY <1>3, <2>2, <3>4 DEF InStep
      <3>9. QED
        BY <1>2, <2>1, <3>1, <3>2, <3>3, <3>4, <3>5, <3>6, <3>7, <3>8 DEF InStep
    <2>3. CASE d # serving
      BY <1>2, <1>3, <1>7, <2>1, <2>3, InStepSame
    <2>4. QED
      BY <2>2, <2>3
  <1>8. QED
    BY <1>4, <1>5, <1>6, <1>7 DEF Base

\* The process ends, with connections waiting.
LEMMA EndStep ==
  ASSUME Base, NEW how, how = "exited" \/ how = "killed", ServerEnds(how)
  PROVE  /\ Base'
         /\ (\A d \in Clients : InStep(d)) => \A d \in Clients : InStep(d)'
  <1>1. TypeOK /\ Types
    BY DEF Base, Types
  <1>2. /\ spc' = how /\ serving' = serving /\ data_buffer' = data_buffer
        /\ left' = left
        /\ queue' = << >> /\ stoc' = stoc /\ cpc' = cpc /\ asked' = asked
        /\ result' = result /\ heard' = heard /\ splits' = splits
        /\ \A d \in Clients : /\ ctos'[d] = << >> /\ sEnd'[d] = "dead"
                              /\ cEnd'[d] = IF cEnd[d] = "up" THEN "cut" ELSE cEnd[d]
    BY DEF ServerEnds, clientVars
  <1>3. Types'
    <2>1. /\ ctos' \in [Clients -> Seq(Piece)] /\ sEnd' \in [Clients -> Ends]
          /\ cEnd' \in [Clients -> Ends] /\ queue' \in Seq(Clients)
      BY <1>1, EmptySeq DEF ServerEnds, TypeOK, Ends
    <2>2. spc' \in {"select", "recv", "reply", "exited", "killed"} \ {"recv", "reply"}
      BY <1>2
    <2>3. QED
      BY <1>1, <1>2, <2>1, <2>2 DEF Types, TypeOK
  <1>4. OwnStreams'
    BY <1>2, EmptySeq DEF OwnStreams
  <1>5. NoCrossTalk'
    BY <1>2 DEF Base, NoCrossTalk
  <1>6. ASSUME NEW d \in Clients, InStep(d) PROVE InStep(d)'
    <2>1. ~Replying(d)'
      BY <1>2 DEF Replying
    <2>2. Linked(d)'
      BY <1>2, <2>1 DEF Linked
    <2>3. stoc[d] = << >> => Quiet(d)'
      BY <1>2, <2>1 DEF Quiet
    <2>4. Answered(d) => Answered(d)'
      BY <1>2, <2>1 DEF Answered, IsAnswer, Request
    <2>5. cpc[d] = "off" \/ cpc[d] = "prompt" => stoc[d] = << >>
      BY <1>6 DEF InStep, Quiet
    <2>6. cpc[d] = "wait" => stoc[d] = << >> \/ Answered(d)
      BY <1>6 DEF InStep, Quiet, Sent, Served
    <2>7. cpc'[d] = "prompt" /\ heard'[d] => IsAnswer(result[d], Request(d, asked[d]))'
      BY <1>2, <1>6 DEF InStep, IsAnswer, Request
    <2>8. cpc[d] = "gone" => cEnd'[d] = "dead" /\ ctos'[d] = << >>
      BY <1>2, <1>6 DEF InStep
    <2>9. QED
      BY <1>2, <1>6, <2>1, <2>2, <2>3, <2>4, <2>5, <2>6, <2>7, <2>8 DEF InStep
  <1>7. QED
    BY <1>3, <1>4, <1>5, <1>6 DEF Base

LEMMA AcceptStep ==
  ASSUME IInv, Accept
  PROVE  IInv'
  <1>1. TypeOK /\ Types
    BY DEF IInv, Base, Types
  <1>2. /\ spc = "select" /\ spc' = "recv" /\ serving' = Head(queue) /\ queue' = Tail(queue)
        /\ data_buffer' = data_buffer /\ left' = left /\ ctos' = ctos /\ stoc' = stoc /\ sEnd' = sEnd
        /\ cEnd' = cEnd /\ cpc' = cpc /\ asked' = asked /\ result' = result
        /\ heard' = heard /\ splits' = splits /\ queue # << >>
    BY DEF Accept, clientVars
  <1>3. Head(queue) \in Clients /\ Tail(queue) \in Seq(Clients)
    BY <1>1, <1>2, HeadTailProperties DEF TypeOK
  <1>4. Types'
    BY <1>1, <1>2, <1>3 DEF Types, TypeOK
  <1>5. OwnStreams' /\ NoCrossTalk'
    BY <1>2 DEF IInv, Base, OwnStreams, NoCrossTalk
  <1>6. ASSUME NEW d \in Clients, InStep(d) PROVE InStep(d)'
    <2>1. ~Replying(d) /\ ~Replying(d)'
      BY <1>2 DEF Replying
    <2>2. QED
      BY <1>2, <1>6, <2>1, InStepSame
  <1>7. QED
    BY <1>2, <1>4, <1>5, <1>6 DEF IInv, Base, Whole

LEMMA RecvEndStep ==
  ASSUME IInv, RecvEnd \/ RecvError
  PROVE  IInv'
  <1>1. TypeOK /\ Base
    BY DEF IInv, Base, Types
  <1>2. /\ spc = "recv" /\ data_buffer' = Cleared /\ CloseConnection(<< >>) /\ spc' = "select"
        /\ UNCHANGED <<left, queue, stoc, clientVars>> /\ splits' = splits
    BY DEF RecvEnd, RecvError, CloseConnection
  <1>3. data_buffer' \in Buffer
    BY <1>2 DEF Cleared, Buffer
  <1>4. Base' /\ ((\A d \in Clients : InStep(d)) => \A d \in Clients : InStep(d)')
    BY <1>1, <1>2, <1>3, CloseStep DEF TypeOK
  <1>5. QED
    BY <1>2, <1>4 DEF IInv, Whole

\* Of a message that has arrived whole, all is read.
LEMMA RecvStep ==
  ASSUME IInv, Recv
  PROVE  IInv'
  <1>1. TypeOK /\ Base /\ Types
    BY DEF IInv, Base, Types
  <1>2. spc = "recv" /\ serving \in Clients /\ UNCHANGED <<left, queue, stoc, clientVars>>
    BY <1>1 DEF Recv, TypeOK
  <1> DEFINE s == ctos[serving]
  <1>3. PICK k \in Portions(s) :
          /\ data_buffer' = Filled(s, k) /\ CountSplit(s, k)
          /\ \E age \in Ages(Filled(s, k)) :
               \/ /\ age # 0 /\ spc' = "reply"
                  /\ ctos' = [ctos EXCEPT ![serving] = Rest(@, k)]
                  /\ UNCHANGED <<serving, sEnd, cEnd>>
               \/ age = 0 /\ CloseConnection(Rest(s, k))
    BY DEF Recv
  <1>4. /\ s \in Seq(Piece) /\ k \in 1..Len(s)
        /\ \A i \in 1..Len(s) : s[i].by = serving
    BY <1>1, <1>2 DEF Portions, TypeOK, Base, OwnStreams
  <1>5. /\ splits' \in Nat
        /\ splits' = 0 => splits = 0 /\ ~(k < Len(s))
    BY <1>1, <1>3, SplitsCount
  <1> HIDE DEF s
  <1>6. data_buffer' \in Buffer /\ Own(serving, data_buffer')
    BY <1>3, <1>4, FilledIs
  <1>7. CASE CloseConnection(Rest(s, k))
    <2>1. Base' /\ ((\A d \in Clients : InStep(d)) => \A d \in Clients : InStep(d)')
      BY <1>1, <1>2, <1>5, <1>6, <1>7, CloseStep
    <2>2. spc' # "killed"
      BY <1>7 DEF CloseConnection
    <2>3. QED
      BY <1>5, <2>1, <2>2 DEF IInv, Whole
  <1>8. CASE /\ spc' = "reply" /\ ctos' = [ctos EXCEPT ![serving] = Rest(@, k)]
             /\ UNCHANGED <<serving, sEnd, cEnd>>
    <2>1. /\ Rest(s, k) \in Seq(Piece)
          /\ \A i \in 1..Len(Rest(s, k)) : \E j \in 1..Len(s) : Rest(s, k)[i] = s[j]
          /\ ~(k < Len(s)) => Rest(s, k) = << >>
      BY <1>4, RestIs
    <2>2. /\ ctos' \in [Clients -> Seq(Piece)] /\ ctos'[serving] = Rest(s, k)
          /\ \A d \in Clients : d # serving => ctos'[d] = ctos[d]
      BY <1>1, <1>2, <1>8, <2>1 DEF TypeOK, s
    <2>3. /\ queue' = queue /\ stoc' = stoc /\ cpc' = cpc /\ asked' = asked
          /\ result' = result /\ heard' = heard /\ serving' = serving
          /\ sEnd' = sEnd /\ cEnd' = cEnd /\ spc' = "reply"
      BY <1>2, <1>8 DEF clientVars
    <2>4. Types'
      BY <1>1, <1>2, <1>5, <1>6, <2>2, <2>3 DEF Types, TypeOK
    <2>5. OwnStreams'
      <3>1. ASSUME NEW d \in Clients, NEW i \in 1..Len(ctos'[d]) PROVE ctos'[d][i].by = d
        <4>1. CASE d = serving
          BY <1>4, <2>1, <2>2, <3>1, <4>1
        <4>2. CASE d # serving
          BY <1>1, <2>2, <3>1, <4>2 DEF Base, OwnStreams
        <4>3. QED
          BY <4>1, <4>2
      <3>2. QED
        BY <3>1 DEF OwnStreams
    <2>6. NoCrossTalk'
      <3>1. Own(serving', data_buffer')
        BY <1>6, <2>3
      <3>2. /\ \A c \in Clients : \A i \in 1..Len(stoc'[c]) : OwnText(c, stoc'[c][i])
            /\ \A c \in Clients : \A i \in 1..2 : OwnText(c, result'[c][i])
        BY <1>1, <2>3 DEF Base, NoCrossTalk
      <3>3. QED
        BY <3>1, <3>2 DEF NoCrossTalk, OwnText, Own
    <2>7. ASSUME splits' = 0, NEW d \in Clients PROVE InStep(d)'
      <3>1. InStep(d) /\ InStep(serving) /\ ~(k < Len(s)) /\ ~Replying(d)
        BY <1>2, <1>5, <2>7 DEF IInv, Whole, Replying
      <3>2. CASE d # serving
        <4>1. ~Replying(d)'
          BY <2>3, <3>2 DEF Replying
        <4>2. QED
          BY <2>2, <2>3, <3>1, <3>2, <4>1, InStepSame
      <3>3. CASE d = serving
        <4>1. s # << >>
          BY <1>4, EmptySeq
        <4>2. /\ (cpc[d] = "wait" /\ Sent(d)) \/ cpc[d] = "gone"
              /\ s = Request(d, asked[d])
          BY <1>1, <3>1, <3>3, <4>1 DEF InStep, Quiet, Sent, Served, Answered, TypeOK, s
        <4>3. asked[d] \in Values
          <5>1. ctos[d] # << >>
            BY <3>3, <4>1 DEF s
          <5>2. QED
            BY <3>1, <4>2, <5>1 DEF InStep
        <4>4. Len(s) = 3
          BY <4>2, <4>3, RequestIs
        <4>5. data_buffer' = Request(d, asked[d]) /\ ctos'[d] = << >>
          BY <1>3, <1>4, <2>1, <2>2, <3>1, <3>3, <4>2, <4>3, <4>4, FilledWhole
        <4>6. Linked(d)'
          <5>1. sEnd[d] \notin {"cut", "dead"}
            BY <3>1, <3>3, <4>1 DEF InStep, Linked, s
          <5>2. QED
            BY <2>3, <3>1, <5>1 DEF InStep, Linked
        <4>7. Replying(d)'
          BY <2>3, <3>3 DEF Replying
        <4>8. Sent(d) => Served(d)'
          BY <2>3, <4>5, <4>7 DEF Sent, Served, Request
        <4>9. QED
          BY <2>3, <3>1, <4>2, <4>5, <4>6, <4>8 DEF InStep
      <3>4. QED
        BY <3>2, <3>3
    <2>8. QED
      BY <2>3, <2>4, <2>5, <2>6, <2>7 DEF IInv, Base, Whole
  <1>9. QED
    BY <1>3, <1>7, <1>8

LEMMA ReplyStep ==
  ASSUME IInv, Reply
  PROVE  IInv'
  <1>1. TypeOK /\ Base /\ Types
    BY DEF IInv, Base, Types
  <1> DEFINE c == serving
  <1>0. PICK n \in 1..2 : stoc' = IF sEnd[c] # "up" THEN stoc
                                  ELSE [stoc EXCEPT ![c] = stoc[c] \o Answer(n)]
    BY DEF Reply
  <1> DEFINE out == Answer(n)
  <1>2. /\ spc = "reply" /\ spc' = "recv" /\ serving' = serving /\ data_buffer' = data_buffer
        /\ left' \in SUBSET Clients
        /\ queue' = queue /\ ctos' = ctos /\ cEnd' = cEnd /\ cpc' = cpc /\ asked' = asked
        /\ result' = result /\ heard' = heard /\ splits' = splits
        /\ serving \in Clients /\ sEnd[c] # "dead"
        /\ stoc' = IF sEnd[c] # "up" THEN stoc ELSE [stoc EXCEPT ![c] = stoc[c] \o out]
        /\ \E e \in AfterSend(sEnd[c]) : sEnd' = [sEnd EXCEPT ![c] = e]
    BY <1>0, <1>1 DEF Reply, clientVars, TypeOK
  <1>3. /\ sEnd' \in [Clients -> Ends] /\ sEnd'[c] \in AfterSend(sEnd[c])
        /\ \A d \in Clients : d # c => sEnd'[d] = sEnd[d]
    BY <1>1, <1>2 DEF AfterSend, TypeOK, Ends
  <1>4. /\ out \in Seq(Half) /\ Len(out) = 2 /\ Own(c, data_buffer)
        /\ \A i \in 1..2 : out[i].info \in {data_buffer, Nothing}
        /\ IsAnswer(out, data_buffer)
    BY <1>1, <1>2, AnswerIs DEF Base, NoCrossTalk
  <1> HIDE DEF out, c
  <1>5. c = serving /\ c \in Clients
    BY <1>2 DEF c
  <1>6. /\ stoc[c] \in Seq(Half) /\ Len(stoc[c]) \in Nat
        /\ stoc[c] \o out \in Seq(Half) /\ Len(stoc[c] \o out) = Len(stoc[c]) + 2
        /\ \A i \in 1 .. Len(stoc[c]) + 2 : (stoc[c] \o out)[i] =
             IF i <= Len(stoc[c]) THEN stoc[c][i] ELSE out[i - Len(stoc[c])]
    <2>1. stoc[c] \in Seq(Half)
      BY <1>1, <1>5 DEF TypeOK
    <2>2. QED
      <3>1. /\ stoc[c] \o out \in Seq(Half) /\ Len(stoc[c]) \in Nat
            /\ Len(stoc[c] \o out) = Len(stoc[c]) + Len(out)
            /\ \A i \in 1 .. Len(stoc[c]) + Len(out) : (stoc[c] \o out)[i] =
                 IF i <= Len(stoc[c]) THEN stoc[c][i] ELSE out[i - Len(stoc[c])]
        BY <1>4, <2>1, LongerIs
      <3>2. QED
        BY <1>4, <2>1, <3>1
  <1>7. /\ stoc' \in [Clients -> Seq(Half)] /\ \A d \in Clients : d # c => stoc'[d] = stoc[d]
        /\ sEnd[c] = "up" => stoc'[c] = stoc[c] \o out
        /\ sEnd[c] # "up" => stoc'[c] = stoc[c]
    BY <1>1, <1>2, <1>5, <1>6 DEF TypeOK
  <1>8. Types'
    BY <1>1, <1>2, <1>3, <1>7 DEF Types, TypeOK
  <1>9. OwnStreams'
    BY <1>1, <1>2 DEF Base, OwnStreams
  <1>10. NoCrossTalk'
    <2>1. ASSUME NEW d \in Clients, NEW i \in 1..Len(stoc'[d]) PROVE OwnText(d, stoc'[d][i])
      <3>1. \A j \in 1..Len(stoc[d]) : OwnText(d, stoc[d][j])
        BY <1>1 DEF Base, NoCrossTalk
      <3>2. CASE d # c \/ sEnd[c] # "up"
        BY <1>7, <2>1, <3>1, <3>2
      <3>3. CASE d = c /\ sEnd[c] = "up"
        <4>1. /\ i \in 1 .. Len(stoc[c]) + 2
              /\ stoc'[d][i] = IF i <= Len(stoc[c]) THEN stoc[c][i] ELSE out[i - Len(stoc[c])]
          BY <1>6, <1>7, <2>1, <3>3
        <4>2. CASE i <= Len(stoc[c])
          BY <1>6, <3>1, <3>3, <4>1, <4>2
        <4>3. CASE ~(i <= Len(stoc[c]))
          <5>1. i - Len(stoc[c]) \in 1..2
            BY <1>6, <4>1, <4>3
          <5>2. out[i - Len(stoc[c])].info \in {data_buffer, Nothing}
            BY <1>4, <5>1
          <5>3. OwnText(c, out[i - Len(stoc[c])])
            BY <1>4, <5>2 DEF OwnText
          <5>4. QED
            BY <3>3, <4>1, <4>3, <5>3
        <4>4. QED
          BY <4>2, <4>3
      <3>4. QED
        BY <3>2, <3>3
    <2>2. \A d \in Clients : \A i \in 1..2 : OwnText(d, result'[d][i])
      BY <1>1, <1>2 DEF Base, NoCrossTalk
    <2>3. QED
      BY <1>2, <2>1, <2>2 DEF NoCrossTalk, OwnText, Own
  <1>11. ASSUME splits = 0, NEW d \in Clients PROVE InStep(d)'
    <2>1. InStep(d)
      BY <1>11 DEF IInv, Whole
    <2>2. ~Replying(d)'
      BY <1>2 DEF Replying
    <2>3. CASE d # c
      <3>1. ~Replying(d)
        BY <1>5, <2>3 DEF Replying
      <3>2. QED
        BY <1>2, <1>3, <1>7, <2>1, <2>2, <2>3, <3>1, InStepSame
    <2>4. CASE d = c
      <3>1. Replying(d)
        BY <1>2, <1>5, <2>4 DEF Replying
      <3>2. (cpc[d] = "wait" /\ Served(d)) \/ (cpc[d] = "gone" /\ ctos[d] = << >>)
        <4>1. cpc[d] \in {"off", "prompt", "wait", "gone"}
          BY <1>1 DEF TypeOK
        <4>2. ~Quiet(d) /\ ~Sent(d) /\ ~Answered(d)
          BY <3>1 DEF Quiet, Sent, Answered
        <4>3. cpc[d] # "off" /\ cpc[d] # "prompt"
          BY <2>1, <4>2 DEF InStep
        <4>4. cpc[d] = "wait" => Served(d)
          BY <2>1, <4>2 DEF InStep
        <4>5. cpc[d] = "gone" => ctos[d] = << >>
          BY <2>1, <3>1 DEF InStep
        <4>6. QED
          BY <4>1, <4>3, <4>4, <4>5
      <3>3. /\ ctos'[d] = << >> /\ (cEnd[d] = "up" <=> sEnd[d] = "up")
            /\ (sEnd[d] = "up" <=> sEnd'[d] = "up")
        BY <1>2, <1>3, <2>1, <2>4, <3>2 DEF InStep, Linked, AfterSend, Served
      <3>4. Linked(d)'
        BY <1>2, <2>2, <3>3 DEF Linked
      <3>5. Served(d) => Answered(d)'
        <4>1. SUFFICES ASSUME Served(d) PROVE Answered(d)'
          OBVIOUS
        <4>2. sEnd[c] = "up" /\ stoc[c] = << >> /\ data_buffer = Request(d, asked[d])
          BY <2>4, <3>3, <4>1 DEF Served
        <4>3. stoc'[d] = out
          BY <1>4, <1>7, <2>4, <4>2, ConcatEmptySeq
        <4>4. IsAnswer(stoc'[d], Request(d, asked'[d]))
          BY <1>2, <1>4, <4>2, <4>3 DEF Request
        <4>5. QED
          BY <1>4, <2>2, <3>3, <4>3, <4>4 DEF Answered, IsAnswer, Request
      <3>6. QED
        BY <1>2, <2>1, <2>2, <3>2, <3>3, <3>4, <3>5 DEF InStep
    <2>5. QED
      BY <2>3, <2>4
  <1>12. QED
    BY <1>2, <1>8, <1>9, <1>10, <1>11 DEF IInv, Base, Whole

LEMMA EndsStep ==
  ASSUME IInv, BrokenPipe \/ AcceptFails
  PROVE  IInv'
  <1>1. TypeOK /\ Base
    BY DEF IInv, Base, Types
  <1>2. CASE BrokenPipe
    <2>1. spc = "reply" /\ sEnd[serving] = "dead" /\ serving \in Clients
      BY <1>1, <1>2 DEF BrokenPipe, TypeOK
    <2>2. Base' /\ splits' = splits
      BY <1>1, <1>2, EndStep DEF BrokenPipe, ServerEnds
    <2>3. splits # 0
      <3>1. ~(InStep(serving))
        BY <2>1 DEF InStep, Linked, Replying
      <3>2. QED
        BY <2>1, <3>1 DEF IInv, Whole
    <2>4. QED
      BY <2>2, <2>3 DEF IInv, Whole
  <1>3. CASE AcceptFails
    <2>1. ServerEnds("exited") /\ spc' = "exited" /\ splits' = splits
      BY <1>3 DEF AcceptFails, ServerEnds
    <2>2. Base' /\ ((\A d \in Clients : InStep(d)) => \A d \in Clients : InStep(d)')
      BY <1>1, <2>1, EndStep
    <2>3. QED
      BY <2>1, <2>2 DEF IInv, Whole
  <1>4. QED
    BY <1>2, <1>3

-----------------------------------------------------------------------------
(* Steps of the clients                                                    *)

LEMMA ConnectStep ==
  ASSUME IInv, NEW c \in Clients, Connect(c) \/ ConnectFails(c)
  PROVE  IInv'
  <1>1. TypeOK /\ Base /\ Types
    BY DEF IInv, Base, Types
  <1>2. /\ cpc[c] = "off" /\ cpc' = [cpc EXCEPT ![c] = "prompt"]
        /\ spc' = spc /\ serving' = serving /\ data_buffer' = data_buffer
        /\ left' = left
        /\ ctos' = ctos /\ stoc' = stoc /\ asked' = asked /\ result' = result
        /\ heard' = heard /\ splits' = splits
    BY DEF Connect, ConnectFails, ClientGoes, serverVars, linkVars
  <1>3. /\ cpc' \in [Clients -> {"off", "prompt", "wait", "gone"}] /\ cpc'[c] = "prompt"
        /\ \A d \in Clients : d # c => cpc'[d] = cpc[d]
    BY <1>1, <1>2 DEF TypeOK
  <1>4. /\ queue' \in Seq(Clients) /\ sEnd' \in [Clients -> Ends] /\ cEnd' \in [Clients -> Ends]
        /\ \A d \in Clients : d # c => sEnd'[d] = sEnd[d] /\ cEnd'[d] = cEnd[d]
        /\ \/ sEnd'[c] = "up" /\ cEnd'[c] = "up"
           \/ sEnd'[c] = sEnd[c] /\ cEnd'[c] = cEnd[c]
    <2>1. CASE Connect(c)
      <3>1. queue' = Append(queue, c) /\ queue \in Seq(Clients)
        BY <1>1, <2>1 DEF Connect, TypeOK
      <3>2. queue' \in Seq(Clients)
        BY <3>1, AppendProperties
      <3>3. QED
        BY <1>1, <2>1, <3>2 DEF Connect, TypeOK, Ends
    <2>2. CASE ConnectFails(c)
      BY <1>1, <2>2 DEF ConnectFails, linkVars, TypeOK
    <2>3. QED
      BY <2>1, <2>2
  <1>5. Types'
    BY <1>1, <1>2, <1>3, <1>4 DEF Types, TypeOK
  <1>6. OwnStreams' /\ NoCrossTalk'
    BY <1>1, <1>2 DEF Base, OwnStreams, NoCrossTalk
  <1>7. ASSUME NEW d \in Clients, InStep(d) PROVE InStep(d)'
    <2>1. Replying(d)' <=> Replying(d)
      BY <1>2 DEF Replying
    <2>2. CASE d # c
      BY <1>2, <1>3, <1>4, <1>7, <2>1, <2>2, InStepSame
    <2>3. CASE d = c
      <3>1. Quiet(d) /\ ~heard[d] /\ Linked(d)
        BY <1>2, <1>7, <2>3 DEF InStep
      <3>2. Quiet(d)' /\ ~heard'[d]
        BY <1>2, <2>1, <3>1 DEF Quiet
      <3>3. Linked(d)'
        BY <1>2, <1>4, <2>1, <2>3, <3>1 DEF Linked
      <3>4. QED
        BY <1>3, <2>3, <3>2, <3>3 DEF InStep
    <2>4. QED
      BY <2>2, <2>3
  <1>8. QED
    BY <1>2, <1>5, <1>6, <1>7 DEF IInv, Base, Whole

\* recvfrom has nothing to return: the connection is not up, so no request of
\* the client is under way.
LEMMA RecvNothingStep ==
  ASSUME IInv, NEW c \in Clients, RecvNothing(c)
  PROVE  IInv'
  <1>1. TypeOK /\ Base /\ Types
    BY DEF IInv, Base, Types
  <1>2. /\ cpc[c] = "wait" /\ cpc' = [cpc EXCEPT ![c] = "prompt"]
        /\ stoc[c] = << >> /\ cEnd[c] # "up"
        /\ cEnd' = [cEnd EXCEPT ![c] = IF cEnd[c] = "fin" THEN "fin" ELSE "dead"]
        /\ heard' = [heard EXCEPT ![c] = FALSE]
        /\ spc' = spc /\ serving' = serving /\ data_buffer' = data_buffer
        /\ left' = left
        /\ queue' = queue /\ ctos' = ctos /\ stoc' = stoc /\ sEnd' = sEnd
        /\ asked' = asked /\ result' = result /\ splits' = splits
    BY DEF RecvNothing, ClientGoes, serverVars
  <1>3. /\ cpc' \in [Clients -> {"off", "prompt", "wait", "gone"}] /\ cpc'[c] = "prompt"
        /\ cEnd' \in [Clients -> Ends] /\ cEnd'[c] # "up"
        /\ heard' \in [Clients -> BOOLEAN] /\ ~heard'[c]
        /\ \A d \in Clients : d # c =>
             cpc'[d] = cpc[d] /\ cEnd'[d] = cEnd[d] /\ heard'[d] = heard[d]
    BY <1>1, <1>2 DEF TypeOK, Ends
  <1>4. Types'
    BY <1>1, <1>2, <1>3 DEF Types, TypeOK
  <1>5. OwnStreams' /\ NoCrossTalk'
    BY <1>1, <1>2 DEF Base, OwnStreams, NoCrossTalk
  <1>6. ASSUME NEW d \in Clients, InStep(d) PROVE InStep(d)'
    <2>1. Replying(d)' <=> Replying(d)
      BY <1>2 DEF Replying
    <2>2. CASE d # c
      BY <1>2, <1>3, <1>6, <2>1, <2>2, InStepSame
    <2>3. CASE d = c
      <3>1. asked[d] \in Values /\ (Quiet(d) \/ Sent(d) \/ Served(d) \/ Answered(d)) /\ Linked(d)
        BY <1>2, <1>6, <2>3 DEF InStep
      <3>2. ~Answered(d)
        <4>1. Len(stoc[d]) = 0
          BY <1>2, <2>3
        <4>2. QED
          BY <4>1 DEF Answered
      <3>3. Quiet(d)
        BY <1>2, <2>3, <3>1, <3>2 DEF Sent, Served
      <3>4. Quiet(d)'
        BY <1>2, <2>1, <3>3 DEF Quiet
      <3>5. Linked(d)'
        BY <1>2, <1>3, <2>1, <2>3, <3>1 DEF Linked
      <3>6. QED
        BY <1>3, <2>3, <3>4, <3>5 DEF InStep
    <2>4. QED
      BY <2>2, <2>3
  <1>7. QED
    BY <1>2, <1>4, <1>5, <1>6 DEF IInv, Base, Whole

LEMMA AskStep ==
  ASSUME IInv, NEW c \in Clients, NEW v \in Values, Ask(c, v)
  PROVE  IInv'
  <1>1. TypeOK /\ Base /\ Types
    BY DEF IInv, Base, Types
  <1>2. /\ cpc[c] = "prompt" /\ asked' = [asked EXCEPT ![c] = v]
        /\ cpc' = [cpc EXCEPT ![c] = IF cEnd[c] = "dead" THEN "gone" ELSE "wait"]
        /\ ctos' = IF cEnd[c] # "up" THEN ctos
                   ELSE [ctos EXCEPT ![c] = ctos[c] \o Request(c, v)]
        /\ \E e \in AfterSend(cEnd[c]) : cEnd' = [cEnd EXCEPT ![c] = e]
        /\ spc' = spc /\ serving' = serving /\ data_buffer' = data_buffer
        /\ left' = left
        /\ queue' = queue /\ stoc' = stoc /\ sEnd' = sEnd
        /\ heard' = heard /\ result' = result /\ splits' = splits
    BY DEF Ask, serverVars
  <1>3. /\ cpc' \in [Clients -> {"off", "prompt", "wait", "gone"}]
        /\ cpc'[c] = IF cEnd[c] = "dead" THEN "gone" ELSE "wait"
        /\ asked' \in [Clients -> Values \cup {Nothing}] /\ asked'[c] = v
        /\ \A d \in Clients : d # c => cpc'[d] = cpc[d] /\ asked'[d] = asked[d]
    BY <1>1, <1>2 DEF TypeOK
  <1>4. /\ cEnd' \in [Clients -> Ends] /\ cEnd'[c] \in AfterSend(cEnd[c])
        /\ \A d \in Clients : d # c => cEnd'[d] = cEnd[d]
    BY <1>1, <1>2 DEF AfterSend, TypeOK, Ends
  <1> DEFINE s == ctos[c]
             m == Request(c, v)
  <1>5. /\ s \in Seq(Piece) /\ m \in Seq(Piece) /\ Len(m) = 3
        /\ \A i \in 1..3 : m[i].by = c
        /\ \A i \in 1..Len(s) : s[i].by = c
    BY <1>1, RequestIs DEF TypeOK, Base, OwnStreams
  <1>6. /\ cEnd[c] # "up" => ctos' = ctos
        /\ cEnd[c] = "up" => ctos' = [ctos EXCEPT ![c] = s \o m]
    BY <1>2
  <1> HIDE DEF s, m
  <1>7. /\ s \o m \in Seq(Piece) /\ Len(s) \in Nat /\ Len(s \o m) = Len(s) + 3
        /\ \A i \in 1 .. Len(s) + 3 : (s \o m)[i] = IF i <= Len(s) THEN s[i] ELSE m[i - Len(s)]
    <2>1. /\ s \o m \in Seq(Piece) /\ Len(s) \in Nat /\ Len(s \o m) = Len(s) + Len(m)
          /\ \A i \in 1 .. Len(s) + Len(m) :
               (s \o m)[i] = IF i <= Len(s) THEN s[i] ELSE m[i - Len(s)]
      BY <1>5, LongerIs
    <2>2. QED
      BY <1>5, <2>1
  <1>8. \A i \in 1..Len(s \o m) : (s \o m)[i].by = c
    <2>1. ASSUME NEW i \in 1 .. Len(s) + 3 PROVE (s \o m)[i].by = c
      <3>1. CASE i <= Len(s)
        BY <1>5, <1>7, <3>1
      <3>2. CASE ~(i <= Len(s))
        <4>1. i - Len(s) \in 1..3
          BY <1>7, <3>2
        <4>2. m[i - Len(s)].by = c
          BY <1>5, <4>1
        <4>3. QED
          BY <1>7, <3>2, <4>2
      <3>3. QED
        BY <3>1, <3>2
    <2>2. QED
      BY <1>7, <2>1
  <1>9. /\ ctos' \in [Clients -> Seq(Piece)]
        /\ \A d \in Clients : d # c => ctos'[d] = ctos[d]
        /\ ctos'[c] = IF cEnd[c] = "up" THEN s \o m ELSE ctos[c]
    BY <1>1, <1>6, <1>7 DEF TypeOK
  <1>10. Types'
    BY <1>1, <1>2, <1>3, <1>4, <1>9 DEF Types, TypeOK
  <1>11. OwnStreams'
    <2>1. ASSUME NEW d \in Clients, NEW i \in 1..Len(ctos'[d]) PROVE ctos'[d][i].by = d
      <3>1. CASE d = c /\ cEnd[c] = "up"
        BY <1>8, <1>9, <2>1, <3>1
      <3>2. CASE d # c \/ cEnd[c] # "up"
        BY <1>1, <1>9, <2>1, <3>2 DEF Base, OwnStreams
      <3>3. QED
        BY <3>1, <3>2
    <2>2. QED
      BY <2>1 DEF OwnStreams
  <1>12. NoCrossTalk'
    BY <1>1, <1>2 DEF Base, NoCrossTalk
  <1>13. ASSUME NEW d \in Clients, InStep(d) PROVE InStep(d)'
    <2>1. Replying(d)' <=> Replying(d)
      BY <1>2 DEF Replying
    <2>2. CASE d # c
      BY <1>2, <1>3, <1>4, <1>9, <1>13, <2>1, <2>2, InStepSame
    <2>3. CASE d = c
      <3>1. Quiet(d) /\ Linked(d) /\ ctos[d] = << >> /\ stoc[d] = << >> /\ ~Replying(d)
        BY <1>2, <1>13, <2>3 DEF InStep, Quiet
      <3>2. CASE cEnd[c] = "up"
        <4>1. s \o m = m
          <5>1. s = << >>
            BY <2>3, <3>1 DEF s
          <5>2. QED
            BY <1>5, <5>1, ConcatEmptySeq
        <4>2. ctos'[d] = Request(d, asked'[d]) /\ asked'[d] \in Values
          BY <1>3, <1>9, <2>3, <3>2, <4>1 DEF m
        <4>3. cEnd'[d] = "up" /\ cpc'[d] = "wait"
          BY <1>3, <1>4, <2>3, <3>2 DEF AfterSend
        <4>4. Sent(d)'
          BY <1>2, <2>1, <3>1, <4>2, <4>3 DEF Sent, Request
        <4>5. Linked(d)'
          BY <1>2, <2>3, <3>1, <3>2, <4>3 DEF Linked
        <4>6. QED
          BY <4>2, <4>3, <4>4, <4>5 DEF InStep
      <3>3. CASE cEnd[c] # "up"
        <4>1. ctos'[d] = << >> /\ Quiet(d)' /\ ~Replying(d)'
          BY <1>2, <1>9, <2>1, <2>3, <3>1, <3>3 DEF Quiet
        <4>2. cEnd'[d] # "up" /\ (cEnd[d] = "dead" => cEnd'[d] = "dead")
          BY <1>4, <2>3, <3>3 DEF AfterSend
        <4>3. Linked(d)'
          BY <1>2, <2>3, <3>1, <3>3, <4>1, <4>2 DEF Linked
        <4>4. \/ cpc'[d] = "wait" /\ asked'[d] \in Values
              \/ cpc'[d] = "gone" /\ cEnd'[d] = "dead"
          BY <1>3, <2>3, <4>2
        <4>5. QED
          BY <4>1, <4>3, <4>4 DEF InStep
      <3>4. QED
        BY <3>2, <3>3
    <2>4. QED
      BY <2>2, <2>3
  <1>14. QED
    BY <1>2, <1>10, <1>11, <1>12, <1>13 DEF IInv, Base, Whole

\* The user stops the client: the server still reads what has been sent.
LEMMA QuitStep ==
  ASSUME IInv, NEW c \in Clients, Quit(c)
  PROVE  IInv'
  <1>1. TypeOK /\ Base /\ Types
    BY DEF IInv, Base, Types
  <1>2. /\ cpc[c] = "prompt" \/ cpc[c] = "wait"
        /\ cpc' = [cpc EXCEPT ![c] = "gone"] /\ stoc' = [stoc EXCEPT ![c] = << >>]
        /\ cEnd' = [cEnd EXCEPT ![c] = "dead"]
        /\ sEnd' = [sEnd EXCEPT ![c] = AfterClose(sEnd[c], stoc[c])]
        /\ spc' = spc /\ serving' = serving /\ data_buffer' = data_buffer
        /\ left' = left
        /\ queue' = queue /\ ctos' = ctos /\ asked' = asked
        /\ heard' = heard /\ result' = result /\ splits' = splits
    BY DEF Quit, serverVars
  <1>3. /\ cpc' \in [Clients -> {"off", "prompt", "wait", "gone"}] /\ cpc'[c] = "gone"
        /\ cEnd' \in [Clients -> Ends] /\ cEnd'[c] = "dead"
        /\ sEnd' \in [Clients -> Ends] /\ sEnd'[c] = AfterClose(sEnd[c], stoc[c])
        /\ stoc' \in [Clients -> Seq(Half)] /\ stoc'[c] = << >>
        /\ \A d \in Clients : d # c =>
             cpc'[d] = cpc[d] /\ cEnd'[d] = cEnd[d] /\ sEnd'[d] = sEnd[d] /\ stoc'[d] = stoc[d]
    BY <1>1, <1>2, EmptySeq DEF TypeOK, Ends, AfterClose
  <1>4. Types'
    BY <1>1, <1>2, <1>3 DEF Types, TypeOK
  <1>5. OwnStreams'
    BY <1>1, <1>2 DEF Base, OwnStreams
  <1>6. NoCrossTalk'
    <2>1. ASSUME NEW d \in Clients, NEW i \in 1..Len(stoc'[d]) PROVE OwnText(d, stoc'[d][i])
      <3>1. CASE d = c
        BY <1>3, <2>1, <3>1, EmptySeq
      <3>2. CASE d # c
        BY <1>1, <1>3, <2>1, <3>2 DEF Base, NoCrossTalk
      <3>3. QED
        BY <3>1, <3>2
    <2>2. QED
      BY <1>1, <1>2, <2>1 DEF Base, NoCrossTalk, OwnText, Own
  <1>7. ASSUME NEW d \in Clients, InStep(d) PROVE InStep(d)'
    <2>1. Replying(d)' <=> Replying(d)
      BY <1>2 DEF Replying
    <2>2. CASE d # c
      BY <1>2, <1>3, <1>7, <2>1, <2>2, InStepSame
    <2>3. CASE d = c
      <3>1. Linked(d) /\ (\/ Quiet(d)
                          \/ asked[d] \in Values /\ (Sent(d) \/ Served(d) \/ Answered(d)))
        BY <1>2, <1>7, <2>3 DEF InStep
      <3>2. stoc[d] # << >> => ctos[d] = << >> /\ ~Replying(d)
        BY <3>1 DEF Quiet, Sent, Served, Answered
      <3>3. Linked(d)'
        <4>1. sEnd'[d] # "up" /\ cEnd'[d] # "up"
          BY <1>3, <2>3 DEF AfterClose
        <4>2. sEnd'[d] = "cut" \/ sEnd'[d] = "dead" => ctos[d] = << >> /\ ~Replying(d)
          BY <1>3, <2>3, <3>1, <3>2 DEF AfterClose, Linked
        <4>3. QED
          BY <1>2, <2>1, <4>1, <4>2 DEF Linked
      <3>4. ctos'[d] # << >> => asked'[d] \in Values /\ ctos'[d] = Request(d, asked[d])'
        BY <1>2, <3>1 DEF Quiet, Sent, Served, Answered, Request
      <3>5. Replying(d)' => ctos'[d] = << >>
        BY <1>2, <2>1, <3>1 DEF Quiet, Sent, Served, Answered
      <3>6. QED
        BY <1>3, <2>3, <3>3, <3>4, <3>5 DEF InStep
    <2>4. QED
      BY <2>2, <2>3
  <1>8. QED
    BY <1>2, <1>4, <1>5, <1>6, <1>7 DEF IInv, Base, Whole

\* Of an answer that has arrived whole, all is taken.
LEMMA RecvReplyStep ==
  ASSUME IInv, NEW c \in Clients, RecvReply(c)
  PROVE  IInv'
  <1>1. TypeOK /\ Base /\ Types
    BY DEF IInv, Base, Types
  <1> DEFINE s == stoc[c]
             a == Arrived(c)
  <1>2. PICK k \in Portions(a) :
          /\ result' = [result EXCEPT ![c] = Overwritten(result[c], a, k)]
          /\ stoc' = [stoc EXCEPT ![c] = Rest(s, k)] /\ CountSplit(a, k)
    BY DEF RecvReply
  <1>3. /\ cpc[c] = "wait" /\ cpc' = [cpc EXCEPT ![c] = "prompt"]
        /\ heard' = [heard EXCEPT ![c] = TRUE]
        /\ spc' = spc /\ serving' = serving /\ data_buffer' = data_buffer
        /\ left' = left
        /\ queue' = queue /\ ctos' = ctos /\ sEnd' = sEnd /\ cEnd' = cEnd /\ asked' = asked
    BY DEF RecvReply, ClientGoes, serverVars
  <1>4. splits' \in Nat /\ (splits' = 0 => splits = 0 /\ ~(k < Len(a)))
    BY <1>1, <1>2, SplitsCount
  <1>5. s \in Seq(Half) /\ Len(s) \in Nat /\ \A i \in 1..Len(s) : s[i] \in Half
    BY <1>1, LenProperties DEF TypeOK
  <1>6. /\ Len(a) \in 0..2 /\ Len(a) <= Len(s) /\ k \in 1..Len(a)
        /\ \A i \in 1..Len(a) : a[i] = s[i]
        /\ Len(s) = 2 => Len(a) = 2
    BY <1>1, ArrivedIs DEF Portions
  <1> DEFINE w == Overwritten(result[c], a, k)
  <1>7. \A i \in 1..Len(s) : OwnText(c, s[i])
    BY <1>1 DEF Base, NoCrossTalk
  <1> HIDE DEF s, a
  <1>8. k \in 1..Len(s) /\ \A i \in 1..2 : i <= k => i \in 1..Len(a) /\ i \in 1..Len(s)
    BY <1>5, <1>6
  <1>9. /\ Rest(s, k) \in Seq(Half)
        /\ \A i \in 1..Len(Rest(s, k)) : \E j \in 1..Len(s) : Rest(s, k)[i] = s[j]
        /\ ~(k < Len(s)) => Rest(s, k) = << >>
    BY <1>5, <1>8, RestIs
  <1>10. /\ w \in [1..2 -> Half]
         /\ \A i \in 1..2 : OwnText(c, w[i])
    <2>1. \A i \in 1..2 : result[c][i] \in Half
      BY <1>1 DEF TypeOK
    <2>2. \A i \in 1..2 : OwnText(c, result[c][i])
      BY <1>1 DEF Base, NoCrossTalk
    <2>3. w = [i \in 1..2 |-> IF i <= k THEN a[i] ELSE result[c][i]]
      BY DEF Overwritten
    <2>4. \A i \in 1..2 : i <= k => a[i] \in Half /\ OwnText(c, a[i])
      BY <1>5, <1>6, <1>7, <1>8
    <2> HIDE DEF w
    <2>5. QED
      BY <2>1, <2>2, <2>3, <2>4
  <1> HIDE DEF w
  <1>11. /\ cpc' \in [Clients -> {"off", "prompt", "wait", "gone"}] /\ cpc'[c] = "prompt"
         /\ heard' \in [Clients -> BOOLEAN]
         /\ stoc' \in [Clients -> Seq(Half)] /\ stoc'[c] = Rest(s, k)
         /\ result' \in [Clients -> [1..2 -> Half]] /\ result'[c] = w
         /\ \A d \in Clients : d # c => /\ cpc'[d] = cpc[d] /\ heard'[d] = heard[d]
                                        /\ stoc'[d] = stoc[d] /\ result'[d] = result[d]
    <2>1. result' = [result EXCEPT ![c] = w]
      BY <1>2 DEF w
    <2>2. result \in [Clients -> [1..2 -> Half]]
      BY <1>1 DEF Types
    <2>3. /\ result' \in [Clients -> [1..2 -> Half]] /\ result'[c] = w
          /\ \A d \in Clients : d # c => result'[d] = result[d]
      BY <1>10, <2>1, <2>2
    <2>4. QED
      BY <1>1, <1>2, <1>3, <1>9, <2>3 DEF TypeOK
  <1>12. Types'
    <2>1. \A d \in Clients : \A i \in 1..2 : result'[d][i] \in Half
      BY <1>11
    <2>2. QED
      BY <1>1, <1>3, <1>4, <1>11, <2>1 DEF Types, TypeOK
  <1>13. OwnStreams'
    BY <1>1, <1>3 DEF Base, OwnStreams
  <1>14. NoCrossTalk'
    <2>1. ASSUME NEW d \in Clients, NEW i \in 1..Len(stoc'[d]) PROVE OwnText(d, stoc'[d][i])
      <3>1. CASE d = c
        BY <1>7, <1>9, <1>11, <2>1, <3>1
      <3>2. CASE d # c
        BY <1>1, <1>11, <2>1, <3>2 DEF Base, NoCrossTalk
      <3>3. QED
        BY <3>1, <3>2
    <2>2. ASSUME NEW d \in Clients, NEW i \in 1..2
          PROVE  OwnText(d, result'[d][i])
      <3>1. CASE d = c
        BY <1>10, <1>11, <2>2, <3>1
      <3>2. CASE d # c
        BY <1>1, <1>11, <2>2, <3>2 DEF Base, NoCrossTalk
      <3>3. QED
        BY <3>1, <3>2
    <2>3. QED
      BY <1>1, <1>3, <2>1, <2>2 DEF Base, NoCrossTalk, OwnText, Own
  <1>15. ASSUME splits' = 0, NEW d \in Clients PROVE InStep(d)'
    <2>1. Replying(d)' <=> Replying(d)
      BY <1>3 DEF Replying
    <2>2. InStep(d) /\ ~(k < Len(a))
      BY <1>4, <1>15 DEF IInv, Whole
    <2>3. CASE d # c
      BY <1>3, <1>11, <2>1, <2>2, <2>3, InStepSame
    <2>4. CASE d = c
      <3>1. s # << >>
        BY <1>5, <1>8, EmptySeq
      <3>2. asked[d] \in Values /\ Answered(d) /\ Linked(d)
        BY <1>3, <2>2, <2>4, <3>1 DEF InStep, Quiet, Sent, Served, s
      <3> DEFINE b == Request(d, asked[d])
      <3>3. ctos[d] = << >> /\ Len(s) = 2 /\ IsAnswer(s, b) /\ ~Replying(d)
        BY <2>4, <3>2 DEF Answered, s
      <3> HIDE DEF b
      <3>4. Len(s) = 2
        BY <3>3
      <3>5. Len(a) = 2 /\ k = 2
        BY <1>6, <2>2, <3>4
      <3>6. stoc'[d] = << >>
        BY <1>9, <1>11, <2>4, <3>4, <3>5
      <3>7. IsAnswer(w, b)
        <4>1. \A i \in 1..2 : i <= k /\ a[i] = s[i]
          BY <1>6, <3>5
        <4>2. w[1] = s[1] /\ w[2] = s[2]
          BY <4>1 DEF w, Overwritten
        <4>3. QED
          BY <3>3, <4>2 DEF IsAnswer
      <3>8. Quiet(d)'
        BY <1>3, <2>1, <3>3, <3>6 DEF Quiet
      <3>9. IsAnswer(result[d], Request(d, asked[d]))'
        BY <1>3, <1>11, <2>4, <3>7 DEF b, Request
      <3>10. Linked(d)'
        BY <1>3, <2>1, <3>2 DEF Linked
      <3>11. QED
        BY <1>11, <2>4, <3>8, <3>9, <3>10 DEF InStep
    <2>5. QED
      BY <2>3, <2>4
  <1>16. spc' = "killed" => splits' # 0
    BY <1>3, <1>4 DEF IInv, Whole
  <1>17. QED
    BY <1>12, <1>13, <1>14, <1>15, <1>16 DEF IInv, Base, Whole

-----------------------------------------------------------------------------
(* The theorems                                                            *)

LEMMA InitIInv ==
  ASSUME Init
  PROVE  IInv
  <1>1. << >> \in Seq(Clients) /\ << >> \in Seq(Piece) /\ << >> \in Seq(Half)
    BY EmptySeq
  <1>2. result \in [Clients -> [1..2 -> Half]]
    <2>1. Untouched \in [1..2 -> Half]
      BY DEF Untouched, Half
    <2>2. QED
      BY <2>1 DEF Init
  <1>3. \A c \in Clients : \A i \in 1..2 :
          result[c][i] \in Half /\ result[c][i].info = Nothing
    BY <1>2 DEF Init, Untouched
  <1>4. Types
    BY <1>1, <1>2, <1>3 DEF Init, Types, TypeOK, Ends, Cleared, Buffer
  <1>5. \A c \in Clients : ctos[c] = << >> /\ stoc[c] = << >>
    BY DEF Init
  <1>6. OwnStreams /\ NoCrossTalk
    BY <1>3, <1>5, EmptySeq DEF Init, OwnStreams, NoCrossTalk, OwnText
  <1>7. ASSUME NEW c \in Clients PROVE InStep(c)
    BY <1>5 DEF Init, InStep, Linked, Quiet, Replying
  <1>8. QED
    BY <1>4, <1>6, <1>7 DEF Init, IInv, Base, Whole

LEMMA Stutter ==
  ASSUME IInv, UNCHANGED vars
  PROVE  IInv'
  <1>1. /\ spc' = spc /\ serving' = serving /\ data_buffer' = data_buffer
        /\ left' = left
        /\ queue' = queue /\ ctos' = ctos /\ stoc' = stoc /\ sEnd' = sEnd /\ cEnd' = cEnd
        /\ cpc' = cpc /\ asked' = asked /\ result' = result /\ heard' = heard
        /\ splits' = splits
    BY DEF vars, serverVars, linkVars, clientVars
  <1>2. Types'
    BY <1>1 DEF IInv, Base, Types, TypeOK
  <1>3. OwnStreams' /\ NoCrossTalk'
    BY <1>1 DEF IInv, Base, OwnStreams, NoCrossTalk
  <1>4. ASSUME NEW d \in Clients, InStep(d) PROVE InStep(d)'
    <2>1. Replying(d)' <=> Replying(d)
      BY <1>1 DEF Replying
    <2>2. QED
      BY <1>1, <1>4, <2>1, InStepSame
  <1>5. QED
    BY <1>1, <1>2, <1>3, <1>4 DEF IInv, Base, Whole

LEMMA NextIInv ==
  ASSUME IInv, Next
  PROVE  IInv'
  <1>1. CASE ServerStep
    BY <1>1, AcceptStep, RecvStep, RecvEndStep, ReplyStep, EndsStep DEF ServerStep
  <1>2. CASE AcceptFails
    BY <1>2, EndsStep
  <1>3. ASSUME NEW c \in Clients,
               \/ Connect(c) \/ ConnectFails(c) \/ ClientRecv(c) \/ Quit(c)
               \/ \E v \in Values : Ask(c, v)
        PROVE  IInv'
    BY <1>3, ConnectStep, RecvReplyStep, RecvNothingStep, QuitStep, AskStep DEF ClientRecv
  <1>4. QED
    BY <1>1, <1>2, <1>3 DEF Next

LEMMA AlwaysIInv == Spec => []IInv
  <1>1. Init => IInv
    BY InitIInv
  <1>2. IInv /\ [Next]_vars => IInv'
    BY NextIInv, Stutter
  <1>3. QED
    BY <1>1, <1>2, PTL DEF Spec

\* Every variable of the server, of the connections and of the clients keeps
\* its type, however many clients connect and however recvfrom splits what
\* they send (server.c:120-195, client.c:52-103).
THEOREM TypeCorrect == Spec => []TypeOK
  <1>1. IInv => TypeOK
    BY DEF IInv, Base, Types
  <1>2. QED
    BY <1>1, AlwaysIInv, PTL

\* Nothing that one client has sent ever gets into the text of the answer for
\* another, although all go through the one data_buffer and messages may arrive
\* in parts (server.c:154, 162-195).  The bytes behind its NUL may be anybody's.
THEOREM TextsAreOwn == Spec => []NoCrossTalk
  <1>1. IInv => NoCrossTalk
    BY DEF IInv, Base
  <1>2. QED
    BY <1>1, AlwaysIInv, PTL

\* As long as messages arrive whole, the server is never killed by a client
\* that has gone (server.c:154-188), and what a client shows is the answer to
\* what it has just sent (client.c:73-95).
THEOREM WholeIsSafe == Spec => []WholeMessages
  <1>1. IInv => WholeMessages
    <2>1. SUFFICES ASSUME IInv, splits = 0 PROVE ServerSurvives /\ ResultIsAnswer
      BY DEF WholeMessages
    <2>2. TypeOK /\ spc # "killed" /\ \A c \in Clients : InStep(c)
      BY <2>1 DEF IInv, Base, Types, Whole
    <2>3. ServerSurvives
      <3>1. spc = "reply" => serving \in Clients
        BY <2>2 DEF TypeOK
      <3>2. spc = "reply" => sEnd[serving] # "dead"
        BY <2>2, <3>1 DEF InStep, Linked, Replying
      <3>3. QED
        BY <2>2, <3>2 DEF ServerSurvives
    <2>4. ResultIsAnswer
      BY <2>2 DEF InStep, ResultIsAnswer
    <2>5. QED
      BY <2>3, <2>4
  <1>2. QED
    BY <1>1, AlwaysIInv, PTL
=============================================================================
