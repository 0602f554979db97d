----------------------------- MODULE FileTransfer -----------------------------
(***************************************************************************)
(* The files of the peers of week09: the console that starts a thread for  *)
(* every `recv name_of_file', the thread that looks the file up, asks the  *)
(* first peer known to have it and writes what it receives, the handler    *)
(* at that peer, and list_of_files, from which a peer announces what it    *)
(* has, also what it received.                                             *)
(*                                                                         *)
(* A file is a sequence of words.  Files and lists stay on disk when a     *)
(* peer exits; it starts again with another port, so entries of            *)
(* available_files that name the old one lead nowhere.  The lists of files *)
(* travel in the introductions of Gossip; here an announcement is one      *)
(* step, as lists only grow and an old one is an earlier announcement.     *)
(***************************************************************************)
EXTENDS PeerFiles, Integers, Sequences

CONSTANTS Requests,    \* threads that run request()
          Owner,       \* the peer each of them belongs to
          Size,        \* words in each file
          Origin,      \* the files each peer has at first
          IsPrefixOf,  \* pairs of names, the first a proper prefix of the second
          UINT_RANGE,  \* values of an unsigned int, 2^32 in the program
          Capacity,    \* bound: items in flight on a connection
          MaxRestarts, \* bound: how often each peer starts again
          Absent,      \* there is no such file on the disk
          NoName       \* a file name of zeros

Text(f) == UNION {[1..n -> 0..Size[f]] : n \in 0..Size[f]}

ASSUME FileTransferAssumption ==
  /\ Owner \in [Requests -> Peers]
  /\ UINT_RANGE \in Nat \ {0}
  /\ Size \in [Files -> 0 .. UINT_RANGE - 1]
  /\ Origin \in [Peers -> SUBSET Files]
  /\ IsPrefixOf \subseteq Files \X Files
  /\ Capacity \in Nat \ {0} /\ MaxRestarts \in [Peers -> Nat]
  /\ NoName \notin Files
  /\ \A f \in Files : Absent \notin Text(f)

VARIABLES
  up, port,  \* per peer: does it run, and which start is it
  disk,      \* per peer and file: its words, or Absent
  listed,    \* per peer: the names in list_of_files
  holders,   \* per peer and file: available_files
  line,      \* per peer: the name main has read and not yet passed on
  filename,  \* per peer: main's buffer, which the request threads copy
  req,       \* per request thread
  conn, wire \* per request thread: the handler it talks to, and what that sent

storeVars   == <<disk, listed>>
consoleVars == <<line, filename>>
netVars     == <<conn, wire>>
peerVars    == <<up, port, holders>>
vars == <<peerVars, storeVars, consoleVars, req, netVars>>

\* Words are numbered; where a stream wrote past the end there are NUL bytes,
\* and the word behind them is read with the NULs, as an empty string.
Hole == 0
Original(f) == [i \in 1..Size[f] |-> i]

Words(text) ==
  LET upTo[n \in 0..Len(text)] ==
        IF n = 0 THEN << >>
        ELSE IF text[n] = Hole THEN upTo[n - 1]
        ELSE Append(upTo[n - 1],
                    IF n > 1 /\ text[n - 1] = Hole THEN Hole ELSE text[n])
  IN  upTo[Len(text)]

\* fputs: an empty string adds nothing.
Written(words, w) == IF w = Hole THEN words ELSE Append(words, w)

\* A stream that has flushed n words puts all its words on the disk.
Flush(text, n, words) ==
  [i \in 1 .. (IF Len(words) > Len(text) /\ Len(words) > n
               THEN Len(words) ELSE Len(text)) |->
    IF i \in n + 1 .. Len(words) THEN words[i]
    ELSE IF i <= Len(text) THEN text[i] ELSE Hole]

Holder == [peer : Peers, port : Nat]
NoRequest == [at |-> "idle"]
NoConn == [at |-> "none"]

Init ==
  /\ up = [p \in Peers |-> TRUE] /\ port = [p \in Peers |-> 0]
  /\ disk = [p \in Peers |-> [f \in Files |->
               IF f \in Origin[p] THEN Original(f) ELSE Absent]]
  /\ listed = Origin
  /\ holders = [p \in Peers |-> [f \in Files |-> << >>]]
  /\ line = [p \in Peers |-> NoName] /\ filename = [p \in Peers |-> NoName]
  /\ req = [r \in Requests |-> NoRequest]
  /\ conn = [r \in Requests |-> NoConn] /\ wire = [r \in Requests |-> << >>]

-----------------------------------------------------------------------------
(* Announcements: create_introduction at p, dict_insert at q               *)

\* dict_insert of one file: a holder that is there already is not added again.
Inserted(list, holder) ==
  IF \E i \in DOMAIN list : list[i] = holder THEN list ELSE Append(list, holder)

Announce(p, q) ==
  /\ p # q /\ up[p] /\ up[q]
  /\ holders' = [holders EXCEPT ![q] = [f \in Files |->
                   IF f \in listed[p]
                   THEN Inserted(@[f], [peer |-> p, port |-> port[p]])
                   ELSE @[f]]]
  /\ holders' # holders
  /\ UNCHANGED <<up, port, storeVars, consoleVars, req, netVars>>

-----------------------------------------------------------------------------
(* main: the console                                                       *)

\* getline, and memset of filename.  Nobody types at a peer without threads.
TypeName(p, f) ==
  /\ up[p] /\ line[p] = NoName /\ \E r \in Requests : Owner[r] = p
  /\ line' = [line EXCEPT ![p] = f]
  /\ filename' = [filename EXCEPT ![p] = NoName]
  /\ UNCHANGED <<peerVars, storeVars, req, netVars>>

\* memcpy and pthread_create.  The new thread gets a pointer to filename.
StartRequest(r) ==
  LET p == Owner[r]
  IN  /\ up[p] /\ line[p] # NoName
      /\ req[r] = NoRequest /\ conn[r] = NoConn
      /\ filename' = [filename EXCEPT ![p] = line[p]]
      /\ line' = [line EXCEPT ![p] = NoName]
      /\ req' = [req EXCEPT ![r] = [at |-> "born"]]
      /\ UNCHANGED <<peerVars, storeVars, netVars>>

-----------------------------------------------------------------------------
(* request, at peer Owner[r]                                               *)

\* close (if there is a connection) and pthread_exit.
Leave(r) ==
  /\ req' = [req EXCEPT ![r] = NoRequest]
  /\ conn' = [conn EXCEPT ![r] =
                IF @.at \in {"closed", "reset"} THEN NoConn ELSE @]
  /\ wire' = [wire EXCEPT ![r] = << >>]

\* memcpy of the name.  A copy made while main writes is a name nobody has,
\* and ends like NoName.
CopyName(r) ==
  /\ req[r].at = "born"
  /\ req' = [req EXCEPT ![r] = [at |-> "check", file |-> filename[Owner[r]]]]
  /\ UNCHANGED <<peerVars, storeVars, consoleVars, netVars>>

\* is_in_database compares only as many characters as the listed name has.
Matches(p, f) == \E g \in listed[p] : g = f \/ <<g, f>> \in IsPrefixOf

Check(r) ==
  /\ req[r].at = "check"
  /\ req' = [req EXCEPT ![r].at =
               IF Matches(Owner[r], req[r].file) THEN "refused" ELSE "lookup"]
  /\ UNCHANGED <<peerVars, storeVars, consoleVars, netVars>>

Refuse(r) ==
  /\ req[r].at = "refused"
  /\ Leave(r)
  /\ UNCHANGED <<peerVars, storeVars, consoleVars>>

HoldersOf(p, f) == IF f = NoName THEN << >> ELSE holders[p][f]

\* dict_get finds nothing.
NotFound(r) ==
  /\ req[r].at = "lookup"
  /\ HoldersOf(Owner[r], req[r].file) = << >>
  /\ Leave(r)
  /\ UNCHANGED <<peerVars, storeVars, consoleVars>>

\* Mutant: the file is listed before it is there.
LookupLists(r) ==
  LET hs == HoldersOf(Owner[r], req[r].file)
  IN  /\ req[r].at = "lookup" /\ hs # << >>
      /\ req' = [req EXCEPT ![r] = [at |-> "connect",
                                    file |-> req[r].file, src |-> Head(hs)]]
      /\ listed' = [listed EXCEPT ![Owner[r]] = @ \cup {req[r].file}]
      /\ UNCHANGED <<peerVars, disk, consoleVars, netVars>>

\* dict_get and list_first: the peer that announced the file first.
Lookup(r) ==
  LET hs == HoldersOf(Owner[r], req[r].file)
  IN  /\ req[r].at = "lookup" /\ hs # << >>
      /\ req' = [req EXCEPT ![r] = [at |-> "connect",
                                    file |-> req[r].file, src |-> Head(hs)]]
      /\ UNCHANGED <<peerVars, storeVars, consoleVars, netVars>>

\* connect, and the sends of the operation and of the name.
Connect(r) ==
  /\ req[r].at = "connect"
  /\ LET s == req[r].src
     IN  /\ up[s.peer] /\ port[s.peer] = s.port
         /\ conn' = [conn EXCEPT ![r] =
                       [at |-> "name", peer |-> s.peer, file |-> req[r].file]]
  /\ req' = [req EXCEPT ![r].at = "count"]
  /\ UNCHANGED <<peerVars, storeVars, consoleVars, wire>>

\* The peer is not there any more, or the network fails.
ConnectFails(r) ==
  /\ req[r].at = "connect"
  /\ Leave(r)
  /\ UNCHANGED <<peerVars, storeVars, consoleVars>>

\* Mutant: the last word is counted twice.
RecvCountOne(r) ==
  LET p == Owner[r]
      f == req[r].file
  IN  /\ req[r].at = "count" /\ wire[r] # << >>
      /\ req' = [req EXCEPT ![r] =
                   [at |-> "words", file |-> f,
                    src |-> req[r].src, left |-> Head(wire[r]),
                    got |-> << >>, flushed |-> 0]]
      /\ disk' = [disk EXCEPT ![p][f] = << >>]
      /\ wire' = [wire EXCEPT ![r] = Tail(@)]
      /\ UNCHANGED <<peerVars, listed, consoleVars, conn>>

\* recv of the number of words, and fopen with "w", which empties the file.
\* ntohl_o returns an unsigned int, from which the loop subtracts 1.
RecvCount(r) ==
  LET p == Owner[r]
      f == req[r].file
  IN  /\ req[r].at = "count" /\ wire[r] # << >>
      /\ req' = [req EXCEPT ![r] =
                   [at |-> "words", file |-> f,
                    src |-> req[r].src,
                    left |-> (Head(wire[r]) - 1) % UINT_RANGE,
                    got |-> << >>, flushed |-> 0]]
      /\ disk' = [disk EXCEPT ![p][f] = << >>]
      /\ wire' = [wire EXCEPT ![r] = Tail(@)]
      /\ UNCHANGED <<peerVars, listed, consoleVars, conn>>

\* Mutant: the loop takes one word more, the last.
RecvWordPast(r) ==
  /\ req[r].at = "words" /\ req[r].left >= 0 /\ wire[r] # << >>
  /\ req' = [req EXCEPT ![r].left = @ - 1,
                        ![r].got = Written(@, Head(wire[r]))]
  /\ wire' = [wire EXCEPT ![r] = Tail(@)]
  /\ UNCHANGED <<peerVars, storeVars, consoleVars, conn>>

\* A word of the loop.  The stream is flushed when its buffer is full.
RecvWord(r) ==
  LET p == Owner[r]
      words == Written(req[r].got, Head(wire[r]))
  IN  /\ req[r].at = "words" /\ req[r].left > 0 /\ wire[r] # << >>
      /\ \E n \in {req[r].flushed, Len(words)} :
           /\ req' = [req EXCEPT ![r].left = @ - 1, ![r].got = words,
                                 ![r].flushed = n]
           /\ disk' = IF n = req[r].flushed THEN disk
                      ELSE [disk EXCEPT ![p][req[r].file] =
                              Flush(@, req[r].flushed, words)]
      /\ wire' = [wire EXCEPT ![r] = Tail(@)]
      /\ UNCHANGED <<peerVars, listed, consoleVars, conn>>

\* Mutant: the file is not closed, so what is in the buffer is not written.
RecvLastUnclosed(r) ==
  LET p == Owner[r]
      words == Written(req[r].got, Head(wire[r]))
  IN  /\ req[r].at = "words" /\ req[r].left = 0 /\ wire[r] # << >>
      /\ req' = [req EXCEPT ![r].at = "list", ![r].got = words]
      /\ wire' = [wire EXCEPT ![r] = Tail(@)]
      /\ UNCHANGED <<peerVars, storeVars, consoleVars, conn>>

\* The last word, and fclose.
RecvLast(r) ==
  LET p == Owner[r]
      words == Written(req[r].got, Head(wire[r]))
  IN  /\ req[r].at = "words" /\ req[r].left = 0 /\ wire[r] # << >>
      /\ req' = [req EXCEPT ![r].at = "list", ![r].got = words]
      /\ disk' = [disk EXCEPT ![p][req[r].file] =
                    Flush(@, req[r].flushed, words)]
      /\ wire' = [wire EXCEPT ![r] = Tail(@)]
      /\ UNCHANGED <<peerVars, listed, consoleVars, conn>>

\* The name goes to the end of list_of_files; the thread ends.
AddToList(r) ==
  /\ req[r].at = "list"
  /\ listed' = [listed EXCEPT ![Owner[r]] = @ \cup {req[r].file}]
  /\ Leave(r)
  /\ UNCHANGED <<peerVars, disk, consoleVars>>

\* Mutant: the 0 of recv is looked at for the number of words only.
RecvEndCount(r) ==
  /\ req[r].at = "count" /\ wire[r] = << >>
  /\ conn[r].at \in {"closed", "reset"}
  /\ Leave(r)
  /\ UNCHANGED <<peerVars, storeVars, consoleVars>>

\* recv returns 0.
RecvEnd(r) ==
  /\ req[r].at \in {"count", "words"} /\ wire[r] = << >>
  /\ conn[r].at \in {"closed", "reset"}
  /\ Leave(r)
  /\ UNCHANGED <<peerVars, storeVars, consoleVars>>

\* recv fails.
RecvFails(r) ==
  /\ req[r].at \in {"count", "words"}
  /\ conn[r].at = "reset"
  /\ Leave(r)
  /\ UNCHANGED <<peerVars, storeVars, consoleVars>>

-----------------------------------------------------------------------------
(* connection_handler, operation 0                                         *)

\* The end of process p: its threads stop, its connections are torn down.
Ends(p) ==
  /\ up' = [up EXCEPT ![p] = FALSE]
  /\ req' = [r \in Requests |-> IF Owner[r] = p THEN NoRequest ELSE req[r]]
  /\ conn' = [r \in Requests |->
       LET served == conn[r].at \in {"name", "rewind", "send"} /\ conn[r].peer = p
           gone == Owner[r] = p \/ req[r] = NoRequest
       IN  IF gone /\ (served \/ conn[r].at \in {"closed", "reset"}) THEN NoConn
           ELSE IF served THEN [at |-> "reset"] ELSE conn[r]]
  /\ wire' = [r \in Requests |-> IF Owner[r] = p THEN << >> ELSE wire[r]]
  /\ line' = [line EXCEPT ![p] = NoName]
  /\ filename' = [filename EXCEPT ![p] = NoName]
  /\ UNCHANGED <<port, holders, storeVars>>

Gone(r) == req[r] = NoRequest

\* send, which finds nobody when the requester has gone.
Send(r, item) ==
  wire' = IF Gone(r) THEN wire ELSE [wire EXCEPT ![r] = Append(@, item)]

\* fopen and the pass that counts.  A file that is Absent is a NULL stream.
HandlerCount(r) ==
  /\ conn[r].at = "name" /\ disk[conn[r].peer][conn[r].file] # Absent
  /\ LET text == Words(disk[conn[r].peer][conn[r].file])
     IN  /\ conn' = [conn EXCEPT ![r] =
                       [at |-> "rewind", peer |-> conn[r].peer,
                        file |-> conn[r].file, text |-> text]]
         /\ Send(r, Len(text))
  /\ UNCHANGED <<peerVars, storeVars, consoleVars, req>>

\* The second pass reads what the stream still has in its buffer, or again.
HandlerRewind(r) ==
  /\ conn[r].at = "rewind"
  /\ \E text \in {conn[r].text, Words(disk[conn[r].peer][conn[r].file])} :
       conn' = [conn EXCEPT ![r].at = "send", ![r].text = text]
  /\ UNCHANGED <<peerVars, storeVars, consoleVars, req, wire>>

HandlerSend(r) ==
  /\ conn[r].at = "send" /\ conn[r].text # << >>
  /\ Len(wire[r]) < Capacity
  /\ Send(r, Head(conn[r].text))
  /\ conn' = [conn EXCEPT ![r].text = Tail(@)]
  /\ UNCHANGED <<peerVars, storeVars, consoleVars, req>>

HandlerClose(r) ==
  /\ conn[r].at = "send" /\ conn[r].text = << >>
  /\ conn' = [conn EXCEPT ![r] = IF Gone(r) THEN NoConn ELSE [at |-> "closed"]]
  /\ UNCHANGED <<peerVars, storeVars, consoleVars, req, wire>>

\* A send that returns -1.
HandlerFails(r) ==
  /\ conn[r].at \in {"name", "send"} /\ Gone(r)
  /\ conn' = [conn EXCEPT ![r] = NoConn]
  /\ UNCHANGED <<peerVars, storeVars, consoleVars, req, wire>>

\* A send that raises SIGPIPE, which ends the process.
HandlerKilled(r) ==
  /\ conn[r].at \in {"name", "send"} /\ Gone(r)
  /\ Ends(conn[r].peer)

-----------------------------------------------------------------------------
(* The processes                                                           *)

\* `exit', which also flushes what the streams have in their buffers: the same
\* as a flush just before it.
Exit(p) == up[p] /\ Ends(p)

\* main, and the server thread, which binds port 0.
Restart(p) ==
  /\ ~up[p] /\ port[p] < MaxRestarts[p]
  /\ up' = [up EXCEPT ![p] = TRUE]
  /\ port' = [port EXCEPT ![p] = @ + 1]
  /\ holders' = [holders EXCEPT ![p] = [f \in Files |-> << >>]]
  /\ UNCHANGED <<storeVars, consoleVars, req, netVars>>

RequestStep(r) ==
  \/ CopyName(r) \/ Check(r) \/ Refuse(r) \/ NotFound(r) \/ Lookup(r)
  \/ Connect(r) \/ ConnectFails(r)
  \/ RecvCount(r) \/ RecvWord(r) \/ RecvLast(r) \/ AddToList(r) \/ RecvEnd(r)

HandlerStep(r) ==
  \/ HandlerCount(r) \/ HandlerRewind(r) \/ HandlerSend(r) \/ HandlerClose(r)
  \/ HandlerFails(r) \/ HandlerKilled(r)

Next ==
  \/ \E p, q \in Peers : Announce(p, q)
  \/ \E p \in Peers, f \in Files : TypeName(p, f)
  \/ \E r \in Requests : StartRequest(r) \/ RequestStep(r) \/ RecvFails(r)
  \/ \E r \in Requests : HandlerStep(r)
  \/ \E p \in Peers : Exit(p) \/ Restart(p)

Spec == Init /\ [][Next]_vars

-----------------------------------------------------------------------------
(* Properties                                                              *)

Names == Files \cup {NoName}

\* The state of the console, the threads, the connections and the disks.
TypeOK ==
  /\ up \in [Peers -> BOOLEAN] /\ port \in [Peers -> Nat]
  /\ \A p \in Peers, f \in Files :
       /\ disk[p][f] = Absent \/ disk[p][f] \in Text(f)
       /\ holders[p][f] \in Seq(Holder)
  /\ listed \in [Peers -> SUBSET Files]
  /\ line \in [Peers -> Names] /\ filename \in [Peers -> Names]
  /\ \A r \in Requests :
       /\ req[r].at \in {"idle", "born", "check", "refused", "lookup", "connect",
                         "count", "words", "list"}
       /\ req[r].at \in {"words", "list"} =>
            req[r].got \in Text(req[r].file) /\ req[r].left \in 0 .. UINT_RANGE - 1
       /\ conn[r].at \in {"none", "name", "rewind", "send", "closed", "reset"}
       /\ wire[r] \in Seq(Nat)

\* What a peer lists, and so offers to others, it has in full: every word of the
\* original, in order, whichever way it came and whoever exited meanwhile.
ListedIsComplete ==
  \A p \in Peers : \A f \in listed[p] :
    disk[p][f] # Absent /\ Words(disk[p][f]) = Original(f)

\* A handler never opens a file that is not there, which fscanf would crash on:
\* names reach others only through list_of_files and only with a live port.
NoMissingFile ==
  \A r \in Requests :
    conn[r].at = "name" => disk[conn[r].peer][conn[r].file] # Absent

\* When the handler reports a file as sent (P2P.c:607), what is on its way is
\* just what the receiver still waits for: the number of words, counted in a
\* pass of its own, is the number of words read again and sent, and the loop and
\* the last word behind it take them all.  Files without words are excepted:
\* 0 - 1 words never come (P2P.c:342).
SentIsReceived ==
  \A r \in Requests :
    /\ conn[r].at = "closed" /\ req[r].at = "count" /\ Size[req[r].file] > 0 =>
         wire[r] # << >> /\ Len(wire[r]) = Head(wire[r]) + 1
    /\ conn[r].at = "closed" /\ req[r].at = "words" /\ Size[req[r].file] > 0 =>
         Len(wire[r]) = req[r].left + 1
=============================================================================
