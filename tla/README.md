# Verification of networks_labs

`networks_labs` is a series of C programs written for a course on computer
networks: a stack served over a pipe, TCP and UDP request servers, and, week by
week, a peer-to-peer program that gossips the addresses of peers and sends
files. There are no tests and next to no documents; what the code promises is
found in its comments and in what it prints. This directory holds TLA+ models of
the programs, TLC configurations that check them on small instances, and proofs
checked by TLAPS. `PROJECT.json` maps every definition to the lines it stands
for and lists the runs, mutants, findings, hazards and theorems.

## 1. Inventory

| Component | State | Operations | Interacts by | Hard parts | Correct when |
|---|---|---|---|---|---|
| week01 stack program (`client_server_stack_implementation.c`) | linked stack, `err_status`, `sig_status`, the pipe | peek, push, pop, empty, display, create, stack_size; the user's prompt loop | parent writes a command into a pipe, child executes it and sends SIGUSR1, parent spins on `sig_status` | signal and pipe interleave; the orphaned child; `create` pops while its loop bound shrinks | each command is carried out once, the parent prompts only then, the stack stays well formed |
| week03 / week04 TCP server and client | one accepted connection, global `data_buffer` and `result` | accept, receive, answer, close; client: connect, ask, receive | TCP byte streams; the kernel's backlog | errors of `recvfrom` that nobody looks at, partial reads, clients that vanish, SIGPIPE, one client served at a time | no data of one client gets into the text of another's answer; as long as messages arrive whole the server survives clients that vanish; everyone gets a turn |
| week05 UDP server and client | ten slots `thread_used[]`, thread arguments, one socket | main loop fills slots, threads receive, answer, sleep, give back | shared array without lock; one socket for all threads; datagrams | failures of `pthread_create`, loss, copies and reordering of datagrams | no slot is used twice, or lost but by a failed `pthread_create`; clients get their own answers; the server goes on as long as a slot is left |
| week09 `known_nodes` | doubly linked list with `first`, `last`, `size`; `known_nodes_lock` | `list_insert`, name updates (under the lock), `list_get`, `get_known_peer` (without) | handler threads write; the round thread, synch threads and handlers read | unlocked readers, look-up outside the lock | nobody follows a wild pointer, what is announced is sent, nothing is lost |
| week09 peers and sessions | lists of several peers, connections | connect, introduction, count, records; filter, insert, name | TCP sessions between peers, every 10 s to every listed peer | order of sessions, exits in the middle, SIGPIPE, names changed on each hop, peers with several addresses | lists grow and converge, names are right, a peer with one address does not list itself |
| week09 file transfer and console | files on disk, `list_of_files`, main's `filename` buffer | `recv name`, request, serve, list | request threads, handlers of other peers, disk | check-then-act, shared buffer, truncated files, restarts with another port | what is listed is complete; every request ends |
| week08 / week09 `available_files` | chain of pairs, each with a list of holders | `dict_insert` (every handler), `dict_get` (request threads) | shared, no lock | lost updates | what can be reached can be followed, no file has two pairs, nothing that was settled is forgotten |
| week07 / week08 peers | as week09, with `list_delete_node`, a status handshake and `check_node` | deletion of peers that cannot be reached | freed nodes that others hold | use after free, indices that shift | the list stays whole; only a thread that overlapped a deletion can go astray; who is gone is deleted |
| week07 `P2P_template.c` | black list, hash map of handler threads by address | accept, refuse, ban, count; `clear` cancels | accept loop, handlers, `clear` threads; a mutex that the loop does not take | insertion after creation, cancellation anywhere, shrinking loop bound | no address is above the limit, a banned one gets nothing, nobody dies with the lock |

Not components of their own: `constants.h`, `list_of_files`, the compiled
`a.out` files and a screenshot. `week03/common.h` is not valid C.

The hazards these parts are exposed to, each at its line and with the properties
that would catch it, are in `PROJECT.json`.

## 2. Plan

Modelled in this order, the most important behaviour first:

1. `KnownNodes` (+ abstract `PeerList`): the shared list of week09. *done, proved*
2. `StackServer` (+ abstract `StackService`): week01. *done, proved but for the
   liveness*
3. `Gossip`: several peers of week09. *done, proved but for the liveness*
4. `UdpPool`: week05. *done, proved but for the liveness*
5. `TcpService`: week04 (and week03's loop). *done, proved but for the liveness*
6. `FileTransfer`: files and console of week09. *done, proved*
7. `StatusPeers` (+ abstract `PeerTable`): the list of week07 and week08, with
   deletions, its round, synch threads and handlers. *done, proved but for the
   liveness*
8. `Blacklist`: `P2P_template.c`, counting and cancelling handlers. *done, proved
   but for the liveness*
9. `Dictionary`: unlocked `dict_insert` by several handlers. *done, proved*

Not planned any more, see section 8: `strtok`'s one position shared by the
handlers, and `parse_input` of week04 and week05.

Every safety property and every refinement that a passing run checks is proved
as well; two of FileTransfer under a condition, see section 6.

## 3. Modules

Every component has a specification, an `MC` module that names the model values
for TLC (and, for FileTransfer, the values of function-valued constants), and
where there are theorems a `Proofs` module that EXTENDS it. Dictionary and
FileTransfer, whose peers and files are the same (`PeerFiles`), share one,
`FilesProofs`; for that the parts of Dictionary's specification are named
`DictInit`, `DictNext` and so on. Definitions that a comment calls *mutants* are
plausible bugs; they are in no next-state relation and serve to show that a
property can fail.

**KnownNodes** - one peer's list. `heap` is the sequence of nodes in order of
allocation, `NULL` is 0, `first`, `last` and `size` are the fields of struct
LinkedList. A handler thread takes a record (`RecvRecord`), walks the list node
by node without the lock (`WalkNext`, `WalkNamed`, `WalkBlank`, `WalkEnd`),
takes the lock (`Acquire`) and inserts with the three stores of `list_insert` as
three steps (`Alloc`, `Link`, `Count`), or writes a name (`Rename`). The round
thread and synch threads call `list_get` step by step (`GetSize`, `GetFirst`,
`GetNext`, `GetDone`). `PeerList` is the list it implements: append an entry, or
give an entry a name.

**StackServer** - parent and child of week01 with the pipe, the pending signal
and the heap of stack nodes. The parent spins on `sig_status`, which is not
volatile: the model reads it anew each time, as a build without optimisation
does. `StackService` is the abstract stack: a command that was written is
executed once, and its result is printed.

**Gossip** - several peers; a list is a sequence of [key, name], where a key is
an address with a port. A peer listens on all its addresses and knows none but
that of the connection at hand, with which it introduces itself (P2P.c:163-172)
and by which it filters its own records (405, 539-543). So a session is a pair
of a peer and an address: `Reaches` says who listens there (`To`), and may differ
from peer to peer, as 127.0.0.1 does; `From` says which address the connecting
peer has on it. `synch` is `Connect`,
`SendIntroduction`, `SendCount`, `SendRecord`, `CloseSender`; the handler is
`RecvIntroduction`, `RecvCount`, `RecvRecord`, each of which decides what to
store before it takes the lock, and `Store`. `Exit` ends a process; a send to
it may pass, fail (`SenderFails`) or raise SIGPIPE (`BrokenPipe`). The thread
level of the list is KnownNodes' business.

**UdpPool** - the slots, the main thread that walks them (`SkipSlot`,
`StartThread`, `StartFails`, after which the slot is in `lost`), one thread per
slot (`Recv`, `Reply`, `Finish`), the server's socket, the network as a set of
datagrams (`Deliver`, `DeliverCopy`, `Lose`), and clients (`Ask`, `Answered`).

**TcpService** - the server's one loop (`Accept`, `Recv`, `RecvEnd`,
`RecvError`, `Reply`, `BrokenPipe`) and clients. A connection is two streams of
pieces, so that a read can return part of a message; `data_buffer` keeps, piece
by piece, whose data it holds. An answer is the whole result struct, in two
halves: `parse_input` writes a text and its NUL over the start of the struct
(`Answer`), and what lies behind the NUL are bytes of earlier answers, which are
sent too. Whose these may be is `left` for the server's struct and `behind` for
a half. week03's server runs the same loop.

**FileTransfer** - consoles (`TypeName`, `StartRequest`), request threads
(`CopyName` ... `AddToList`), handlers (`HandlerCount`, `HandlerRewind`,
`HandlerSend`, `HandlerClose`), announcements (one step each: lists of files
only grow, so an old one is an earlier one), `Exit` and `Restart`. The disk holds
a sequence of words per peer and file; a stream writes through when its buffer
is full, at any word, and on `fclose`. A second writer may leave a hole of NUL
bytes, and `Words` says what `fscanf` makes of it.

**StatusPeers** - one peer's list in week07 and week08, where nodes go as well
as come. Nodes are memory cells: `used` are the allocated ones, malloc may
return any other, and a freed cell keeps its links, address and port until then,
which is what an unlocked thread reads there (only its name may look empty or
not). `list_insert` is `Alloc`, `Link`, `Count` under the lock;
`list_delete_node` is `Unlink`, `FreeNode`, `Shrink` under the same lock, called
by `synch` when it cannot connect (`ConnectFails`) or is told that the peer is
not ready (`NotReady`). `list_get` is again walked step by step, by the round
(`RoundTest`, `Spawn`, `RoundSleep`) and by `synch` (`SyncCount`, `SyncTest`,
`SyncSend`). A record that others tell goes through `check_node`
(`CheckAnswered`, `CheckFails`). A thread that follows NULL, frees twice or
writes into a freed node sets `culprit` and the model stops: C defines nothing
after that. `overtaken` remembers which threads were in the middle of the list,
with an index, a number or a pointer, when a deletion was. `PeerTable` is the
table that the list implements: append, rename, remove.

**Blacklist** - the accept loop of `P2P_template.c` (`Accept`, `Refuse`, `Ban`,
`Admit`, `Create`, `CreateFails`, `Insert`). `pthread_create` may fail and nobody
looks at it: `Ban` then starts no `clear`, and after `CreateFails` the loop enters
whatever `conn_thread` holds, the thread of an earlier connection. The rest are
its handlers (`Start` ... `Close`, with the two
exits that do without `hashmap_delete`, `NoPeer` and `SendFails`), the `clear`
threads and `pthread_cancel` (`Cancelled`). The hash map and the set are not in
the repository; each call is a step.

**Dictionary** - `dict_insert` of week08 and week09, which are the same file,
store by store and without a lock, down to the `list_insert` it ends in
(`ReadLast`, `SetLast`, `EndSucc`, `LinkNode`). `settled` is a history variable:
what a reader found when nobody inserted last.

## 4. Runs

Runs marked *violation* state what the code itself says of the program, in a
comment or a message, and show a behaviour that contradicts it (the findings of
`PROJECT.json`). All others pass.

| Run | Bounds | Shows |
|---|---|---|
| known_nodes | 2 handlers, 1 synch thread, the round, 2 keys, 2 nodes | readers without the lock never follow a wild pointer and synch sends a prefix of the list, in order; a handler lists a key once; the list refines PeerList; each record is listed; each node gets its turn |
| stack_server | 2 values, 4 nodes | lockstep of the two processes, stack shape, refinement of StackService, every command answered |
| gossip_safety | 3 peers, one with two addresses, one that nobody reaches; 2 sessions at a time, 1 exit, 1 message in flight | `EntriesTrue`: who has one address does not list itself, names have the right owner and no more blanks than there are peers; what was sent is listed, lists grow |
| gossip_live | 3 peers with one address each, 1 session at a time, no exit, 2 messages in flight | lists converge |
| udp_pool | 2 slots, 2 clients, 2 values, 2 failures, loss, 1 copy | slots are accounted for; clients get their own answers, and the latest unless the network copies; unless every slot is lost, a request that arrived is answered and the pool goes on |
| tcp_service | 2 clients, 2 values (0 closes), 1 split read, backlog 1 | no cross talk in the text of answers; when messages arrive whole the server survives and clients show the answer to what they asked; the waiting client is accepted, unless the server ends |
| file_transfer | 3 peers, 1 request thread at two of them, a file of 2 words, 3 items in flight, exits, 1 restart | what is listed is complete; no handler opens a missing file; what was sent is what the receiver counts |
| file_transfer_twice (*violation*) | 2 requests at one peer | the second empties a listed file |
| status_peers | 2 keys, 3 cells, 1 handler, 1 synch thread, the round | the list stays whole and refines PeerTable; only a thread that a deletion overtook follows NULL or a freed node, or takes one peer's node for another's |
| status_peers_live | 2 keys, 2 cells, 1 peer that may exit | its entry is deleted in the end |
| blacklist | 2 addresses, limit 1, 3 handler threads | who serves is counted, sockets are closed, the limit holds, a banned address gets nothing, also when threads cannot be created; a `clear` that was started ends, and so do the cancelled handlers of its address |
| dictionary | 3 files, 3 peers, 2 handlers, 4 pairs, 5 nodes | what is reached can be followed; no file has two pairs; what was there when nobody inserted stays |

Why the bounds are enough: in every module the interesting cases need two actors
on one object and a third that looks on. Two handlers and two nodes give
insertion into an empty list, behind a node, and behind a node another handler
is linking. Three peers are the fewest for which a record travels over a peer in
between, and a file likewise; the peer that starts again is the one in between.
In gossip_safety the peer p2 has two addresses, the fewest with which a peer can
list itself, and does; its neighbour p1 hears of it under both, and of p3 behind
a gateway. Two handlers of p1 are at work then, for p2 and for p3, and two of p2,
one for each of its addresses, which may store the same key. All to all, with one address each, is gossip_live. Two slots, with two
clients and two failures, give two threads on one socket, then a pool of one,
then none. Two words have a first one, in the loop, and a last one, outside it.
One split read is enough to shift all later reads of a stream. Two values give a
client of week04 an answer and a way to leave, and tell an old answer from the
one to a 0. `UINT_RANGE` is 2^32 in the program and 16 in the runs; only 0 - 1
can wrap, and no run has a file without words. Three cells are the fewest with a
node to be deleted between two others, and let malloc return a cell that another
thread still holds. One synch thread is enough for an old pointer: the round may
take a node with `list_get`, wait, and hand it to the next synch thread after
the last one has deleted it. In Blacklist the second thread of an address is the
one that is one too many, and the third thread is for the other address. With a
limit of one `clear` finds one handler; that the safety properties hold when it
finds more, and skips every other, is left to the proofs, which are for every
limit. In Dictionary two handlers, one chain and three files give a lost pair, a
lost holder, and a chain whose `last` has left it; four pairs and five nodes let
an insertion follow on that.

Symmetry is used for cells and keys (status_peers), and files, peers and handlers
(dictionary): permuting them maps behaviours to behaviours, and those runs check
no liveness.

`CHECK_DEADLOCK FALSE` is set where the system really stops, or where the model
does: Gossip and FileTransfer when all peers have exited, TcpService when all
clients have left and the server waits in `select`, StatusPeers when a thread
has gone wrong. Dictionary stops when the memory of its bound is used up. The
other modules are checked for deadlock.

## 5. Fairness

Weak fairness of each thread: the system schedules a thread that can go on, and
`known_nodes_lock` is released by every path. WF is enough for the lock in
KnownNodes because only finitely many insertions and namings can overtake a
waiting handler. Users are never obliged to type, the network of UdpPool not to
deliver any particular datagram (`RequestAnswered` begins where a request has
reached the server; it and `ServesOnOneSlot` end when every slot is lost), peers
not to exit. In Gossip `Connect` has strong
fairness, because the bound on sessions, which the program does not have, could
otherwise keep a peer from its turn for ever; the round thread of the code
tries every entry every 10 seconds. `EveryoneAccepted` of TcpService has as its
premise that users leave, and says that a waiting client is accepted or the
server has ended: `accept` may fail, and SIGPIPE kill it.

In StatusPeers a waiting insertion, deletion or naming has strong fairness for
the lock, since others may come before it again and again, and so has `Spawn`,
which waits for one of the model's few synch threads: the program creates a new
one. Peers answer, close or fail: a `recv` that never returns, which the code
does not guard against, is left out there. Nobody is obliged to exit, and the
failure of a connection to a live peer is allowed and not required. In Blacklist
handlers, `clear` and cancellation are scheduled, the mutex is given to all that
wait for it, and clients are obliged to nothing: a session may stay open for
ever. FileTransfer and Dictionary are checked for safety only.

## 6. Proofs

All for any values of the constants, from the named ASSUMEs only; two theorems
about FileTransfer have one hypothesis more, which is named there.

*KnownNodes* (`KnownNodesProofs`). `Inv` is inductive. `TypeOK` and the wanted
properties are not enough, as a reader's next step depends on how the nodes are
chained: `ListShape` says that nodes are linked in the order of allocation and
that, inside `list_insert` only, the newest is not yet linked or counted;
`HandlerView` says what a look-up knows (no node behind it has the key, and when
it ends none its own thread inserted has); `ReaderView` says that a reader stands
on node number `hop`, and that every index it asks for was below a `size` that
only grows. Steps of handlers leave the readers' variables alone and extend what
they see (`ReaderFrame`); steps of readers leave the list alone
(`HandlerFrame`). Theorems: `Invariant`, `TypeCorrect`, `NoWildReads`,
`SyncSendsPrefix`, `OneCopy`, and `Refinement`, that the list implements
PeerList: `Count` is the append, `Rename` the naming, and everything else
stutters.

*StackServer* (`StackServerProofs`). `Lockstep` places the request or its signal
in one of pipe, child, pending signal and flag, and says that none is left over
at the prompt; it is inductive and gives `SignalMeansDone` and `OneRequest`. The
invariant of the stack is `Chain`: the nodes from the head down, `size` of them,
are allocated and pairwise different, and NULL follows. A push puts a free node
on top; a pop takes the top, and as no other place has the same node, freeing it
leaves the rest as it was; `create` begins anew and leaves the nodes it does not
free where they are. The stack is read by `below`, a recursive function of the
number of steps; what it yields follows by induction over a set of numbers
(`SetInduction`, from which `WalkExists` and `FollowUnique`). Theorems:
`LockstepHolds`, `DoneWhenPrompted`, `NoLostWakeup`, `TypeCorrect`,
`StackKeepsShape`, and `Refinement`, that the two processes implement
StackService: `WriteCommand` is its `Ask`, `EndOfInput` its `Leave`, `Execute`
its `Serve`, and everything else stutters. `Lockstep` is needed there, for
nothing is asked while a command is open, and `OutOfMemory` comes only when the
user has left, since the model's users push no more than its memory holds.

*UdpPool* (`UdpPoolProofs`). `Inv` is the type, `SlotsAccounted` and `Owned`
(every datagram and every thread that answers carries data of the client it is
for); it gives `NoCrossTalk`, whatever the network does. `AnswersLatest` needs to
count: `AllLatest` says that, as long as the network has copied nothing, a
client's request or the answer to it is in one place at most, the network, the
socket's queue or a thread (`Alone`), that it carries what the client asked last
(`Current`), and that there is none while the client is at its prompt
(`Prompting`). Theorems: `Invariant`,
`SlotsAccountedFor`, `OwnAnswers`, `ShowsLatestAnswer`.

*Gossip* (`GossipProofs`). A handler reads a number where a number is due,
whatever has come. `Protocol` (`InStep`, `Ordered`) counts what each side of a
session has sent and taken, and says that the introduction, the number and the
records are in the channel in this order, the difference of the two in all.
`Carried` says that the records are those of the sender's list, in its order,
and that what was taken is listed or about to be. The hard part is `PadBounded`,
that a name gathers no more blanks than there are peers, since names go round in
cycles. `Settled(k)` are the peers that have a name for the address k, blanks
included; none of them takes in another. `Fair` says that a listed name of k has
at most as many blanks as there are settled peers, one on the way at most one
more, and that a handler with something to store has decided so when its peer
was not settled yet: when it stores, its peer settles, and the bound grows by
one, too. That two handlers may store for the same peer is what makes this a
matter of the first entry (`Foremost`). `NoSelf` needs two things: that the only
address of a peer is neither listed nor about to be listed by it (`Foreign`,
part of `Fair`), since any connection to it is at this address; and that nobody
connects to what it does not list (`Reached`), so that a peer with one address
never introduces itself to itself. Theorems: `TypeCorrect`, `NamesTrue`,
`RecordsListed`, and `ListsOnlyGrow`, an action property.

*TcpService* (`TcpServiceProofs`). `NoCrossTalk` is about the text of an answer,
not about the bytes behind its NUL. It holds however `recvfrom` splits what was
sent, and needs that the pieces in a stream are those of the client whose stream
it is (`OwnStreams`). For `WholeMessages`, `InStep` says that, as long as no
message was split, each client has its message in one place at most: none
(`Quiet`), its request under way (`Sent`) or at the server (`Served`), or the
answer (`Answered`), of the full length and, up to its NUL, to what it asked
last (`IsAnswer`); and that the two ends of a connection know the same of each
other (`Linked`), so that a connection the server knows to be gone has nothing
left for it to read or to answer. A client that has gone may leave one request
behind, which the server still reads; it dies of the second answer to such a
client, and never gets to it. Theorems: `TypeCorrect`, `TextsAreOwn`,
`WholeIsSafe`.

*Dictionary* (`FilesProofs`). What a reader finds is `Chain`, defined by
recursion over a number of steps. By induction over a set of numbers it is the
least set that has the first pair and is closed under the links (`ChainLeast`,
`ChainClosed`); what a store does to it follows from that: nothing when it is
made outside (`ChainKeeps`), one pair more when it is made behind the last
(`ChainExtended`). The invariant has `Memory` (pointers lead from older to
younger cells, and only one to a pair), `Thread` (what a handler holds at each
step), `Passed` (of the pairs a handler has passed, those still linked have other
keys than its own; a pair that others have appended since hangs behind the one it
stands on, and its store cuts that off), an owner for every node
(`Owned`: one pair, whose `last` is the youngest of its nodes), and `SettledKept`
(what was settled is linked, and no handler is about to store in front of it,
`Spared`). `HasRoom` says that there is memory for every insertion that has
begun, which is the model's bound. Theorems: `AlwaysReadable`, `NoDoubleFile`,
`SettledIsKept`.

*FileTransfer* (`FilesProofs`, behind Dictionary). The first invariant,
`TransferInv`, holds whatever the threads do: `Known` says that whoever
`available_files` names as a holder lists the file, and has something of it on
the disk, since files and lists only grow; `Session` ties each request thread to
its handler and to what is on the connection, and bounds the words taken, on
their way and still to be sent by the size of the file, also when another thread
of the peer has cut the file short under the handler. From it follow
`TransferTypeCorrect` and `FilesAreThere`.

That a listed file is complete is not true of two threads of a peer that fetch
the same file: that is the violation `file_transfer_twice` shows. The theorems
about it assume that this one thing does not happen, `[]Apart`; a peer may fetch
different files at the same time, and anyone may exit, restart or break off at
any step. The second invariant, `ExactInv`, then says which words are where: the
items taken, those on the connection and those still to be sent are the number
of words and the words of the file, in order (`Flow`); what a thread has got is
the beginning of the file, and what it has flushed of that is on the disk
(`Gotten`); and a file that is being fetched is not listed, so nobody is served
from it. `Apart` is needed in two places: that nobody else writes the file
(`WriteExact`) and that nobody else lists it (`AddToListExact`). What `fscanf`
finds is the recursive function `Words`, whose equations are proved by induction
over a set of numbers (`WordsRead`); it never has more words than the text
(`WordsText`), and finds the words of a whole file again (`WordsOfUpto`).
Theorems: `TransferInvariant`, `TransferTypeCorrect`, `FilesAreThere`,
`ListedIsWhole`, `AllSentIsReceived`, and `OneThreadPerPeer`: if no peer runs
two request threads, as in the run `file_transfer`, `Apart` holds by itself.

*Blacklist* (`BlacklistProofs`). The loop counts without the lock and creates a
thread later, so `NeverTooMany` is not inductive. `Counted` says that a serving
handler is in `active_connections` under its own address, but for the instant
before it is entered, unless its address is banned and it was cancelled. After a
failed creation an entry may name a thread of another address, which then may be
cancelled as well; but that does not take it out of its own list, which only it
and the `clear` of its address do. `Origin` says that the loop lets in only
addresses that are not banned, and that `clear` runs only for those that are; so
what the loop counts for an address it lets in includes all that serve, and
`Limit` carries the room it saw from the test to the creation, as no step in
between adds a handler (`LimitFrame`). Cardinalities come from
FiniteSetTheorems, for which the assumption says that threads are finitely many.
Theorems: `Invariant`, `LimitHolds`, `BannedStaysBanned`.

*StatusPeers* (`StatusPeersProofs`). `ListWhole` alone is not inductive: a
deletion writes through the links of whatever node its thread was given before
it waited for the lock. `Accounted` says that an allocated node that is not in
the list belongs to the holder of the lock; so with the lock free a pointer to
an allocated node points into the list, however old it is, and
`list_delete_node` takes out a node of the chain (`UnlinkIInv`). `Locked` says
who is inside `list_insert` and `list_delete_node`, `Balance` what `size` lacks
meanwhile, `Chained` how first, last and the links lie, `Pending` what is true
of the node on its way in or out, and `Records` that handlers at work have a
peer's address. Theorems: `ListStaysWhole`, and `ListImplementsTable`, that the
list implements PeerTable: `Link` is `Add`, `Rename` is `SetName`, `Unlink` is
`Remove`, and everything else stutters. That a thread may go wrong is part of
the model: the theorems are about the list up to that step. Which threads may is
the third theorem, `OnlyOvertakenGoWrong`, and needs `Fresh`: while a thread is
in the list and not in `overtaken`, no deletion is under way and what it has
read, the node under it, the index it asks for or the peer it was given, is
still there.

`TypeOK` and the inductive `Inv` of KnownNodes, `TypeOK` of UdpPool, and
`SignalMeansDone` and `OneRequest`, both consequences of `Lockstep`, are proved
and no run spends time on them.

The assumptions are that the values that stand for nobody, nothing and NULL are
none of the peers, nodes, files, texts or commands; that nodes (StackServer),
peers (Gossip), threads (Blacklist) and handlers (Dictionary) are finitely many;
that a file has fewer words than an unsigned int has values; and that bounds are
natural numbers.

Only model-checked: all liveness, for which the provers here have no rules of
fairness.

## 7. Also met while modelling

The models contain the following too, but no run is spent on them.

- Two handlers that look a new peer up before either inserts it list it twice,
  and print both times that a new peer was added (week09 P2P.c:545-549;
  KnownNodes). `OneCopyPerHandler` is what remains true.
- `create` of week01 pops `while i < size` with a size that shrinks: half of
  the old nodes stay allocated (lines 97-98; `Create` of StackServer).
- A peer with several addresses does not recognise itself: its record, which
  another peer lists under one of them, passes the filter of a connection that
  comes in at another (week09 P2P.c:405, 539-543), as when one peer on its host
  knows it as 127.0.0.1 and a third by the address of its network. It then lists
  itself and connects to itself every round (`RecvRecord` of Gossip;
  gossip_safety; `NoSelf` is about peers with one address). To others it is one
  entry for each address.
- A UDP slot whose `pthread_create` fails stays marked as used, as nobody looks at
  the result and only the thread would free the slot. After as many failures as
  slots main spins and nobody receives any more, where a comment has an "infinite
  loop for servicing the client" (week05/server.c:138-146; `StartFails` of
  UdpPool). The threads are never joined, so their memory runs out in the end.
  `udp_pool` goes as far as that, and its liveness properties except it.
- The week04 server sends its whole result struct, which is never cleared: behind
  the NUL of an answer go bytes of longer answers to earlier clients
  (server.c:190-195; `Answer` of TcpService). A client shows them only when a read
  was split: half an answer, without its NUL, then runs on into what an earlier
  answer left in the client's own struct.
- A `synch` thread of week08 that cannot connect deletes the node it was given
  before it tried to. If another thread has deleted it since and malloc has
  returned the memory for a new peer, the new peer is deleted (P2P.c:150-158;
  two synch threads, 25 steps). `OnlyOvertakenStray` says when nothing of the
  kind can happen.
- `nodes_count` of week08 is sent once; when a deletion follows, `list_get`
  returns NULL for the last index and `synch` reads through it (P2P.c:225-233;
  `ReadNull` of StatusPeers).
- `check_node` of week08 (P2P.c:416-475) does not close its socket when the peer
  answers.
- Two handlers at the end of `available_files` overwrite each other's new pair,
  and both have printed that the file was added (week08 P2P.c:581;
  `AppendPair`, `LinkNode` of Dictionary). A list of holders whose `last` has
  left the chain loses all later holders as well, without any overlap.
  `SettledStays` is what remains true.
- `clear` of `P2P_template.c` counts up to a size that shrinks with each
  deletion (662-676): of n handlers it cancels n/2, rounded up. A cancelled
  handler's socket, and that of the connection that led to the ban (771-779),
  stay open; a handler that could not send (629-646) or that ended before
  `hashmap_insert` (789) stays counted. When `pthread_create` of `clear` fails
  (777) the address is banned and its handlers go on; when that of a handler
  fails (787), `conn_thread`, which holds the thread of an earlier connection, is
  entered under the new address, and a ban of this address may cancel the handler
  of another (`Ban`, `CreateFails`). So an address may be banned with fewer
  connections than the limit; `NeverTooMany` says never with more.
- `get_peer_information` (week09, P2P.c:107) puts a blank behind an empty name
  too, so a peer whose name is unknown is passed on with the name " ", and its
  real name is never taken up (`Padded`, `Decision` of Gossip).
- A send to a peer that has exited raises SIGPIPE and ends the process, though
  the code after `send` means to end one thread only (`BrokenPipe` of Gossip,
  `HandlerKilled` of FileTransfer).
- The week04 client does not look at what `recvfrom` returns (client.c:90): when
  the server closes the connection it shows the previous result (`RecvNothing`
  of TcpService).
- `is_in_database` (week09, P2P.c:249) refuses a name that begins with a listed
  name (`Matches` of FileTransfer).
- A second `recv` typed before the first thread has run overwrites the name that
  thread copies (P2P.c:764; `TypeName`, `CopyName` of FileTransfer).
- A file without words is never received: the receiver waits for 0 - 1 words of
  an unsigned int (P2P.c:342; `RecvCount` of FileTransfer).

## 8. What is not modelled

- `strtok` keeps its position in one place for all threads, so two handlers that
  cut messages at the same time disturb each other. What then comes out depends
  on the text in both buffers and is a data race; every parse is modelled with a
  position of its own.
- `parse_input` of week04 and week05 is an answer that carries the request it
  was made from; the digits of an age that overflow an int are one expression's
  undefined behaviour.
- Descriptors that are never closed (`create_introduction`): nothing depends on
  their number until the process runs out of them.
- The file operations of week08 and of `P2P_template.c`: those of week08 are,
  but for the status handshake before them, those of FileTransfer.
- The hash map and the set of `P2P_template.c`, which are in no file of the
  repository. They are not made for several threads, and calls that overlap
  would be a race inside them; here a call is one step.
- `list_delete`, `list_destroy`, `dict_destroy` and other functions that nobody
  calls; `week03/common.h`, which is not valid C.
- The layout of messages, buffers and numbers (a port of five digits in
  `port_number[5]`, names longer than their arrays), wording of output, and
  messages cut in the middle by a kill of the sender. Address conversion and
  socket creation are assumed to succeed; connects, sends and receives may fail.
- In StatusPeers the failure of `pthread_create`, and memory orders: there, in
  KnownNodes and in Dictionary, stores are seen in the order of the source.
- SIGPIPE in StatusPeers: a send to a peer that is gone ends the sending thread
  there, not the process, as an error would (in Gossip, FileTransfer and
  TcpService it ends the process).
- Changes of a host's addresses and routes: `Reaches` and `From` of Gossip are
  constants.
- The bytes behind the NUL of an answer of week05, whose result struct is on the
  stack of each thread and not cleared either (server.c:48-53).
- What `pthread_cancel` does with a `conn_thread` that was never written, as the
  first creation failed: it stands for no thread (`Nobody` of Blacklist), where C
  leaves it undefined.
- A stream that a request leaves open is flushed by `exit` only with words that
  are the file's own, at their own place, which changes nothing.
