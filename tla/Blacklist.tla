----------------------------- MODULE Blacklist -----------------------------
(***************************************************************************)
(* week07/P2P_template.c: the peer that refuses an address with too many   *)
(* connections.  The accept loop counts the handler threads of an address  *)
(* in active_connections; at the limit it puts the address on black_list   *)
(* and starts a thread, clear, that cancels the handlers of the address.   *)
(*                                                                         *)
(* The hash map and the set are not part of the repository (external).     *)
(* They are taken to do what the calls need, each call in one step: the    *)
(* map keeps the threads of each address and deleting an absent one does   *)
(* nothing.  Which thread is `first' in a list is left open.               *)
(*                                                                         *)
(* Threads are neither joined nor detached: no pthread_t is used twice,    *)
(* and what they leave allocated may make pthread_create fail, whose       *)
(* result is not looked at.                                                *)
(* pthread_cancel takes effect when the thread is in a call like recv,     *)
(* send or close, and not while it waits for a mutex or holds one.         *)
(***************************************************************************)
EXTENDS Naturals, FiniteSets

CONSTANTS Addrs,    \* client addresses
          Threads,  \* handler threads; bound: connections that are served
          MAX_ACTIVE_CONNECTIONS_NUMBER,
          Nobody    \* black_list_lock is free

ASSUME BlacklistAssumption ==
  /\ MAX_ACTIVE_CONNECTIONS_NUMBER \in Nat \ {0}
  /\ Nobody \notin Addrs \cup Threads /\ Addrs \cap Threads = {}
  /\ IsFiniteSet(Threads)

VARIABLES
  mpc, client, created,  \* accept loop: where it is, client_addr, conn_thread
  black_list,
  active_connections,    \* per address, the threads in its list
  lock,                  \* holder of black_list_lock
  pc, addr, open,        \* per handler: where it is, its client, its socket
  cancelled,             \* the threads pthread_cancel was called for
  cpc, i                 \* per address: its clear thread, and the loop in it

mainVars    == <<mpc, client, created, black_list>>
handlerVars == <<pc, addr, open>>
clearVars   == <<cancelled, cpc, i>>
vars == <<mainVars, active_connections, lock, handlerVars, clearVars>>

Init ==
  /\ mpc = "accept" /\ client = Nobody /\ created = Nobody
  /\ black_list = {}
  /\ active_connections = [a \in Addrs |-> {}]
  /\ lock = Nobody
  /\ pc = [t \in Threads |-> "none"]
  /\ addr = [t \in Threads |-> Nobody]
  /\ open = [t \in Threads |-> FALSE]
  /\ cancelled = {}
  /\ cpc = [a \in Addrs |-> "none"] /\ i = [a \in Addrs |-> 0]

-----------------------------------------------------------------------------
(* The accept loop                                                         *)

MainGoes(from, to) == mpc = from /\ mpc' = to

Accept ==
  /\ MainGoes("accept", "test")
  /\ client' \in Addrs
  /\ UNCHANGED <<created, black_list, active_connections, lock, handlerVars,
                 clearVars>>

\* The new socket is closed.
Refuse ==
  /\ MainGoes("test", "accept")
  /\ client \in black_list
  /\ client' = Nobody
  /\ UNCHANGED <<created, black_list, active_connections, lock, handlerVars,
                 clearVars>>

number_of_active_connections == Cardinality(active_connections[client])

\* set_add, and pthread_create of clear, which may fail; the new socket stays
\* open and is forgotten.
Ban ==
  /\ MainGoes("test", "accept")
  /\ client \notin black_list
  /\ number_of_active_connections >= MAX_ACTIVE_CONNECTIONS_NUMBER
  /\ black_list' = black_list \cup {client}
  /\ cpc' = [cpc EXCEPT ![client] = "wait"] \/ UNCHANGED cpc
  /\ client' = Nobody
  /\ UNCHANGED <<created, active_connections, lock, handlerVars, cancelled, i>>

\* Mutant: one connection too many is let in.
AdmitOneMore ==
  /\ MainGoes("test", "create")
  /\ client \notin black_list
  /\ number_of_active_connections <= MAX_ACTIVE_CONNECTIONS_NUMBER
  /\ UNCHANGED <<client, created, black_list, active_connections, lock,
                 handlerVars, clearVars>>

\* Mutant: the black list is not asked.
AdmitAnyone ==
  /\ MainGoes("test", "create")
  /\ number_of_active_connections < MAX_ACTIVE_CONNECTIONS_NUMBER
  /\ UNCHANGED <<client, created, black_list, active_connections, lock,
                 handlerVars, clearVars>>

Admit ==
  /\ MainGoes("test", "create")
  /\ client \notin black_list
  /\ number_of_active_connections < MAX_ACTIVE_CONNECTIONS_NUMBER
  /\ UNCHANGED <<client, created, black_list, active_connections, lock,
                 handlerVars, clearVars>>

Unused == {t \in Threads : pc[t] = "none"}

\* pthread_create; which of the unused identifiers it returns is all the same.
\* The handler runs before it is in active_connections.
Create ==
  /\ MainGoes("create", "insert")
  /\ Unused # {} /\ created' = CHOOSE t \in Unused : TRUE
  /\ pc' = [pc EXCEPT ![created'] = "new"]
  /\ addr' = [addr EXCEPT ![created'] = client]
  /\ open' = [open EXCEPT ![created'] = TRUE]
  /\ UNCHANGED <<client, black_list, active_connections, lock, clearVars>>

\* pthread_create fails.  conn_thread still holds the thread created last, of
\* whatever address, or no thread at all (Nobody).
CreateFails ==
  /\ MainGoes("create", "insert")
  /\ UNCHANGED <<client, created, black_list, active_connections, lock,
                 handlerVars, clearVars>>

\* hashmap_insert, without the lock, and also if the handler has ended.
Insert ==
  /\ MainGoes("insert", "accept")
  /\ active_connections' = [active_connections EXCEPT ![client] = @ \cup {created}]
  /\ client' = Nobody
  /\ UNCHANGED <<created, black_list, lock, handlerVars, clearVars>>

-----------------------------------------------------------------------------
(* connection_handler                                                      *)

Goes(t, from, to) == pc[t] = from /\ pc' = [pc EXCEPT ![t] = to]

\* Mutant: hashmap_delete is called before the session begins.
StartForgets(t) ==
  /\ Goes(t, "new", "recv")
  /\ active_connections' = [active_connections EXCEPT ![addr[t]] = @ \ {t}]
  /\ UNCHANGED <<mainVars, lock, addr, open, clearVars>>

Start(t) ==
  /\ Goes(t, "new", "recv")
  /\ UNCHANGED <<mainVars, active_connections, lock, addr, open, clearVars>>

\* getsockname or getpeername fails: close, but no hashmap_delete.
NoPeer(t) ==
  /\ Goes(t, "new", "done")
  /\ open' = [open EXCEPT ![t] = FALSE]
  /\ UNCHANGED <<mainVars, active_connections, lock, addr, clearVars>>

\* Operation 0 and the file name are there.
Request(t) ==
  /\ Goes(t, "recv", "send")
  /\ UNCHANGED <<mainVars, active_connections, lock, addr, open, clearVars>>

\* A recv fails or returns 0, operation 1 is through, or the file is sent.
Finish(t) ==
  /\ Goes(t, "recv", "leave") \/ Goes(t, "send", "leave")
  /\ UNCHANGED <<mainVars, active_connections, lock, addr, open, clearVars>>

\* A send fails: close, but no hashmap_delete.
SendFails(t) ==
  /\ Goes(t, "send", "done")
  /\ open' = [open EXCEPT ![t] = FALSE]
  /\ UNCHANGED <<mainVars, active_connections, lock, addr, clearVars>>

Lock(t) ==
  /\ Goes(t, "leave", "locked")
  /\ lock = Nobody /\ lock' = t
  /\ UNCHANGED <<mainVars, active_connections, addr, open, clearVars>>

\* hashmap_delete and the unlock.
Delete(t) ==
  /\ Goes(t, "locked", "close")
  /\ active_connections' = [active_connections EXCEPT ![addr[t]] = @ \ {t}]
  /\ lock' = Nobody
  /\ UNCHANGED <<mainVars, addr, open, clearVars>>

Close(t) ==
  /\ Goes(t, "close", "done")
  /\ open' = [open EXCEPT ![t] = FALSE]
  /\ UNCHANGED <<mainVars, active_connections, lock, addr, clearVars>>

\* The thread is cancelled; nobody closes its socket.
Cancelled(t) ==
  /\ t \in cancelled /\ pc[t] \in {"new", "recv", "send", "close"}
  /\ pc' = [pc EXCEPT ![t] = "done"]
  /\ UNCHANGED <<mainVars, active_connections, lock, addr, open, clearVars>>

-----------------------------------------------------------------------------
(* clear                                                                   *)

ClearLock(a) ==
  /\ cpc[a] = "wait" /\ cpc' = [cpc EXCEPT ![a] = "loop"]
  /\ lock = Nobody /\ lock' = a
  /\ UNCHANGED <<mainVars, active_connections, handlerVars, cancelled, i>>

ClearNext(a) ==
  /\ cpc[a] = "loop" /\ i[a] < Cardinality(active_connections[a])
  /\ \E t \in active_connections[a] :
       /\ cancelled' = cancelled \cup {t}
       /\ active_connections' = [active_connections EXCEPT ![a] = @ \ {t}]
  /\ i' = [i EXCEPT ![a] = @ + 1]
  /\ UNCHANGED <<mainVars, lock, handlerVars, cpc>>

\* Mutant: the lock is kept.
ClearEndKeeps(a) ==
  /\ cpc[a] = "loop" /\ i[a] >= Cardinality(active_connections[a])
  /\ cpc' = [cpc EXCEPT ![a] = "done"]
  /\ UNCHANGED <<mainVars, active_connections, lock, handlerVars, cancelled, i>>

ClearEnd(a) ==
  /\ cpc[a] = "loop" /\ i[a] >= Cardinality(active_connections[a])
  /\ cpc' = [cpc EXCEPT ![a] = "done"]
  /\ lock' = Nobody
  /\ UNCHANGED <<mainVars, active_connections, handlerVars, cancelled, i>>

-----------------------------------------------------------------------------
Main == Accept \/ Refuse \/ Ban \/ Admit \/ Create \/ CreateFails \/ Insert

\* What a handler does on its own.
Handler(t) ==
  Start(t) \/ NoPeer(t) \/ Lock(t) \/ Delete(t) \/ Close(t) \/ Cancelled(t)

\* What it does when the client lets it.
Session(t) == Request(t) \/ Finish(t) \/ SendFails(t)

Clear(a) == ClearLock(a) \/ ClearNext(a) \/ ClearEnd(a)

Next ==
  \/ Main
  \/ \E t \in Threads : Handler(t) \/ Session(t)
  \/ \E a \in Addrs : Clear(a)

Spec == Init /\ [][Next]_vars

\* Threads are scheduled and the mutex is given to all that wait for it.  A
\* client may keep a session open for ever.
FairSpec ==
  /\ Spec
  /\ \A t \in Threads : WF_vars(Handler(t)) /\ SF_vars(Lock(t))
  /\ \A a \in Addrs : WF_vars(Clear(a)) /\ SF_vars(ClearLock(a))

-----------------------------------------------------------------------------
TypeOK ==
  /\ mpc \in {"accept", "test", "create", "insert"}
  /\ client \in Addrs \cup {Nobody} /\ created \in Threads \cup {Nobody}
  /\ black_list \subseteq Addrs
  /\ active_connections \in [Addrs -> SUBSET (Threads \cup {Nobody})]
  /\ lock \in Addrs \cup Threads \cup {Nobody}
  /\ pc \in [Threads -> {"none", "new", "recv", "send", "leave", "locked",
                         "close", "done"}]
  /\ addr \in [Threads -> Addrs \cup {Nobody}]
  /\ open \in [Threads -> BOOLEAN]
  /\ cancelled \subseteq Threads \cup {Nobody}
  /\ cpc \in [Addrs -> {"none", "wait", "loop", "done"}] /\ i \in [Addrs -> Nat]

Serving(a) ==
  {t \in Threads : addr[t] = a /\ pc[t] \in {"new", "recv", "send", "leave", "locked"}}

Uncancelled(a) == Serving(a) \ (IF a \in black_list THEN cancelled ELSE {})

\* A handler that serves is counted under its own address, but for the instant
\* before its hashmap_insert (787-789), and for those cancelled when the address
\* is on the black list: that clear cancels one for another address does not
\* take it from its own count.
Counted ==
  \A a \in Addrs : Uncancelled(a) \subseteq
    active_connections[a] \cup (IF mpc = "insert" /\ client = a THEN {created} ELSE {})

\* A handler that ends on its own has closed its socket.
Closed == \A t \in Threads : open[t] /\ pc[t] = "done" => t \in cancelled

LockHeld ==
  /\ \A t \in Threads : pc[t] = "locked" <=> lock = t
  /\ \A a \in Addrs : cpc[a] = "loop" <=> lock = a

\* The types, and what the accept loop, the handlers and clear rely on when
\* they change active_connections in any order (766-789, 653-676).
Inv == TypeOK /\ Counted /\ Closed /\ LockHeld

\* Insertions after pthread_create, deletions of what is not yet there and
\* connections that the loop has counted before others end never let an
\* address have more than the limit of handlers (757-789).
NeverTooMany ==
  \A a \in Addrs : Cardinality(Serving(a)) <= MAX_ACTIVE_CONNECTIONS_NUMBER

\* Once on the black list, an address gets no handler, and those it has are
\* only those it had (749-754, 759-779).
BannedStays ==
  [][\A a \in black_list :
       a \in black_list' /\ Serving(a)' \subseteq Serving(a)]_vars

\* Once clear has been started for an address, it gets the lock and ends, and
\* so does every handler of the address that was cancelled, wherever the
\* cancellation found it (653-659, 662-676).  Where pthread_create failed (777)
\* the address is banned and its handlers go on.
BanIsCarriedOut ==
  \A a \in Addrs : cpc[a] = "wait" ~>
    cpc[a] = "done" /\ \A t \in cancelled \cap Threads : addr[t] = a => pc[t] = "done"
=============================================================================
