-------------------------- MODULE BlacklistProofs --------------------------
(***************************************************************************)
(* Proofs about Blacklist, for any addresses and limit and any finite      *)
(* number of handler threads.                                              *)
(*                                                                         *)
(* The accept loop counts first and creates a thread later, and does not   *)
(* hold the lock meanwhile.  The limit holds because what it has counted   *)
(* can only become less, and because the count includes every handler of   *)
(* an address that is not on the black list: only its own clear takes a    *)
(* handler that still serves out of the list of an address, whatever else  *)
(* a failed pthread_create had the loop insert.                            *)
(***************************************************************************)
EXTENDS Blacklist, FiniteSetTheorems, TLAPS

\* Where the accept loop's variables and the entries come from.
Origin ==
  /\ mpc # "accept" => client \in Addrs
  /\ mpc \in {"create", "insert"} => client \notin black_list
  /\ \A t \in Threads :
       /\ t = created => pc[t] # "none"
       /\ \A a \in Addrs : t \in active_connections[a] => pc[t] # "none"
       /\ t \in cancelled => pc[t] # "none"
  /\ \A a \in Addrs : cpc[a] # "none" => a \in black_list

\* An address that was let in still has room when its thread is created.
Limit ==
  /\ NeverTooMany
  /\ mpc = "create" =>
       Cardinality(Serving(client)) < MAX_ACTIVE_CONNECTIONS_NUMBER

IInv == Inv /\ Origin /\ Limit

-----------------------------------------------------------------------------
LEMMA ServingFinite ==
  ASSUME NEW a
  PROVE  /\ Serving(a) \in SUBSET Threads /\ IsFiniteSet(Serving(a))
         /\ Cardinality(Serving(a)) \in Nat
  <1>1. Serving(a) \in SUBSET Threads
    BY DEF Serving
  <1>2. IsFiniteSet(Serving(a))
    BY <1>1, FS_Subset, BlacklistAssumption
  <1>3. QED
    BY <1>1, <1>2, FS_CardinalityType

LEMMA ServingFinitePrime ==
  ASSUME NEW a
  PROVE  /\ Serving(a)' \in SUBSET Threads /\ IsFiniteSet(Serving(a)')
         /\ Cardinality(Serving(a)') \in Nat
  <1>1. Serving(a)' \in SUBSET Threads
    BY DEF Serving
  <1>2. IsFiniteSet(Serving(a)')
    BY <1>1, FS_Subset, BlacklistAssumption
  <1>3. QED
    BY <1>1, <1>2, FS_CardinalityType

\* A step after which no address has a handler it had not before, and by which
\* nobody is let in, keeps the limit.
LEMMA LimitFrame ==
  ASSUME IInv,
         \A a \in Addrs : Serving(a)' \subseteq Serving(a),
         mpc' = "create" => mpc = "create" /\ client' = client
  PROVE  Limit'
  <1>1. \A a \in Addrs : Cardinality(Serving(a)') <= Cardinality(Serving(a))
    BY ServingFinite, FS_Subset
  <1>2. NeverTooMany'
    <2>1. SUFFICES ASSUME NEW a \in Addrs
                   PROVE  Cardinality(Serving(a)') <= MAX_ACTIVE_CONNECTIONS_NUMBER
      BY DEF NeverTooMany
    <2>2. Cardinality(Serving(a)) <= MAX_ACTIVE_CONNECTIONS_NUMBER
      BY DEF IInv, Limit, NeverTooMany
    <2>3. QED
      BY <1>1, <2>2, ServingFinite, ServingFinitePrime, BlacklistAssumption
  <1>3. ASSUME mpc' = "create"
        PROVE  Cardinality(Serving(client)') < MAX_ACTIVE_CONNECTIONS_NUMBER
    <2>1. mpc = "create" /\ client' = client /\ client \in Addrs
      BY <1>3 DEF IInv, Origin
    <2>2. Cardinality(Serving(client)) < MAX_ACTIVE_CONNECTIONS_NUMBER
      BY <2>1 DEF IInv, Limit
    <2>3. Serving(client)' \subseteq Serving(client)
      BY <2>1 DEF Serving
    <2>4. QED
      BY <1>1, <2>1, <2>2, ServingFinite, ServingFinitePrime, BlacklistAssumption
  <1>4. QED
    BY <1>2, <1>3 DEF Limit

-----------------------------------------------------------------------------
LEMMA InitIInv == Init => IInv
  <1> SUFFICES ASSUME Init PROVE IInv
    OBVIOUS
  <1> USE BlacklistAssumption DEF Init
  <1>1. Inv
    BY DEF Inv, TypeOK, Counted, Closed, LockHeld, Uncancelled, Serving
  <1>2. Origin
    BY DEF Origin
  <1>3. \A a : Serving(a) = {}
    BY DEF Serving
  <1>4. Limit
    BY <1>3, FS_EmptySet DEF Limit, NeverTooMany
  <1>5. QED
    BY <1>1, <1>2, <1>4 DEF IInv

\* The accept loop, but for the two steps that let a connection in.
LEMMA MainIInv ==
  ASSUME IInv, Accept \/ Refuse \/ Ban \/ CreateFails \/ Insert
  PROVE  IInv'
  <1> USE BlacklistAssumption DEF IInv, Inv, handlerVars, clearVars
  <1>1. CASE Accept
    <2>1. Inv'
      BY <1>1 DEF Accept, MainGoes, TypeOK, Counted, Closed, LockHeld, Uncancelled, Serving
    <2>2. Origin'
      BY <1>1 DEF Accept, MainGoes, TypeOK, Origin
    <2>3. Limit'
      BY <1>1, LimitFrame DEF Accept, MainGoes, Serving
    <2>4. QED
      BY <2>1, <2>2, <2>3
  <1>2. CASE Refuse
    <2>1. Inv'
      BY <1>2 DEF Refuse, MainGoes, TypeOK, Counted, Closed, LockHeld, Uncancelled, Serving
    <2>2. Origin'
      BY <1>2 DEF Refuse, MainGoes, TypeOK, Origin
    <2>3. Limit'
      BY <1>2, LimitFrame DEF Refuse, MainGoes, Serving
    <2>4. QED
      BY <2>1, <2>2, <2>3
  <1>3. CASE Ban
    <2>1. client \in Addrs
      BY <1>3 DEF Ban, MainGoes, Origin
    <2>2. cpc[client] = "none"
      BY <1>3, <2>1 DEF Ban, Origin
    <2>3. TypeOK' /\ Counted' /\ Closed'
      BY <1>3, <2>1 DEF Ban, MainGoes, TypeOK, Counted, Closed, Uncancelled, Serving
    <2>4. LockHeld'
      BY <1>3, <2>1, <2>2 DEF Ban, TypeOK, LockHeld
    <2>5. Origin'
      BY <1>3, <2>1 DEF Ban, MainGoes, TypeOK, Origin
    <2>6. Limit'
      BY <1>3, LimitFrame DEF Ban, MainGoes, Serving
    <2>7. QED
      BY <2>3, <2>4, <2>5, <2>6
  <1>4. CASE Insert
    <2>1. client \in Addrs /\ created \in Threads \cup {Nobody}
      BY <1>4 DEF Insert, MainGoes, Origin, TypeOK
    <2>2. TypeOK' /\ Closed' /\ LockHeld'
      BY <1>4, <2>1 DEF Insert, MainGoes, TypeOK, Closed, LockHeld
    <2>3. Counted'
      <3>1. SUFFICES ASSUME NEW a \in Addrs, NEW t \in Uncancelled(a)'
                     PROVE  t \in active_connections'[a]
        BY DEF Counted
      <3>2. t \in Uncancelled(a) /\ black_list' = black_list /\ cancelled' = cancelled
        BY <1>4 DEF Insert, Uncancelled, Serving
      <3>3. t \in active_connections[a] \/ (t = created /\ client = a)
        BY <3>2, <1>4 DEF Insert, MainGoes, Counted
      <3>4. active_connections' =
              [active_connections EXCEPT ![client] = @ \cup {created}]
        BY <1>4 DEF Insert
      <3>5. QED
        BY <2>1, <3>2, <3>3, <3>4 DEF TypeOK
    <2>4. Origin'
      BY <1>4, <2>1 DEF Insert, MainGoes, TypeOK, Origin
    <2>5. Limit'
      BY <1>4, LimitFrame DEF Insert, MainGoes, Serving
    <2>6. QED
      BY <2>2, <2>3, <2>4, <2>5
  <1>5. CASE CreateFails
    <2>1. Inv'
      BY <1>5 DEF CreateFails, MainGoes, TypeOK, Counted, Closed, LockHeld, Uncancelled, Serving
    <2>2. Origin'
      BY <1>5 DEF CreateFails, MainGoes, TypeOK, Origin
    <2>3. Limit'
      BY <1>5, LimitFrame DEF CreateFails, MainGoes, Serving
    <2>4. QED
      BY <2>1, <2>2, <2>3
  <1>6. QED
    BY <1>1, <1>2, <1>3, <1>4, <1>5

\* What the loop has counted includes all that serve.
LEMMA AdmitIInv ==
  ASSUME IInv, Admit
  PROVE  IInv'
  <1> USE BlacklistAssumption DEF IInv, Inv, handlerVars, clearVars
  <1>1. client \in Addrs /\ client \notin black_list
    BY DEF Admit, MainGoes, Origin
  <1>2. Inv'
    BY DEF Admit, MainGoes, TypeOK, Counted, Closed, LockHeld, Uncancelled, Serving
  <1>3. Origin'
    BY <1>1 DEF Admit, MainGoes, TypeOK, Origin
  <1>4. Serving(client) \subseteq active_connections[client]
    <2>1. Uncancelled(client) \subseteq active_connections[client]
      BY <1>1 DEF Admit, MainGoes, Counted
    <2>2. QED
      BY <1>1, <2>1 DEF Uncancelled
  <1>5. /\ IsFiniteSet(active_connections[client])
        /\ Cardinality(active_connections[client]) \in Nat
    <2>1. active_connections[client] \in SUBSET (Threads \cup {Nobody})
      BY <1>1 DEF TypeOK
    <2>2. IsFiniteSet(Threads \cup {Nobody})
      BY FS_AddElement
    <2>3. QED
      BY <2>1, <2>2, FS_Subset, FS_CardinalityType
  <1>6. Cardinality(Serving(client)) < MAX_ACTIVE_CONNECTIONS_NUMBER
    <2>1. Cardinality(Serving(client)) <= Cardinality(active_connections[client])
      BY <1>4, <1>5, FS_Subset
    <2>2. Cardinality(active_connections[client]) < MAX_ACTIVE_CONNECTIONS_NUMBER
      BY DEF Admit, number_of_active_connections
    <2>3. QED
      BY <1>5, <2>1, <2>2, ServingFinite
  <1>7. \A a : Serving(a)' = Serving(a) /\ client' = client
    BY DEF Admit, Serving
  <1>8. Limit'
    BY <1>6, <1>7 DEF Limit, NeverTooMany
  <1>9. QED
    BY <1>2, <1>3, <1>8

\* The new handler takes the place that was free.
LEMMA CreateIInv ==
  ASSUME IInv, Create
  PROVE  IInv'
  <1> USE BlacklistAssumption DEF IInv, Inv, clearVars
  <1> DEFINE t == created'
  <1>1. /\ mpc = "create" /\ mpc' = "insert" /\ client \in Addrs
        /\ client \notin black_list
    BY DEF Create, MainGoes, Origin
  <1>2. t \in Threads /\ pc[t] = "none"
    BY DEF Create, Unused
  <1>3. /\ pc' = [pc EXCEPT ![t] = "new"]
        /\ addr' = [addr EXCEPT ![t] = client]
        /\ open' = [open EXCEPT ![t] = TRUE]
        /\ UNCHANGED <<client, black_list, active_connections, lock, cancelled, cpc, i>>
    BY DEF Create
  <1> HIDE DEF t
  <1>4. /\ t \notin cancelled
        /\ \A a \in Addrs : t \notin active_connections[a] /\ t \notin Serving(a)
    BY <1>2 DEF Origin, Serving
  <1>5. \A a \in Addrs : Serving(a)' = IF a = client THEN Serving(a) \cup {t}
                                       ELSE Serving(a)
    BY <1>1, <1>2, <1>3, <1>4 DEF TypeOK, Serving
  <1>6. TypeOK' /\ Closed' /\ LockHeld'
    BY <1>1, <1>2, <1>3, <1>4 DEF TypeOK, Closed, LockHeld, t
  <1>7. Counted'
    BY <1>1, <1>3, <1>5 DEF Counted, Uncancelled, t
  <1>8. Origin'
    BY <1>1, <1>2, <1>3, <1>4 DEF Origin, TypeOK, t
  <1>9. Limit'
    <2>1. Cardinality(Serving(client) \cup {t}) <= MAX_ACTIVE_CONNECTIONS_NUMBER
      <3>1. Cardinality(Serving(client)) < MAX_ACTIVE_CONNECTIONS_NUMBER
        BY <1>1 DEF Limit
      <3>2. Cardinality(Serving(client) \cup {t}) = Cardinality(Serving(client)) + 1
        BY <1>1, <1>4, ServingFinite, FS_AddElement
      <3>3. QED
        BY <3>1, <3>2, ServingFinite
    <2>2. NeverTooMany'
      BY <1>5, <2>1 DEF Limit, NeverTooMany
    <2>3. QED
      BY <1>1, <2>2 DEF Limit
  <1>10. QED
    BY <1>6, <1>7, <1>8, <1>9

-----------------------------------------------------------------------------
\* A handler's steps change nobody else, and no address serves more after them.
LEMMA HandlerIInv ==
  ASSUME IInv, NEW t \in Threads, Handler(t) \/ Session(t)
  PROVE  IInv'
  <1> USE BlacklistAssumption DEF IInv, Inv, mainVars, clearVars
  <1>1. CASE Start(t)
    <2> USE <1>1 DEF Start, Goes
    <2>1. Inv'
      BY DEF TypeOK, Counted, Closed, LockHeld, Uncancelled, Serving
    <2>2. Origin'
      BY DEF TypeOK, Origin
    <2>3. Limit'
      BY LimitFrame DEF TypeOK, Serving
    <2>4. QED
      BY <2>1, <2>2, <2>3
  <1>2. CASE NoPeer(t)
    <2> USE <1>2 DEF NoPeer, Goes
    <2>1. Inv'
      BY DEF TypeOK, Counted, Closed, LockHeld, Uncancelled, Serving
    <2>2. Origin'
      BY DEF TypeOK, Origin
    <2>3. Limit'
      BY LimitFrame DEF TypeOK, Serving
    <2>4. QED
      BY <2>1, <2>2, <2>3
  <1>3. CASE Request(t)
    <2> USE <1>3 DEF Request, Goes
    <2>1. Inv'
      BY DEF TypeOK, Counted, Closed, LockHeld, Uncancelled, Serving
    <2>2. Origin'
      BY DEF TypeOK, Origin
    <2>3. Limit'
      BY LimitFrame DEF TypeOK, Serving
    <2>4. QED
      BY <2>1, <2>2, <2>3
  <1>4. CASE Finish(t)
    <2> USE <1>4 DEF Finish, Goes
    <2>1. Inv'
      BY DEF TypeOK, Counted, Closed, LockHeld, Uncancelled, Serving
    <2>2. Origin'
      BY DEF TypeOK, Origin
    <2>3. Limit'
      BY LimitFrame DEF TypeOK, Serving
    <2>4. QED
      BY <2>1, <2>2, <2>3
  <1>5. CASE SendFails(t)
    <2> USE <1>5 DEF SendFails, Goes
    <2>1. Inv'
      BY DEF TypeOK, Counted, Closed, LockHeld, Uncancelled, Serving
    <2>2. Origin'
      BY DEF TypeOK, Origin
    <2>3. Limit'
      BY LimitFrame DEF TypeOK, Serving
    <2>4. QED
      BY <2>1, <2>2, <2>3
  <1>6. CASE Lock(t)
    <2> USE <1>6 DEF Lock, Goes
    <2>1. TypeOK' /\ Counted' /\ Closed'
      BY DEF TypeOK, Counted, Closed, Uncancelled, Serving
    <2>2. LockHeld'
      BY DEF TypeOK, LockHeld
    <2>3. Origin'
      BY DEF TypeOK, Origin
    <2>4. Limit'
      BY LimitFrame DEF TypeOK, Serving
    <2>5. QED
      BY <2>1, <2>2, <2>3, <2>4
  <1>7. CASE Delete(t)
    <2>1. /\ pc[t] = "locked" /\ pc' = [pc EXCEPT ![t] = "close"]
          /\ active_connections' =
               [active_connections EXCEPT ![addr[t]] = @ \ {t}]
          /\ lock' = Nobody
          /\ UNCHANGED <<mainVars, addr, open, clearVars>>
      BY <1>7 DEF Delete, Goes
    <2>2. TypeOK' /\ Closed'
      BY <2>1 DEF TypeOK, Closed
    <2>3. \A a \in Addrs : Serving(a)' = Serving(a) \ {t}
      BY <2>1 DEF TypeOK, Serving
    <2>4. \A a \in Addrs : active_connections[a] \ {t} \subseteq active_connections'[a]
      BY <2>1 DEF TypeOK
    <2>5. Counted'
      BY <2>1, <2>3, <2>4 DEF Counted, Uncancelled
    <2>6. LockHeld'
      BY <2>1 DEF TypeOK, LockHeld
    <2>7. \A a \in Addrs : active_connections'[a] \subseteq active_connections[a]
      BY <2>1 DEF TypeOK
    <2>8. Origin'
      BY <2>1, <2>7 DEF TypeOK, Origin
    <2>9. Limit'
      BY <2>1, <2>3, LimitFrame
    <2>10. QED
      BY <2>2, <2>5, <2>6, <2>8, <2>9
  <1>8. CASE Close(t)
    <2> USE <1>8 DEF Close, Goes
    <2>1. Inv'
      BY DEF TypeOK, Counted, Closed, LockHeld, Uncancelled, Serving
    <2>2. Origin'
      BY DEF TypeOK, Origin
    <2>3. Limit'
      BY LimitFrame DEF TypeOK, Serving
    <2>4. QED
      BY <2>1, <2>2, <2>3
  <1>9. CASE Cancelled(t)
    <2> USE <1>9 DEF Cancelled
    <2>1. Inv'
      BY DEF TypeOK, Counted, Closed, LockHeld, Uncancelled, Serving
    <2>2. Origin'
      BY DEF TypeOK, Origin
    <2>3. Limit'
      BY LimitFrame DEF TypeOK, Serving
    <2>4. QED
      BY <2>1, <2>2, <2>3
  <1>10. QED
    BY <1>1, <1>2, <1>3, <1>4, <1>5, <1>6, <1>7, <1>8, <1>9 DEF Handler, Session

\* clear leaves the handlers alone and uncounts only those it cancels.
LEMMA ClearIInv ==
  ASSUME IInv, NEW a \in Addrs, Clear(a)
  PROVE  IInv'
  <1> USE BlacklistAssumption DEF IInv, Inv, mainVars, handlerVars
  <1>1. CASE ClearLock(a)
    <2> USE <1>1 DEF ClearLock
    <2>1. TypeOK' /\ Counted' /\ Closed'
      BY DEF TypeOK, Counted, Closed, Uncancelled, Serving
    <2>2. LockHeld'
      BY DEF TypeOK, LockHeld
    <2>3. Origin'
      BY DEF TypeOK, Origin
    <2>4. Limit'
      BY LimitFrame DEF Serving
    <2>5. QED
      BY <2>1, <2>2, <2>3, <2>4
  <1>2. CASE ClearNext(a)
    <2>1. PICK t \in active_connections[a] :
            /\ cancelled' = cancelled \cup {t}
            /\ active_connections' = [active_connections EXCEPT ![a] = @ \ {t}]
      BY <1>2 DEF ClearNext
    <2>2. /\ cpc[a] = "loop" /\ i' = [i EXCEPT ![a] = @ + 1]
          /\ UNCHANGED <<mainVars, lock, handlerVars, cpc>>
      BY <1>2 DEF ClearNext
    <2>3. t \in Threads \cup {Nobody} /\ (t \in Threads => pc[t] # "none")
      BY <2>1 DEF TypeOK, Origin
    <2>4. TypeOK'
      BY <2>1, <2>2, <2>3 DEF TypeOK
    <2>5. Closed' /\ LockHeld'
      BY <2>1, <2>2 DEF Closed, LockHeld
    <2>6. Counted'
      <3>1. /\ active_connections[a] \ {t} \subseteq active_connections'[a]
            /\ \A b \in Addrs : b # a => active_connections'[b] = active_connections[b]
        BY <2>1 DEF TypeOK
      <3>2. \A b \in Addrs : Serving(b)' = Serving(b)
        BY <2>2 DEF Serving
      <3>3. a \in black_list
        BY <2>2 DEF Origin
      <3>4. \A b \in Addrs : /\ Uncancelled(b)' \subseteq Uncancelled(b)
                             /\ b = a => t \notin Uncancelled(b)'
        BY <2>1, <2>2, <3>2, <3>3 DEF Uncancelled
      <3>5. QED
        BY <2>2, <3>1, <3>4 DEF Counted
    <2>7. Origin'
      <3>1. \A b \in Addrs : active_connections'[b] \subseteq active_connections[b]
        BY <2>1 DEF TypeOK
      <3>2. QED
        BY <2>1, <2>2, <2>3, <3>1 DEF Origin
    <2>8. Limit'
      BY <2>2, LimitFrame DEF Serving
    <2>9. QED
      BY <2>4, <2>5, <2>6, <2>7, <2>8
  <1>3. CASE ClearEnd(a)
    <2> USE <1>3 DEF ClearEnd
    <2>1. TypeOK' /\ Counted' /\ Closed'
      BY DEF TypeOK, Counted, Closed, Uncancelled, Serving
    <2>2. LockHeld'
      BY DEF TypeOK, LockHeld
    <2>3. Origin'
      BY DEF TypeOK, Origin
    <2>4. Limit'
      BY LimitFrame DEF Serving
    <2>5. QED
      BY <2>1, <2>2, <2>3, <2>4
  <1>4. QED
    BY <1>1, <1>2, <1>3 DEF Clear

LEMMA NextIInv ==
  ASSUME IInv, [Next]_vars
  PROVE  IInv'
  <1>1. CASE Main
    BY <1>1, MainIInv, AdmitIInv, CreateIInv DEF Main
  <1>2. CASE \E t \in Threads : Handler(t) \/ Session(t)
    BY <1>2, HandlerIInv
  <1>3. CASE \E a \in Addrs : Clear(a)
    BY <1>3, ClearIInv
  <1>4. CASE UNCHANGED vars
    <2> USE <1>4 DEF vars, mainVars, handlerVars, clearVars
    <2>1. Inv'
      BY DEF IInv, Inv, TypeOK, Counted, Closed, LockHeld, Uncancelled, Serving
    <2>2. Origin'
      BY DEF IInv, Origin
    <2>3. Limit'
      BY LimitFrame DEF Serving
    <2>4. QED
      BY <2>1, <2>2, <2>3 DEF IInv
  <1>5. QED
    BY <1>1, <1>2, <1>3, <1>4 DEF Next

\* The invariant that the run checks (Inv) together with what makes it
\* inductive: whatever the accept loop, the handlers and clear do in between
\* one another, who serves is counted, and mutex and sockets are accounted for
\* (P2P_template.c:653-676, 742-790).
THEOREM Invariant == Spec => [](Inv /\ Origin /\ Limit)
  <1>1. Init => IInv
    BY InitIInv
  <1>2. IInv /\ [Next]_vars => IInv'
    BY NextIInv
  <1>3. IInv => Inv /\ Origin /\ Limit
    BY DEF IInv
  <1>4. QED
    BY <1>1, <1>2, <1>3, PTL DEF Spec

\* No address ever has more handlers than the limit, although the loop counts
\* without the lock and before it creates (757-789).
THEOREM LimitHolds == Spec => []NeverTooMany
  <1>1. Inv /\ Origin /\ Limit => NeverTooMany
    BY DEF Limit
  <1>2. QED
    BY <1>1, Invariant, PTL

\* An address on the black list gets no handler, neither from the loop nor
\* from a connection that was counted before (749-779).
THEOREM BannedStaysBanned == Spec => BannedStays
  <1>1. ASSUME IInv, Next, NEW a \in black_list
        PROVE  a \in black_list' /\ Serving(a)' \subseteq Serving(a)
    <2>1. CASE Accept \/ Refuse \/ Ban \/ Admit \/ CreateFails \/ Insert
      BY <1>1, <2>1
      DEF Accept, Refuse, Ban, Admit, CreateFails, Insert, handlerVars, Serving
    <2>2. CASE Create
      <3>1. client # a
        BY <1>1, <2>2 DEF Create, MainGoes, IInv, Origin
      <3>2. QED
        BY <1>1, <2>2, <3>1 DEF Create, IInv, Inv, TypeOK, Serving, Unused
    <2>3. CASE \E t \in Threads : Handler(t) \/ Session(t)
      <3>1. PICK t \in Threads : Handler(t) \/ Session(t)
        BY <2>3
      <3>2. UNCHANGED <<black_list, addr>>
        BY <3>1 DEF Handler, Session, Start, NoPeer, Lock, Delete, Close,
                    Cancelled, Request, Finish, SendFails, mainVars
      <3>3. \E x \in {"recv", "send", "leave", "locked", "close", "done"} :
              /\ pc' = [pc EXCEPT ![t] = x]
              /\ pc[t] # "none" /\ (pc[t] \in {"close", "done"} => x = "done")
        BY <3>1 DEF Handler, Session, Start, NoPeer, Lock, Delete, Close,
                    Cancelled, Request, Finish, SendFails, Goes
      <3>4. QED
        BY <1>1, <3>2, <3>3 DEF IInv, Inv, TypeOK, Serving
    <2>4. CASE \E b \in Addrs : Clear(b)
      BY <1>1, <2>4
      DEF Clear, ClearLock, ClearNext, ClearEnd, mainVars, handlerVars, Serving
    <2>5. QED
      BY <1>1, <2>1, <2>2, <2>3, <2>4 DEF Next, Main
  <1>2. IInv /\ [Next]_vars =>
          [\A a \in black_list :
             a \in black_list' /\ Serving(a)' \subseteq Serving(a)]_vars
    BY <1>1
  <1>3. Inv /\ Origin /\ Limit => IInv
    BY DEF IInv
  <1>4. QED
    BY <1>2, <1>3, Invariant, PTL DEF Spec, BannedStays
============================================================================
