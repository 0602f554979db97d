---------------------------- MODULE GossipProofs ----------------------------
(***************************************************************************)
(* Proofs about Gossip, for any number of peers, any sessions at the same  *)
(* time, any exits, and connections that buffer any number of messages.    *)
(***************************************************************************)
EXTENDS Gossip, SequenceTheorems, FiniteSetTheorems, WellFoundedInduction, TLAPS

\* Only peers that run have threads, and a peer that has not started knows nobody.
Alive ==
  /\ \A p \in Peers : power[p] = "off" => known[p] = << >>
  /\ \A s \in Sessions : /\ snd[s].at # "idle" => power[s[1]] = "on" /\ power[To(s)] # "off"
                         /\ rcv[s].at # "idle" => power[To(s)] = "on"

\* How many messages of a session the handler has taken: an introduction, a
\* number, and then records.
Taken(s) == IF rcv[s].at = "intro" THEN 0 ELSE IF rcv[s].at = "count" THEN 1 ELSE 2
Sent(s) ==
  IF snd[s].at = "intro" THEN 0 ELSE IF snd[s].at = "count" THEN 1 ELSE 2 + snd[s].i
Kind(k) == IF k = 1 THEN "intro" ELSE IF k = 2 THEN "count" ELSE "record"

\* The two threads of a session agree on what is on the way between them.
InStep(s) ==
  /\ snd[s].i <= snd[s].n
  /\ snd[s].at = "records" => snd[s].n <= Len(known[s[1]])
  /\ rcv[s].at = "idle" =>
       /\ chan[s] = << >> /\ rcv[s].todo = Nothing
       /\ \/ snd[s].at = "idle" \/ power[To(s)] # "on"
          \/ snd[s].at = "records" /\ snd[s].i = snd[s].n
  /\ rcv[s].at = "intro" => rcv[s].todo = Nothing
  /\ rcv[s].at \in {"intro", "count"} /\ snd[s].at # "idle" =>
       Taken(s) + Len(chan[s]) = Sent(s)
  /\ rcv[s].at = "records" =>
       /\ snd[s].at \in {"records", "idle"}
       /\ Len(chan[s]) <= rcv[s].left
       /\ snd[s].at = "records" =>
            /\ rcv[s].left <= snd[s].n
            /\ rcv[s].left + snd[s].i = Len(chan[s]) + snd[s].n

Ordered(s) ==
  \A j \in 1..Len(chan[s]) :
    /\ chan[s][j].type = Kind(Taken(s) + j)
    /\ chan[s][j].type = "count" =>
         /\ Len(chan[s]) <= chan[s][j].n + j
         /\ snd[s].at = "records" => chan[s][j].n = snd[s].n

Protocol == \A s \in Sessions : InStep(s) /\ Ordered(s)

\* The first entry of a peer is the one get_known_peer finds.
Foremost(p, i) == \A j \in 1..(i - 1) : known[p][j].key # known[p][i].key

\* The peers that have a name, if only blanks, for k: they take in no other.
Settled(k) ==
  {p \in Peers : \E i \in DOMAIN known[p] :
     known[p][i].key = k /\ Foremost(p, i) /\ known[p][i].name # Unnamed}

Truthful(k, n) == n.of \in Owners(k) \cup {Nobody}

\* No peer lists its only address.
Foreign(p, a) == ~OnlyAddress(p, a)

EntryFair(p, e) ==
  /\ Foreign(p, e.key) /\ Truthful(e.key, e.name)
  /\ e.name # Unnamed => e.name.pad <= Cardinality(Settled(e.key))

MessageFair(s, m) ==
  m.type # "count" =>
    /\ Truthful(m.key, m.name) /\ m.name # Unnamed
    /\ m.name.pad <= Cardinality(Settled(m.key)) + 1
    /\ m.type = "intro" => m.key = From[s]

\* What a handler of q will store about k was decided when q had no name for k.
TodoFair(q, k, n) ==
  /\ Truthful(k, n) /\ n # Unnamed
  /\ n.pad <= Cardinality(Settled(k) \ {q}) + 1

TodosFair(s) ==
  LET q == To(s)
      d == rcv[s].todo
  IN  /\ d.op = "insert" => /\ Foreign(q, d.key) /\ TodoFair(q, d.key, d.name)
                            /\ d.key \in Keys(q) => q \in Settled(d.key)
      /\ d.op = "name" => /\ d.at \in DOMAIN known[q] /\ Foremost(q, d.at)
                          /\ TodoFair(q, known[q][d.at].key, d.name)

Fair ==
  /\ \A p \in Peers : \A i \in DOMAIN known[p] : EntryFair(p, known[p][i])
  /\ \A s \in Sessions : \A j \in 1..Len(chan[s]) : MessageFair(s, chan[s][j])
  /\ \A s \in Sessions : TodosFair(s)

\* The records on the way are those of the sender's list, in its order, and
\* what the handler has taken is listed or is about to be.
Has(s, k) ==
  k \in Keys(To(s)) \/ (rcv[s].todo.op = "insert" /\ rcv[s].todo.key = k)

Carried(s) ==
  /\ rcv[s].at \in {"count", "records"} => Has(s, From[s])
  /\ snd[s].at = "records" =>
       /\ \A j \in 1..Len(chan[s]) : chan[s][j].type = "record" =>
            chan[s][j].key = known[s[1]][snd[s].i - Len(chan[s]) + j].key
       /\ rcv[s].at = "records" =>
            \A i \in 1..(snd[s].n - rcv[s].left) :
              Has(s, known[s[1]][i].key) \/ known[s[1]][i].key = s[2]

IInv == TypeOK /\ Alive /\ Protocol /\ Fair /\ \A s \in Sessions : Carried(s)

\* Only what is listed is connected to.
Reached ==
  \A s \in Sessions : snd[s].at # "idle" \/ chan[s] # << >> => s[2] \in Keys(s[1])

-----------------------------------------------------------------------------
(* Types                                                                   *)

Senders == [at : {"idle", "intro", "count", "records"},
            i : Nat, n : Nat, reset : BOOLEAN]
HandlerStates == [at : {"idle", "intro", "count", "records"},
                  left : Nat, todo : Todo]
Entries == [key : Addrs, name : Name]

LEMMA PairType ==
  ASSUME NEW s \in Sessions
  PROVE  /\ s[1] \in Peers /\ s[2] \in Addrs /\ s = <<s[1], s[2]>>
         /\ To(s) \in Peers /\ From[s] \in Addrs
  BY GossipAssumption DEF Sessions, To

\* Who is reached at an address it does not know for its own has another.
LEMMA ForeignRules ==
  ASSUME NEW s \in Sessions
  PROVE  /\ \A a : a # s[2] => Foreign(To(s), a)
         /\ To(s) # s[1] => Foreign(To(s), From[s]) /\ Foreign(s[1], s[2])
         /\ Foreign(To(s), s[2]) => Foreign(To(s), From[s])
  <1>1. ASSUME NEW a, a # s[2] PROVE Foreign(To(s), a)
    BY <1>1 DEF Foreign, OnlyAddress
  <1>2. ASSUME To(s) # s[1] PROVE Foreign(To(s), From[s])
    BY <1>2 DEF Foreign, OnlyAddress
  <1>3. ASSUME To(s) # s[1] PROVE Foreign(s[1], s[2])
    <2>1. Reaches[<<s[1], s[2]>>] = To(s) /\ To(s) \in Peers
      BY PairType DEF To
    <2>2. Reaches[<<s[1], s[2]>>] \notin {s[1], Nobody}
      BY <1>3, <2>1, GossipAssumption
    <2>3. QED
      BY <2>2 DEF Foreign, OnlyAddress
  <1>4. ASSUME Foreign(To(s), s[2]) PROVE Foreign(To(s), From[s])
    <2>1. CASE From[s] = s[2]
      BY <1>4, <2>1
    <2>2. CASE From[s] # s[2]
      BY <1>1, <2>2
    <2>3. QED
      BY <2>1, <2>2
  <1>5. QED
    BY <1>1, <1>2, <1>3, <1>4

LEMMA IdleTypes ==
  IdleSender \in Senders /\ IdleHandler \in HandlerStates /\ Nothing \in Todo
  BY DEF IdleSender, IdleHandler, Senders, HandlerStates, Nothing, Todo

LEMMA NameTypes ==
  /\ Unnamed \in Name /\ Unnamed.of = Nobody /\ Unnamed.pad = 0
  /\ \A p \in Peers : /\ OwnName(p) \in Name /\ OwnName(p) # Unnamed
                      /\ OwnName(p).of = p /\ OwnName(p).pad = 0
  /\ \A n \in Name : /\ n.of \in Peers \cup {Nobody} /\ n.pad \in Nat
                     /\ Padded(n) \in Name /\ Padded(n) # Unnamed
                     /\ Padded(n).of = n.of /\ Padded(n).pad = n.pad + 1
  <1>1. /\ Unnamed \in Name /\ Unnamed.of = Nobody /\ Unnamed.pad = 0
    BY DEF Name, Unnamed
  <1>2. ASSUME NEW p \in Peers
        PROVE  /\ OwnName(p) \in Name /\ OwnName(p) # Unnamed
               /\ OwnName(p).of = p /\ OwnName(p).pad = 0
    BY GossipAssumption DEF Name, OwnName, Unnamed
  <1>3. ASSUME NEW n \in Name
        PROVE  /\ n.of \in Peers \cup {Nobody} /\ n.pad \in Nat
               /\ Padded(n) \in Name /\ Padded(n) # Unnamed
               /\ Padded(n).of = n.of /\ Padded(n).pad = n.pad + 1
    <2>1. n = [of |-> n.of, pad |-> n.pad] /\ n.of \in Peers \cup {Nobody} /\ n.pad \in Nat
      BY DEF Name
    <2>2. Padded(n) = [of |-> n.of, pad |-> n.pad + 1]
      BY <2>1 DEF Padded
    <2>3. QED
      BY <2>1, <2>2 DEF Name, Unnamed
  <1>4. QED
    BY <1>1, <1>2, <1>3

LEMMA EntryType ==
  ASSUME NEW k \in Addrs, NEW n \in Name
  PROVE  Entry(k, n) \in Entries /\ Entry(k, n).key = k /\ Entry(k, n).name = n
  BY DEF Entry, Entries

LEMMA MessageType ==
  ASSUME NEW m \in Message
  PROVE  /\ m.type \in {"intro", "record", "count"}
         /\ m.type = "count" => m.n \in Nat
         /\ m.type # "count" => m.key \in Addrs /\ m.name \in Name
  BY DEF Message

LEMMA TodoType ==
  ASSUME NEW d \in Todo
  PROVE  /\ d.op \in {"none", "insert", "name"}
         /\ d.op = "none" <=> d = Nothing
         /\ d.op = "insert" => d.key \in Addrs /\ d.name \in Name
         /\ d.op = "name" => d.at \in Nat \ {0} /\ d.name \in Name
  BY DEF Todo, Nothing

LEMMA Types ==
  ASSUME TypeOK
  PROVE  /\ power \in [Peers -> {"off", "on", "exited", "killed"}]
         /\ known \in [Peers -> Seq(Entries)]
         /\ snd \in [Sessions -> Senders] /\ chan \in [Sessions -> Seq(Message)]
         /\ rcv \in [Sessions -> HandlerStates]
         /\ \A p \in Peers :
              /\ known[p] \in Seq(Entries) /\ Len(known[p]) \in Nat
              /\ DOMAIN known[p] = 1..Len(known[p])
              /\ \A i \in DOMAIN known[p] :
                   /\ known[p][i] \in Entries /\ known[p][i].key \in Addrs
                   /\ known[p][i].name \in Name
         /\ \A s \in Sessions :
              /\ chan[s] \in Seq(Message) /\ Len(chan[s]) \in Nat
              /\ \A j \in 1..Len(chan[s]) : chan[s][j] \in Message
              /\ snd[s].at \in {"idle", "intro", "count", "records"}
              /\ snd[s].i \in Nat /\ snd[s].n \in Nat /\ snd[s].reset \in BOOLEAN
              /\ rcv[s].at \in {"idle", "intro", "count", "records"}
              /\ rcv[s].left \in Nat /\ rcv[s].todo \in Todo
  <1>1. /\ power \in [Peers -> {"off", "on", "exited", "killed"}]
        /\ known \in [Peers -> Seq(Entries)]
        /\ snd \in [Sessions -> Senders] /\ chan \in [Sessions -> Seq(Message)]
        /\ rcv \in [Sessions -> HandlerStates]
    BY DEF TypeOK, Entries, Senders, HandlerStates
  <1>2. ASSUME NEW p \in Peers
        PROVE  /\ known[p] \in Seq(Entries) /\ Len(known[p]) \in Nat
               /\ DOMAIN known[p] = 1..Len(known[p])
               /\ \A i \in DOMAIN known[p] :
                    /\ known[p][i] \in Entries /\ known[p][i].key \in Addrs
                    /\ known[p][i].name \in Name
    <2>1. known[p] \in Seq(Entries)
      BY <1>1
    <2>2. \A e \in Entries : e.key \in Addrs /\ e.name \in Name
      BY DEF Entries
    <2>3. QED
      BY <2>1, <2>2
  <1>3. ASSUME NEW s \in Sessions
        PROVE  /\ chan[s] \in Seq(Message) /\ Len(chan[s]) \in Nat
               /\ \A j \in 1..Len(chan[s]) : chan[s][j] \in Message
    <2>1. chan[s] \in Seq(Message)
      BY <1>1
    <2>2. QED
      BY <2>1
  <1>4. ASSUME NEW s \in Sessions
        PROVE  /\ snd[s].at \in {"idle", "intro", "count", "records"}
               /\ snd[s].i \in Nat /\ snd[s].n \in Nat /\ snd[s].reset \in BOOLEAN
               /\ rcv[s].at \in {"idle", "intro", "count", "records"}
               /\ rcv[s].left \in Nat /\ rcv[s].todo \in Todo
    <2>1. snd[s] \in Senders /\ rcv[s] \in HandlerStates
      BY <1>1
    <2>2. QED
      BY <2>1 DEF Senders, HandlerStates
  <1>5. QED
    BY <1>1, <1>2, <1>3, <1>4

\* Every nonempty set of numbers has a least one.
LEMMA Smallest ==
  ASSUME NEW S \in SUBSET Nat, S # {}
  PROVE  \E x \in S : \A y \in S : x <= y
  <1> DEFINE R == OpToRel(<, Nat)
  <1>1. R = {ss \in Nat \X Nat : ss[1] < ss[2]}
    BY Zenon DEF OpToRel
  <1>2. IsWellFoundedOn(R, Nat)
    BY Zenon, NatLessThanWellFounded
  <1> HIDE DEF R
  <1>3. PICK x \in S : \A y \in S : ~(<<y, x>> \in R)
    BY <1>2, WFMin
  <1>4. ASSUME NEW y \in S PROVE x <= y
    <2>1. x \in Nat /\ y \in Nat /\ <<y, x>> \notin R
      BY <1>3
    <2>2. ~(y < x)
      BY <1>1, <2>1
    <2>3. QED
      BY <2>1, <2>2
  <1>5. QED
    BY <1>4

LEMMA FirstEntry ==
  ASSUME NEW l \in Seq(Entries), NEW k, \E i \in DOMAIN l : l[i].key = k
  PROVE  \E i \in DOMAIN l : l[i].key = k /\ \A j \in 1..(i - 1) : l[j].key # k
  <1> DEFINE S == {i \in DOMAIN l : l[i].key = k}
  <1>1. DOMAIN l = 1..Len(l) /\ Len(l) \in Nat
    OBVIOUS
  <1>2. S # {} /\ S \in SUBSET Nat
    BY <1>1
  <1>3. PICK x \in S : \A y \in S : x <= y
    BY <1>2, Smallest
  <1>4. ASSUME NEW j \in 1..(x - 1) PROVE l[j].key # k
    BY <1>1, <1>3
  <1>5. QED
    BY <1>3, <1>4

\* get_known_peer returns the first entry with the key.
LEMMA FindFirst ==
  ASSUME TypeOK, NEW p \in Peers, NEW k
  PROVE  /\ k \notin Keys(p) => Find(p, k) = 0
         /\ k \in Keys(p) => /\ Find(p, k) \in DOMAIN known[p] /\ Find(p, k) # 0
                             /\ known[p][Find(p, k)].key = k
                             /\ Foremost(p, Find(p, k))
  <1>1. SUFFICES ASSUME k \in Keys(p)
                 PROVE  /\ Find(p, k) \in DOMAIN known[p] /\ Find(p, k) # 0
                        /\ known[p][Find(p, k)].key = k
                        /\ Foremost(p, Find(p, k))
    BY DEF Find
  <1> DEFINE Good(i) == known[p][i].key = k /\ \A j \in 1..(i - 1) : known[p][j].key # k
  <1>2. /\ DOMAIN known[p] = 1..Len(known[p]) /\ Len(known[p]) \in Nat
        /\ known[p] \in Seq(Entries)
    BY Types
  <1>3. \E i \in DOMAIN known[p] : Good(i)
    <2>1. PICK l \in Seq(Entries) : l = known[p]
      BY <1>2
    <2>2. \E i \in DOMAIN l : l[i].key = k
      BY <1>1, <2>1 DEF Keys
    <2>3. \E i \in DOMAIN l : l[i].key = k /\ \A j \in 1..(i - 1) : l[j].key # k
      BY <2>2, FirstEntry
    <2>4. QED
      BY <2>1, <2>3
  <1>4. Find(p, k) = CHOOSE i \in DOMAIN known[p] : Good(i)
    BY <1>1 DEF Find
  <1>5. Find(p, k) \in DOMAIN known[p] /\ Good(Find(p, k))
    BY <1>3, <1>4, Zenon
  <1>6. QED
    BY <1>2, <1>5 DEF Foremost

LEMMA DecisionType ==
  ASSUME TypeOK, NEW p \in Peers, NEW k \in Addrs, NEW n \in Name
  PROVE  /\ Decision(p, k, n) \in Todo
         /\ Decision(p, k, n).op = "insert" =>
              /\ Decision(p, k, n).key = k /\ Decision(p, k, n).name = n
              /\ k \notin Keys(p)
         /\ Decision(p, k, n).op = "name" =>
              /\ Decision(p, k, n).name = n /\ Decision(p, k, n).at \in DOMAIN known[p]
              /\ known[p][Decision(p, k, n).at].key = k
              /\ known[p][Decision(p, k, n).at].name = Unnamed
              /\ Foremost(p, Decision(p, k, n).at)
         /\ Decision(p, k, n).op = "none" => k \in Keys(p)
  <1> DEFINE i == Find(p, k)
  <1>1. CASE k \notin Keys(p)
    <2>1. Decision(p, k, n) = [op |-> "insert", key |-> k, name |-> n]
      BY <1>1, FindFirst DEF Decision
    <2>2. QED
      BY <1>1, <2>1 DEF Todo
  <1>2. CASE k \in Keys(p)
    <2>1. /\ i \in DOMAIN known[p] /\ i # 0 /\ known[p][i].key = k /\ Foremost(p, i)
          /\ i \in Nat \ {0}
      BY <1>2, FindFirst, Types
    <2>2. CASE known[p][i].name = Unnamed
      <3>1. Decision(p, k, n) = [op |-> "name", at |-> i, name |-> n]
        BY <2>1, <2>2 DEF Decision
      <3> HIDE DEF i
      <3>2. QED
        BY <1>2, <2>1, <2>2, <3>1 DEF Todo
    <2>3. CASE known[p][i].name # Unnamed
      <3>1. Decision(p, k, n) = Nothing
        BY <2>1, <2>3 DEF Decision
      <3>2. QED
        BY <1>2, <3>1 DEF Nothing, Todo
    <2>4. QED
      BY <2>2, <2>3
  <1>3. QED
    BY <1>1, <1>2

LEMMA SettledType ==
  ASSUME NEW k
  PROVE  /\ IsFiniteSet(Settled(k)) /\ Cardinality(Settled(k)) \in Nat
         /\ \A q : /\ Cardinality(Settled(k) \ {q}) \in Nat
                   /\ q \notin Settled(k) =>
                        Cardinality(Settled(k) \ {q}) = Cardinality(Settled(k))
  <1>1. Settled(k) \in SUBSET Peers
    BY DEF Settled
  <1>2. IsFiniteSet(Settled(k)) /\ Cardinality(Settled(k)) \in Nat
    BY <1>1, GossipAssumption, FS_Subset, FS_CardinalityType
  <1>3. ASSUME NEW q
        PROVE  /\ Cardinality(Settled(k) \ {q}) \in Nat
               /\ q \notin Settled(k) =>
                    Cardinality(Settled(k) \ {q}) = Cardinality(Settled(k))
    BY <1>2, FS_RemoveElement, FS_CardinalityType
  <1>4. QED
    BY <1>2, <1>3

-----------------------------------------------------------------------------
(* Steps of one session that leave the lists alone                         *)

MessagesFair(s) == \A j \in 1..Len(chan[s]) : MessageFair(s, chan[s][j])

SettledSame == \A k : Settled(k)' = Settled(k)

LEMMA ListsSame ==
  ASSUME known' = known
  PROVE  SettledSame
  <1>1. ASSUME NEW k PROVE Settled(k)' = Settled(k)
    BY DEF Settled, Foremost
  <1>2. QED
    BY <1>1 DEF SettledSame

\* The messages of a session that nothing is sent on stay fair.
LEMMA MessagesSame ==
  ASSUME SettledSame, NEW t, chan'[t] = chan[t], MessagesFair(t)
  PROVE  MessagesFair(t)'
  <1>1. ASSUME NEW m, MessageFair(t, m) PROVE MessageFair(t, m)'
    BY <1>1 DEF MessageFair, SettledSame
  <1>2. SUFFICES ASSUME NEW j \in 1..Len(chan'[t])
                 PROVE  MessageFair(t, chan[t][j])'
    BY DEF MessagesFair
  <1>3. PICK m : m = chan[t][j] /\ m = chan'[t][j]
    OBVIOUS
  <1>4. MessageFair(t, m)
    BY <1>2, <1>3 DEF MessagesFair
  <1>5. MessageFair(t, m)'
    BY <1>1, <1>4
  <1>6. QED
    BY <1>3, <1>5 DEF MessageFair

LEMMA SessionFrame ==
  ASSUME IInv, TypeOK', NEW s \in Sessions, UNCHANGED <<power, known>>,
         \A t \in Sessions \ {s} :
           snd'[t] = snd[t] /\ chan'[t] = chan[t] /\ rcv'[t] = rcv[t],
         snd'[s].at # "idle" => power[s[1]] = "on" /\ power[To(s)] # "off",
         rcv'[s].at # "idle" => power[To(s)] = "on",
         InStep(s)', Ordered(s)', MessagesFair(s)', TodosFair(s)', Carried(s)'
  PROVE  IInv'
  <1>1. Alive'
    BY DEF IInv, Alive
  <1>2. ASSUME NEW t \in Sessions, t # s
        PROVE  /\ InStep(t)' /\ Ordered(t)' /\ Carried(t)'
               /\ MessagesFair(t)' /\ TodosFair(t)'
    <2>1. InStep(t) /\ Ordered(t) /\ Carried(t) /\ MessagesFair(t) /\ TodosFair(t)
      BY <1>2 DEF IInv, Protocol, Fair, MessagesFair
    <2>2. SettledSame
      BY ListsSame
    <2>3. InStep(t)' /\ Ordered(t)'
      <3>1. /\ snd'[t] = snd[t] /\ chan'[t] = chan[t] /\ rcv'[t] = rcv[t]
            /\ Taken(t)' = Taken(t) /\ Sent(t)' = Sent(t)
        BY <1>2 DEF Taken, Sent
      <3>2. InStep(t)'
        BY <2>1, <3>1 DEF InStep
      <3>3. Ordered(t)'
        BY <2>1, <3>1 DEF Ordered
      <3>4. QED
        BY <3>2, <3>3
    <2>4. Carried(t)'
      <3>1. /\ snd'[t] = snd[t] /\ chan'[t] = chan[t] /\ rcv'[t] = rcv[t]
            /\ known' = known
        BY <1>2
      <3>2. \A k : Has(t, k)' <=> Has(t, k)
        BY <3>1 DEF Has, Keys
      <3>3. QED
        BY <2>1, <3>1, <3>2 DEF Carried
    <2>5. MessagesFair(t)'
      BY <1>2, <2>1, <2>2, MessagesSame
    <2>6. TodosFair(t)'
      <3>1. rcv'[t] = rcv[t] /\ Keys(To(t))' = Keys(To(t))
        BY <1>2 DEF Keys
      <3>2. \A k, n : TodoFair(To(t), k, n)' <=> TodoFair(To(t), k, n)
        BY <2>2 DEF TodoFair, SettledSame
      <3>3. \A i : Foremost(To(t), i)' <=> Foremost(To(t), i)
        BY DEF Foremost
      <3>4. QED
        BY <2>1, <2>2, <3>1, <3>2, <3>3 DEF TodosFair, SettledSame
    <2>7. QED
      BY <2>3, <2>4, <2>5, <2>6
  <1>3. (\A p \in Peers : \A i \in DOMAIN known[p] : EntryFair(p, known[p][i]))'
    BY ListsSame DEF IInv, Fair, EntryFair, SettledSame
  <1>4. QED
    BY <1>1, <1>2, <1>3 DEF IInv, Protocol, Fair, MessagesFair

\* A message that is put on the way.
LEMMA Sending ==
  ASSUME TypeOK, NEW s \in Sessions, NEW m \in Message, NEW x \in Senders, Send(s, m, x)
  PROVE  /\ TypeOK' /\ UNCHANGED <<power, known, rcv>>
         /\ power[To(s)] = "on" /\ snd'[s] = x
         /\ \A t \in Sessions \ {s} : snd'[t] = snd[t] /\ chan'[t] = chan[t]
         /\ Len(chan'[s]) = Len(chan[s]) + 1 /\ chan'[s][Len(chan[s]) + 1] = m
         /\ \A j \in 1..Len(chan[s]) : chan'[s][j] = chan[s][j]
         /\ \A j \in 1..Len(chan'[s]) : j \in 1..Len(chan[s]) \/ j = Len(chan[s]) + 1
  <1>1. chan \in [Sessions -> Seq(Message)] /\ snd \in [Sessions -> Senders]
    BY Types
  <1>2. chan'[s] = Append(chan[s], m) /\ snd'[s] = x /\ chan[s] \in Seq(Message)
    BY <1>1 DEF Send
  <1>3. /\ chan'[s] \in Seq(Message) /\ Len(chan'[s]) = Len(chan[s]) + 1
        /\ chan'[s][Len(chan[s]) + 1] = m /\ Len(chan[s]) \in Nat
        /\ \A j \in 1..Len(chan[s]) : chan'[s][j] = chan[s][j]
    BY <1>2, AppendProperties, LenProperties
  <1>4. chan' \in [Sessions -> Seq(Message)] /\ snd' \in [Sessions -> Senders]
    BY <1>1, <1>2, <1>3 DEF Send
  <1>5. TypeOK'
    BY <1>4 DEF TypeOK, Send, Senders
  <1>6. QED
    BY <1>1, <1>2, <1>3, <1>5 DEF Send

\* A message that is taken.
LEMMA Receiving ==
  ASSUME TypeOK, NEW s \in Sessions, NEW h \in HandlerStates, Receive(s, h), chan[s] # << >>
  PROVE  /\ TypeOK' /\ UNCHANGED <<power, known, snd>>
         /\ rcv'[s] = h /\ rcv[s].todo = Nothing
         /\ \A t \in Sessions \ {s} : rcv'[t] = rcv[t] /\ chan'[t] = chan[t]
         /\ Len(chan[s]) = Len(chan'[s]) + 1 /\ Len(chan'[s]) \in Nat
         /\ Head(chan[s]) = chan[s][1] /\ chan[s][1] \in Message
         /\ \A j \in 1..Len(chan'[s]) :
              chan'[s][j] = chan[s][j + 1] /\ j + 1 \in 1..Len(chan[s])
  <1>1. chan \in [Sessions -> Seq(Message)] /\ rcv \in [Sessions -> HandlerStates]
    BY Types
  <1>2. chan'[s] = Tail(chan[s]) /\ rcv'[s] = h /\ chan[s] \in Seq(Message)
    BY <1>1 DEF Receive
  <1>3. /\ chan'[s] \in Seq(Message) /\ Len(chan'[s]) = Len(chan[s]) - 1
        /\ Len(chan[s]) \in Nat \ {0} /\ Head(chan[s]) = chan[s][1]
        /\ chan[s][1] \in Message
        /\ \A j \in 1..Len(chan'[s]) :
             chan'[s][j] = chan[s][j + 1] /\ j + 1 \in 1..Len(chan[s])
    BY <1>2, HeadTailProperties, LenProperties
  <1>4. chan' \in [Sessions -> Seq(Message)] /\ rcv' \in [Sessions -> HandlerStates]
    BY <1>1, <1>2, <1>3 DEF Receive
  <1>5. TypeOK'
    BY <1>4 DEF TypeOK, Receive, HandlerStates
  <1>6. QED
    BY <1>1, <1>2, <1>3, <1>5 DEF Receive

LEMMA SendIntroductionInv ==
  ASSUME IInv, NEW s \in Sessions, SendIntroduction(s)
  PROVE  IInv'
  <1> DEFINE m == [type |-> "intro", key |-> From[s], name |-> OwnName(s[1])]
             x == [snd[s] EXCEPT !.at = "count"]
  <1>1. TypeOK /\ InStep(s) /\ Ordered(s) /\ MessagesFair(s) /\ TodosFair(s) /\ Carried(s)
    BY DEF IInv, Protocol, Fair, MessagesFair
  <1>2. /\ snd[s] \in Senders /\ snd[s].at = "intro" /\ Send(s, m, x)
        /\ Len(chan[s]) \in Nat /\ rcv[s].at \in {"idle", "intro", "count", "records"}
    BY <1>1, Types DEF SendIntroduction
  <1>3. m \in Message /\ m.type = "intro" /\ m.key = From[s] /\ m.name = OwnName(s[1])
    BY PairType, NameTypes DEF Message
  <1>4. x \in Senders /\ x.at = "count" /\ x.i = snd[s].i /\ x.n = snd[s].n
    BY <1>2 DEF Senders
  <1> HIDE DEF m, x
  <1>5. /\ TypeOK' /\ UNCHANGED <<power, known, rcv>>
        /\ power[To(s)] = "on" /\ snd'[s] = x
        /\ \A t \in Sessions \ {s} : snd'[t] = snd[t] /\ chan'[t] = chan[t]
        /\ Len(chan'[s]) = Len(chan[s]) + 1 /\ chan'[s][Len(chan[s]) + 1] = m
        /\ \A j \in 1..Len(chan[s]) : chan'[s][j] = chan[s][j]
        /\ \A j \in 1..Len(chan'[s]) : j \in 1..Len(chan[s]) \/ j = Len(chan[s]) + 1
    BY <1>1, <1>2, <1>3, <1>4, Sending
  <1>6. rcv[s].at = "intro" /\ Len(chan[s]) = 0 /\ rcv[s].todo = Nothing
    <2>1. rcv[s].at \in {"intro", "count"}
      BY <1>1, <1>2, <1>5 DEF InStep
    <2>2. Taken(s) + Len(chan[s]) = 0
      BY <1>1, <1>2, <2>1 DEF InStep, Sent
    <2>3. Taken(s) = IF rcv[s].at = "intro" THEN 0 ELSE 1
      BY <2>1 DEF Taken
    <2>4. Taken(s) \in Nat /\ Len(chan[s]) \in Nat
      BY <1>2, <2>3
    <2>5. Taken(s) = 0 /\ Len(chan[s]) = 0
      BY <2>2, <2>4
    <2>6. rcv[s].at = "intro"
      BY <2>3, <2>5
    <2>7. QED
      BY <1>1, <2>5, <2>6 DEF InStep
  <1>7. \A j \in 1..Len(chan'[s]) : j = 1 /\ chan'[s][j] = m
    BY <1>5, <1>6
  <1>8. InStep(s)'
    BY <1>1, <1>4, <1>5, <1>6 DEF InStep, Taken, Sent
  <1>9. Ordered(s)'
    BY <1>3, <1>5, <1>6, <1>7 DEF Ordered, Taken, Kind
  <1>10. MessagesFair(s)'
    <2>1. s[1] \in Owners(From[s])
      BY PairType DEF Owners
    <2>2. MessageFair(s, m)'
      BY <1>3, <1>5, <2>1, PairType, NameTypes, SettledType, ListsSame
      DEF MessageFair, Truthful, SettledSame
    <2>3. QED
      BY <1>7, <2>2 DEF MessagesFair
  <1>11. TodosFair(s)' /\ Carried(s)'
    BY <1>4, <1>5, <1>6 DEF TodosFair, Carried, Nothing
  <1>12. power[s[1]] = "on" /\ power[To(s)] # "off"
    BY <1>2 DEF IInv, Alive
  <1>13. QED
    BY <1>5, <1>6, <1>8, <1>9, <1>10, <1>11, <1>12, SessionFrame

\* What a handler holds or has announced is not the sender's business.
LEMMA TodosSame ==
  ASSUME IInv, NEW s \in Sessions, UNCHANGED known, rcv'[s] = rcv[s]
  PROVE  TodosFair(s)'
  <1>1. TodosFair(s)
    BY DEF IInv, Fair
  <1>2. Keys(To(s))' = Keys(To(s))
    BY DEF Keys
  <1>3. \A k, n : TodoFair(To(s), k, n)' <=> TodoFair(To(s), k, n)
    BY ListsSame DEF TodoFair, SettledSame
  <1>4. \A i : Foremost(To(s), i)' <=> Foremost(To(s), i)
    BY DEF Foremost
  <1>5. QED
    BY <1>1, <1>2, <1>3, <1>4, ListsSame DEF TodosFair, SettledSame

LEMMA SendCountInv ==
  ASSUME IInv, NEW s \in Sessions, SendCount(s)
  PROVE  IInv'
  <1> DEFINE m == [type |-> "count", n |-> Len(known[s[1]])]
             x == [snd[s] EXCEPT !.at = "records", !.i = 0, !.n = Len(known[s[1]])]
  <1>1. TypeOK /\ InStep(s) /\ Ordered(s) /\ MessagesFair(s) /\ TodosFair(s) /\ Carried(s)
    BY DEF IInv, Protocol, Fair, MessagesFair
  <1>2. /\ snd[s] \in Senders /\ snd[s].at = "count" /\ Send(s, m, x)
        /\ Len(chan[s]) \in Nat /\ Len(known[s[1]]) \in Nat
        /\ rcv[s].at \in {"idle", "intro", "count", "records"}
    BY <1>1, Types, PairType DEF SendCount
  <1>3. m \in Message /\ m.type = "count" /\ m.n = Len(known[s[1]])
    BY <1>2 DEF Message
  <1>4. x \in Senders /\ x.at = "records" /\ x.i = 0 /\ x.n = Len(known[s[1]])
    BY <1>2 DEF Senders
  <1> HIDE DEF m, x
  <1>5. /\ TypeOK' /\ UNCHANGED <<power, known, rcv>>
        /\ power[To(s)] = "on" /\ snd'[s] = x
        /\ \A t \in Sessions \ {s} : snd'[t] = snd[t] /\ chan'[t] = chan[t]
        /\ Len(chan'[s]) = Len(chan[s]) + 1 /\ chan'[s][Len(chan[s]) + 1] = m
        /\ \A j \in 1..Len(chan[s]) : chan'[s][j] = chan[s][j]
        /\ \A j \in 1..Len(chan'[s]) : j \in 1..Len(chan[s]) \/ j = Len(chan[s]) + 1
    BY <1>1, <1>2, <1>3, <1>4, Sending
  <1>6. rcv[s].at \in {"intro", "count"} /\ Taken(s) + Len(chan[s]) = 1
    BY <1>1, <1>2, <1>5 DEF InStep, Taken, Sent
  <1>7. Taken(s) \in {0, 1} /\ Taken(s)' = Taken(s) /\ Sent(s)' = 2
    <2>1. Sent(s)' = 2 + 0
      BY <1>4, <1>5 DEF Sent
    <2>2. QED
      BY <1>5, <1>6, <2>1 DEF Taken
  <1>8. InStep(s)'
    BY <1>1, <1>2, <1>4, <1>5, <1>6, <1>7 DEF InStep
  <1>9. \A j \in 1..Len(chan[s]) : chan[s][j].type = "intro"
    <2>1. \A j \in 1..Len(chan[s]) : Taken(s) + j = 1
      BY <1>2, <1>6, <1>7
    <2>2. QED
      BY <1>1, <2>1 DEF Ordered, Kind
  <1>10. Ordered(s)'
    <2>1. ASSUME NEW j \in 1..Len(chan'[s])
          PROVE  /\ chan'[s][j].type = Kind(Taken(s) + j)
                 /\ chan'[s][j].type = "count" =>
                      /\ Len(chan'[s]) <= chan'[s][j].n + j
                      /\ chan'[s][j].n = x.n
      <3>1. CASE j \in 1..Len(chan[s])
        BY <1>1, <1>5, <1>9, <3>1 DEF Ordered
      <3>2. CASE j = Len(chan[s]) + 1
        <4>1. chan'[s][j] = m /\ Taken(s) + j = 2
          BY <1>2, <1>5, <1>6, <1>7, <3>2
        <4>2. QED
          BY <1>2, <1>3, <1>4, <1>5, <3>2, <4>1 DEF Kind
      <3>3. QED
        BY <1>5, <3>1, <3>2
    <2>2. QED
      BY <1>5, <1>7, <2>1 DEF Ordered
  <1>11. MessagesFair(s)'
    BY <1>1, <1>3, <1>5, ListsSame DEF MessagesFair, MessageFair, SettledSame
  <1>12. Carried(s)'
    <2>1. \A j \in 1..Len(chan'[s]) : chan'[s][j].type # "record"
      BY <1>3, <1>5, <1>9
    <2>2. QED
      BY <1>1, <1>5, <1>6, <2>1 DEF Carried, Has, Keys
  <1>13. power[s[1]] = "on" /\ power[To(s)] # "off"
    BY <1>2 DEF IInv, Alive
  <1>14. QED
    BY <1>5, <1>6, <1>8, <1>10, <1>11, <1>12, <1>13, TodosSame, SessionFrame

LEMMA SendRecordInv ==
  ASSUME IInv, NEW s \in Sessions, SendRecord(s)
  PROVE  IInv'
  <1> DEFINE e == known[s[1]][snd[s].i + 1]
             m == [type |-> "record", key |-> e.key, name |-> Padded(e.name)]
             x == [snd[s] EXCEPT !.i = @ + 1]
  <1>1. TypeOK /\ InStep(s) /\ Ordered(s) /\ MessagesFair(s) /\ TodosFair(s) /\ Carried(s)
    BY DEF IInv, Protocol, Fair, MessagesFair
  <1>2. /\ snd[s] \in Senders /\ snd[s].at = "records" /\ snd[s].i < snd[s].n
        /\ Send(s, m, x) /\ snd[s].i \in Nat /\ snd[s].n \in Nat
        /\ Len(chan[s]) \in Nat /\ rcv[s].left \in Nat
        /\ rcv[s].at \in {"idle", "intro", "count", "records"}
    BY <1>1, Types DEF SendRecord
  <1>3. /\ snd[s].i + 1 \in DOMAIN known[s[1]] /\ Len(known[s[1]]) \in Nat
    BY <1>1, <1>2, Types, PairType DEF InStep
  <1>4. e.key \in Addrs /\ e.name \in Name /\ EntryFair(s[1], e)
    BY <1>1, <1>3, Types, PairType DEF IInv, Fair
  <1>5. /\ m \in Message /\ m.type = "record" /\ m.key = known[s[1]][snd[s].i + 1].key
        /\ m.name = Padded(e.name)
    BY <1>4, NameTypes DEF Message
  <1>6. x \in Senders /\ x.at = "records" /\ x.i = snd[s].i + 1 /\ x.n = snd[s].n
    BY <1>2 DEF Senders
  <1> HIDE DEF m, x
  <1>7. /\ TypeOK' /\ UNCHANGED <<power, known, rcv>>
        /\ power[To(s)] = "on" /\ snd'[s] = x
        /\ \A t \in Sessions \ {s} : snd'[t] = snd[t] /\ chan'[t] = chan[t]
        /\ Len(chan'[s]) = Len(chan[s]) + 1 /\ chan'[s][Len(chan[s]) + 1] = m
        /\ \A j \in 1..Len(chan[s]) : chan'[s][j] = chan[s][j]
        /\ \A j \in 1..Len(chan'[s]) : j \in 1..Len(chan[s]) \/ j = Len(chan[s]) + 1
    BY <1>1, <1>2, <1>5, <1>6, Sending
  <1>8. rcv[s].at \in {"intro", "count", "records"}
    BY <1>1, <1>2, <1>7 DEF InStep
  <1>9. Taken(s) \in {0, 1, 2} /\ Taken(s)' = Taken(s) /\ Sent(s)' = 2 + x.i
        /\ Sent(s) = 2 + snd[s].i
    BY <1>2, <1>6, <1>7 DEF Taken, Sent
  <1>10. InStep(s)'
    <2>1. x.i <= x.n /\ x.n <= Len(known[s[1]])
      BY <1>1, <1>2, <1>6 DEF InStep
    <2>2. ASSUME rcv[s].at \in {"intro", "count"}
          PROVE  Taken(s) + Len(chan'[s]) = Sent(s)'
      <3>1. Taken(s) + Len(chan[s]) = 2 + snd[s].i
        BY <1>1, <1>2, <1>9, <2>2 DEF InStep
      <3>2. Len(chan'[s]) = Len(chan[s]) + 1 /\ Sent(s)' = 2 + (snd[s].i + 1)
        BY <1>6, <1>7, <1>9
      <3>3. PICK a \in Nat, b \in Nat, c \in Nat :
              a = Taken(s) /\ b = Len(chan[s]) /\ c = snd[s].i
        BY <1>2, <1>9
      <3>4. a + b = 2 + c => a + (b + 1) = 2 + (c + 1)
        OBVIOUS
      <3>5. QED
        BY <3>1, <3>2, <3>3, <3>4
    <2>3. rcv[s].at = "intro" => rcv[s].todo = Nothing
      BY <1>1 DEF InStep
    <2>4. ASSUME rcv[s].at = "records"
          PROVE  /\ Len(chan'[s]) <= rcv[s].left /\ rcv[s].left <= x.n
                 /\ rcv[s].left + x.i = Len(chan'[s]) + x.n
      <3>1. /\ rcv[s].left <= snd[s].n
            /\ rcv[s].left + snd[s].i = Len(chan[s]) + snd[s].n
        BY <1>1, <1>2, <2>4 DEF InStep
      <3>2. Len(chan'[s]) = Len(chan[s]) + 1
        BY <1>7
      <3>3. /\ snd[s].i \in Nat /\ snd[s].n \in Nat /\ rcv[s].left \in Nat
            /\ Len(chan[s]) \in Nat /\ snd[s].i < snd[s].n
        BY <1>2
      <3>4. /\ Len(chan[s]) + 1 <= rcv[s].left
            /\ rcv[s].left + (snd[s].i + 1) = (Len(chan[s]) + 1) + snd[s].n
        <4> DEFINE a == rcv[s].left
                   b == snd[s].i
                   c == Len(chan[s])
                   d == snd[s].n
        <4>1. a \in Nat /\ b \in Nat /\ c \in Nat /\ d \in Nat /\ a + b = c + d /\ b < d
          BY <3>1, <3>3
        <4> HIDE DEF a, b, c, d
        <4>2. c + 1 <= a /\ a + (b + 1) = (c + 1) + d
          BY <4>1
        <4>3. QED
          BY <4>2 DEF a, b, c, d
      <3>5. QED
        BY <1>6, <3>1, <3>2, <3>4
    <2>5. QED
      BY <1>6, <1>7, <1>8, <1>9, <2>1, <2>2, <2>3, <2>4 DEF InStep
  <1>11. Ordered(s)'
    <2>1. ASSUME NEW j \in 1..Len(chan'[s])
          PROVE  /\ chan'[s][j].type = Kind(Taken(s) + j)
                 /\ chan'[s][j].type = "count" =>
                      /\ Len(chan'[s]) <= chan'[s][j].n + j
                      /\ chan'[s][j].n = x.n
      <3>1. CASE j \in 1..Len(chan[s])
        <4>1. /\ chan'[s][j] = chan[s][j] /\ chan[s][j].type = Kind(Taken(s) + j)
              /\ chan[s][j].type = "count" => chan[s][j].n = x.n
          BY <1>1, <1>2, <1>6, <1>7, <3>1 DEF Ordered
        <4>2. ASSUME chan[s][j].type = "count" PROVE Len(chan'[s]) <= x.n + j
          <5>1. Taken(s) + j = 2 /\ rcv[s].at # "records"
            BY <1>2, <1>8, <1>9, <3>1, <4>1, <4>2 DEF Kind, Taken
          <5>2. Taken(s) + Len(chan'[s]) = 2 + x.i /\ x.i <= x.n
            BY <1>8, <1>9, <1>7, <1>10, <5>1, <1>6 DEF InStep
          <5>3. Len(chan'[s]) \in Nat /\ j \in Nat /\ x.i \in Nat /\ x.n \in Nat
            BY <1>2, <1>6, <1>7
          <5>4. QED
            BY <1>9, <5>1, <5>2, <5>3
        <4>3. QED
          BY <4>1, <4>2
      <3>2. CASE j = Len(chan[s]) + 1
        <4>1. Taken(s) + j > 2
          <5>1. rcv[s].at # "records" => Taken(s) + Len(chan[s]) = 2 + snd[s].i
            BY <1>1, <1>2, <1>8, <1>9 DEF InStep
          <5>2. rcv[s].at = "records" => Taken(s) = 2
            BY DEF Taken
          <5>3. PICK a \in Nat, b \in Nat, c \in Nat :
                  a = Taken(s) /\ b = Len(chan[s]) /\ c = snd[s].i
            BY <1>2, <1>9
          <5>4. a + b = 2 + c \/ a = 2 => a + (b + 1) > 2
            OBVIOUS
          <5>5. QED
            BY <3>2, <5>1, <5>2, <5>3, <5>4
        <4>2. QED
          BY <1>5, <1>7, <1>9, <3>2, <4>1 DEF Kind
      <3>3. QED
        BY <1>7, <3>1, <3>2
    <2>2. QED
      BY <1>7, <1>9, <2>1 DEF Ordered
  <1>12. MessagesFair(s)'
    <2>1. MessageFair(s, m)
      <3>1. Truthful(m.key, m.name) /\ m.name # Unnamed
        <4>1. PICK n \in Name : n = e.name
          BY <1>4
        <4>2. n.of \in Owners(e.key) \cup {Nobody}
          BY <1>4, <4>1 DEF EntryFair, Truthful
        <4>3. Padded(n).of = n.of /\ Padded(n) # Unnamed
          BY NameTypes
        <4>4. m.name = Padded(n) /\ m.key = e.key
          BY <1>5, <4>1
        <4>5. QED
          BY <4>2, <4>3, <4>4 DEF Truthful
      <3>2. m.name.pad = e.name.pad + 1 /\ e.name.pad \in Nat
        BY <1>4, <1>5, NameTypes
      <3>3. e.name.pad <= Cardinality(Settled(m.key))
        <4>1. m.key = e.key /\ EntryFair(s[1], e)
          BY <1>4, <1>5
        <4>2. e.name # Unnamed => e.name.pad <= Cardinality(Settled(e.key))
          BY <4>1 DEF EntryFair
        <4>3. e.name = Unnamed => e.name.pad = 0
          BY NameTypes
        <4>4. 0 <= Cardinality(Settled(e.key))
          BY SettledType
        <4>5. QED
          BY <4>1, <4>2, <4>3, <4>4
      <3>4. m.name.pad <= Cardinality(Settled(m.key)) + 1
        <4>1. Cardinality(Settled(m.key)) \in Nat
          BY SettledType
        <4>2. QED
          BY <3>2, <3>3, <4>1
      <3>5. QED
        BY <1>5, <3>1, <3>4 DEF MessageFair
    <2>2. \A j \in 1..Len(chan'[s]) : MessageFair(s, chan'[s][j])
      <3>1. \A j \in 1..Len(chan[s]) : MessageFair(s, chan[s][j])
        BY <1>1 DEF MessagesFair
      <3>2. \A j \in 1..Len(chan'[s]) : j \in 1..Len(chan[s]) \/ j = Len(chan[s]) + 1
        BY <1>7, <1>9
      <3>3. QED
        BY <1>7, <2>1, <3>1, <3>2
    <2>3. ASSUME NEW j \in 1..Len(chan'[s]) PROVE MessageFair(s, chan[s][j])'
      <3>1. MessageFair(s, chan'[s][j])
        BY <2>2
      <3>2. \A k : Settled(k)' = Settled(k)
        BY <1>7, ListsSame DEF SettledSame
      <3>3. Cardinality(Settled(chan[s][j].key))' = Cardinality(Settled(chan'[s][j].key))
        BY <3>2
      <3>4. QED
        BY <3>1, <3>3, Zenon DEF MessageFair, Truthful
    <2>4. QED
      BY <2>3 DEF MessagesFair
  <1>13. Carried(s)'
    <2>1. ASSUME NEW j \in 1..Len(chan'[s]), chan'[s][j].type = "record"
          PROVE  chan'[s][j].key = known[s[1]][x.i - Len(chan'[s]) + j].key
      <3>1. CASE j \in 1..Len(chan[s])
        <4>1. chan[s][j].key = known[s[1]][snd[s].i - Len(chan[s]) + j].key
          BY <1>1, <1>2, <1>7, <2>1, <3>1 DEF Carried
        <4>2. x.i - Len(chan'[s]) + j = snd[s].i - Len(chan[s]) + j
          <5>1. Len(chan'[s]) = Len(chan[s]) + 1
            BY <1>7
          <5>2. x.i = snd[s].i + 1 /\ snd[s].i \in Nat /\ Len(chan[s]) \in Nat /\ j \in Nat
            BY <1>2, <1>6, <3>1
          <5> DEFINE b == snd[s].i
                     c == Len(chan[s])
          <5>3. b \in Nat /\ c \in Nat /\ j \in Nat
            BY <5>2
          <5> HIDE DEF b, c
          <5>4. (b + 1) - (c + 1) + j = b - c + j
            BY <5>3
          <5>5. QED
            BY <5>1, <5>2, <5>4 DEF b, c
        <4>3. QED
          BY <1>7, <3>1, <4>1, <4>2
      <3>2. CASE j = Len(chan[s]) + 1
        <4>1. x.i - Len(chan'[s]) + j = snd[s].i + 1
          BY <1>2, <1>6, <1>7, <3>2
        <4>2. QED
          BY <1>5, <1>7, <3>2, <4>1
      <3>3. QED
        BY <1>7, <3>1, <3>2
    <2>2. rcv[s].at = "records" =>
            \A i \in 1..(x.n - rcv[s].left) :
              Has(s, known[s[1]][i].key) \/ known[s[1]][i].key = s[2]
      BY <1>1, <1>2, <1>6 DEF Carried
    <2>3. \A k : Has(s, k)' = Has(s, k)
      BY <1>7 DEF Has, Keys
    <2>4. QED
      BY <1>1, <1>7, <1>8, <2>1, <2>2, <2>3 DEF Carried
  <1>14. power[s[1]] = "on" /\ power[To(s)] # "off"
    BY <1>2 DEF IInv, Alive
  <1>15. QED
    BY <1>7, <1>8, <1>10, <1>11, <1>12, <1>13, <1>14, TodosSame, SessionFrame

LEMMA ConnectInv ==
  ASSUME IInv, NEW s \in Sessions, Connect(s)
  PROVE  IInv'
  <1>1. TypeOK /\ InStep(s)
    BY DEF IInv, Protocol
  <1>2. /\ power[s[1]] = "on" /\ power[To(s)] = "on" /\ UNCHANGED <<power, known, chan>>
        /\ rcv[s].at = "idle" /\ chan[s] = << >> /\ rcv[s].todo = Nothing
    BY <1>1 DEF Connect, Idle, InStep
  <1>3. /\ snd \in [Sessions -> Senders] /\ rcv \in [Sessions -> HandlerStates]
        /\ snd' = [snd EXCEPT ![s] = [snd[s] EXCEPT !.at = "intro"]]
        /\ rcv' = [rcv EXCEPT ![s] = [rcv[s] EXCEPT !.at = "intro"]]
    BY <1>1, Types DEF Connect
  <1>4. /\ snd[s] \in Senders /\ rcv[s] \in HandlerStates
    BY <1>3
  <1>5. /\ [snd[s] EXCEPT !.at = "intro"] \in Senders
        /\ [rcv[s] EXCEPT !.at = "intro"] \in HandlerStates
        /\ snd'[s].at = "intro" /\ snd'[s].i = snd[s].i /\ snd'[s].n = snd[s].n
        /\ rcv'[s].at = "intro" /\ rcv'[s].todo = rcv[s].todo
        /\ \A t \in Sessions \ {s} : snd'[t] = snd[t] /\ rcv'[t] = rcv[t]
    BY <1>3, <1>4 DEF Senders, HandlerStates
  <1>6. snd' \in [Sessions -> Senders] /\ rcv' \in [Sessions -> HandlerStates]
    BY <1>3, <1>5
  <1>7. TypeOK'
    BY <1>1, <1>2, <1>6 DEF TypeOK, Senders, HandlerStates
  <1>8. Len(chan[s]) = 0
    BY <1>2
  <1>9. InStep(s)'
    BY <1>1, <1>2, <1>5, <1>8 DEF InStep, Taken, Sent
  <1>10. Ordered(s)' /\ MessagesFair(s)'
    BY <1>2, <1>8 DEF Ordered, MessagesFair
  <1>11. TodosFair(s)' /\ Carried(s)'
    BY <1>2, <1>5 DEF TodosFair, Carried, Nothing
  <1>12. QED
    BY <1>2, <1>5, <1>7, <1>9, <1>10, <1>11, SessionFrame

LEMMA CloseSenderInv ==
  ASSUME IInv, NEW s \in Sessions, CloseSender(s)
  PROVE  IInv'
  <1>1. TypeOK /\ InStep(s) /\ Ordered(s) /\ MessagesFair(s) /\ Carried(s)
    BY DEF IInv, Protocol, Fair, MessagesFair
  <1>2. /\ snd \in [Sessions -> Senders] /\ snd' = [snd EXCEPT ![s] = IdleSender]
        /\ UNCHANGED <<power, known, chan, rcv>>
    BY <1>1, Types DEF CloseSender
  <1>3. snd' \in [Sessions -> Senders]
    BY <1>2, IdleTypes
  <1>4. TypeOK'
    BY <1>1, <1>2, <1>3 DEF TypeOK, Senders
  <1>5. /\ snd'[s].at = "idle" /\ snd'[s].i = 0 /\ snd'[s].n = 0
        /\ \A t \in Sessions \ {s} : snd'[t] = snd[t]
    BY <1>2 DEF IdleSender
  <1>6. InStep(s)'
    BY <1>1, <1>2, <1>5 DEF InStep
  <1>7. Ordered(s)'
    BY <1>1, <1>2, <1>5 DEF Ordered, Taken
  <1>8. MessagesFair(s)'
    BY <1>1, <1>2, ListsSame DEF MessagesFair, MessageFair, SettledSame
  <1>9. Carried(s)'
    BY <1>1, <1>2, <1>5 DEF Carried, Has, Keys
  <1>10. rcv[s].at # "idle" => power[To(s)] = "on"
    BY DEF IInv, Alive
  <1>11. QED
    BY <1>2, <1>4, <1>5, <1>6, <1>7, <1>8, <1>9, <1>10, TodosSame, SessionFrame

LEMMA SendToNobodyInv ==
  ASSUME IInv, NEW s \in Sessions, SendToNobody(s)
  PROVE  IInv'
  <1>1. TypeOK /\ InStep(s) /\ power[To(s)] # "on"
    BY DEF IInv, Protocol, SendToNobody
  <1>2. /\ rcv[s].at = "idle" /\ chan[s] = << >> /\ rcv[s].todo = Nothing
        /\ UNCHANGED <<power, known, chan, rcv>>
    BY <1>1 DEF IInv, Alive, InStep, SendToNobody
  <1>3. /\ snd \in [Sessions -> Senders] /\ snd[s] \in Senders
        /\ Len(known[s[1]]) \in Nat /\ snd[s].i \in Nat /\ snd[s].n \in Nat
    BY <1>1, Types, PairType
  <1>4. PICK x \in Senders :
          /\ snd' = [snd EXCEPT ![s] = x] /\ snd[s].at # "idle"
          /\ x.i <= x.n /\ (x.at = "records" => x.n <= Len(known[s[1]]))
    <2>1. CASE snd[s].at = "intro" /\ snd' = [snd EXCEPT ![s].at = "count", ![s].reset = TRUE]
      <3>1. [snd[s] EXCEPT !.at = "count", !.reset = TRUE] \in Senders
        BY <1>3 DEF Senders
      <3>2. snd' = [snd EXCEPT ![s] = [snd[s] EXCEPT !.at = "count", !.reset = TRUE]]
        BY <1>3, <2>1
      <3>3. QED
        BY <1>1, <1>3, <2>1, <3>1, <3>2 DEF InStep, Senders
    <2>2. CASE /\ snd[s].at = "count"
               /\ snd' = [snd EXCEPT ![s] = [at |-> "records", i |-> 0,
                                      n |-> Len(known[s[1]]), reset |-> TRUE]]
      <3> DEFINE x == [at |-> "records", i |-> 0, n |-> Len(known[s[1]]),
                       reset |-> TRUE]
      <3>1. x \in Senders /\ x.i <= x.n /\ x.n = Len(known[s[1]])
        BY <1>3 DEF Senders
      <3>2. snd' = [snd EXCEPT ![s] = x]
        BY <2>2
      <3> HIDE DEF x
      <3>3. snd[s].at # "idle" /\ x.n <= Len(known[s[1]])
        BY <1>3, <2>2, <3>1
      <3>4. QED
        BY <3>1, <3>2, <3>3, Zenon
    <2>3. CASE /\ snd[s].at = "records" /\ snd[s].i < snd[s].n
               /\ snd' = [snd EXCEPT ![s].i = @ + 1, ![s].reset = TRUE]
      <3> DEFINE x == [snd[s] EXCEPT !.i = snd[s].i + 1, !.reset = TRUE]
      <3>0. snd[s].at = "records" /\ snd[s].i + 1 \in Nat
        BY <1>3, <2>3
      <3>1. x \in Senders /\ x.at = "records" /\ x.i = snd[s].i + 1 /\ x.n = snd[s].n
        BY <1>3, <3>0 DEF Senders
      <3>2. snd' = [snd EXCEPT ![s] = x]
        BY <1>3, <2>3
      <3> HIDE DEF x
      <3>3. x.i <= x.n
        BY <1>3, <2>3, <3>1
      <3>4. x.n <= Len(known[s[1]])
        BY <1>1, <2>3, <3>1 DEF InStep
      <3>5. QED
        BY <2>3, <3>1, <3>2, <3>3, <3>4
    <2>4. QED
      BY <2>1, <2>2, <2>3 DEF SendToNobody
  <1>5. snd' \in [Sessions -> Senders] /\ snd'[s] = x /\ \A t \in Sessions \ {s} : snd'[t] = snd[t]
    BY <1>3, <1>4
  <1>6. TypeOK'
    BY <1>1, <1>2, <1>5 DEF TypeOK, Senders
  <1>7. InStep(s)'
    BY <1>1, <1>2, <1>4, <1>5 DEF InStep
  <1>8. Ordered(s)' /\ MessagesFair(s)' /\ Carried(s)'
    <2>1. Len(chan[s]) = 0
      BY <1>2
    <2>2. QED
      BY <1>2, <2>1 DEF Ordered, MessagesFair, Carried
  <1>9. power[s[1]] = "on" /\ power[To(s)] # "off"
    BY <1>4 DEF IInv, Alive
  <1>10. QED
    BY <1>2, <1>5, <1>6, <1>7, <1>8, <1>9, TodosSame, SessionFrame

LEMMA CloseHandlerInv ==
  ASSUME IInv, NEW s \in Sessions, CloseHandler(s)
  PROVE  IInv'
  <1>1. TypeOK /\ InStep(s) /\ power[To(s)] = "on"
    BY DEF IInv, Protocol, CloseHandler, Alive
  <1>2. /\ rcv \in [Sessions -> HandlerStates] /\ rcv' = [rcv EXCEPT ![s] = IdleHandler]
        /\ UNCHANGED <<power, known, snd, chan>>
        /\ Len(chan[s]) \in Nat /\ chan[s] \in Seq(Message)
        /\ snd[s].i \in Nat /\ snd[s].n \in Nat
    BY <1>1, Types DEF CloseHandler
  <1>3. rcv' \in [Sessions -> HandlerStates]
    BY <1>2, IdleTypes
  <1>4. TypeOK'
    BY <1>1, <1>2, <1>3 DEF TypeOK, HandlerStates
  <1>5. /\ rcv'[s].at = "idle" /\ rcv'[s].todo = Nothing
        /\ \A t \in Sessions \ {s} : rcv'[t] = rcv[t]
    BY <1>2 DEF IdleHandler
  <1>6. chan[s] = << >>
        /\ (snd[s].at = "idle" \/ (snd[s].at = "records" /\ snd[s].i = snd[s].n))
    <2>1. CASE chan[s] = << >> /\ snd[s].at = "idle"
      BY <2>1
    <2>2. CASE rcv[s].at = "records" /\ rcv[s].left = 0
      <3>1. Len(chan[s]) <= 0 /\ snd[s].at \in {"records", "idle"}
            /\ (snd[s].at = "records" => 0 + snd[s].i = Len(chan[s]) + snd[s].n)
        BY <1>1, <2>2 DEF InStep
      <3>2. Len(chan[s]) = 0
        BY <1>2, <3>1
      <3>3. QED
        BY <1>2, <3>1, <3>2
    <2>3. QED
      BY <2>1, <2>2 DEF CloseHandler
  <1>7. InStep(s)'
    BY <1>1, <1>2, <1>5, <1>6 DEF InStep
  <1>8. Ordered(s)' /\ MessagesFair(s)' /\ Carried(s)'
    <2>1. Len(chan[s]) = 0
      BY <1>6
    <2>2. QED
      BY <1>2, <1>5, <2>1 DEF Ordered, MessagesFair, Carried
  <1>9. TodosFair(s)'
    BY <1>5 DEF TodosFair, Nothing
  <1>10. snd[s].at # "idle" => power[s[1]] = "on" /\ power[To(s)] # "off"
    BY DEF IInv, Alive
  <1>11. QED
    BY <1>2, <1>4, <1>5, <1>7, <1>8, <1>9, <1>10, SessionFrame

\* Two first entries with the same key are one entry.
LEMMA OneForemost ==
  ASSUME TypeOK, NEW p \in Peers, NEW i \in DOMAIN known[p], NEW j \in DOMAIN known[p],
         Foremost(p, i), Foremost(p, j), known[p][i].key = known[p][j].key
  PROVE  i = j
  <1>1. i \in Nat /\ j \in Nat /\ i >= 1 /\ j >= 1
    BY Types
  <1>2. ~(i < j)
    <2>1. i < j => i \in 1..(j - 1)
      BY <1>1
    <2>2. QED
      BY <2>1 DEF Foremost
  <1>3. ~(j < i)
    <2>1. j < i => j \in 1..(i - 1)
      BY <1>1
    <2>2. QED
      BY <2>1 DEF Foremost
  <1>4. QED
    BY <1>1, <1>2, <1>3

\* What a look-up decides is fair, and the handler has or will have the key.
LEMMA DecisionFair ==
  ASSUME TypeOK, NEW q \in Peers, NEW k \in Addrs, NEW n \in Name, Foreign(q, k),
         Truthful(k, n), n # Unnamed, n.pad <= Cardinality(Settled(k)) + 1
  PROVE  LET d == Decision(q, k, n)
         IN  /\ d.op = "insert" => /\ d.key = k /\ Foreign(q, d.key) /\ d.key \notin Keys(q)
                                   /\ TodoFair(q, d.key, d.name)
             /\ d.op = "name" => /\ d.at \in DOMAIN known[q] /\ Foremost(q, d.at)
                                 /\ TodoFair(q, known[q][d.at].key, d.name)
             /\ d.op # "insert" => k \in Keys(q)
  <1> DEFINE d == Decision(q, k, n)
  <1>1. /\ d \in Todo
        /\ d.op = "insert" => d.key = k /\ d.name = n /\ k \notin Keys(q)
        /\ d.op = "name" => /\ d.name = n /\ d.at \in DOMAIN known[q]
                            /\ known[q][d.at].key = k /\ known[q][d.at].name = Unnamed
                            /\ Foremost(q, d.at)
        /\ d.op = "none" => k \in Keys(q)
    BY DecisionType
  <1>2. d.op \in {"none", "insert", "name"}
    BY <1>1, TodoType
  <1> HIDE DEF d
  <1>3. d.op # "none" => q \notin Settled(k)
    <2>1. CASE d.op = "insert"
      BY <1>1, <2>1 DEF Settled, Keys
    <2>2. CASE d.op = "name"
      <3>1. SUFFICES ASSUME q \in Settled(k) PROVE FALSE
        OBVIOUS
      <3>2. PICK i \in DOMAIN known[q] :
              known[q][i].key = k /\ Foremost(q, i) /\ known[q][i].name # Unnamed
        BY <3>1 DEF Settled
      <3>3. i = d.at
        BY <1>1, <2>2, <3>2, OneForemost
      <3>4. QED
        BY <1>1, <2>2, <3>2, <3>3
    <2>3. QED
      BY <1>2, <2>1, <2>2
  <1>4. d.op # "none" => TodoFair(q, k, n)
    BY <1>3, SettledType DEF TodoFair
  <1>5. d.op = "name" => k \in Keys(q)
    BY <1>1 DEF Keys
  <1>6. QED
    BY <1>1, <1>2, <1>4, <1>5 DEF d

\* The records that are still on the way after one message is taken.
LEMMA CarriedOn ==
  ASSUME IInv, NEW s \in Sessions, UNCHANGED <<known, snd>>,
         Len(chan[s]) = Len(chan'[s]) + 1, Len(chan'[s]) \in Nat,
         \A j \in 1..Len(chan'[s]) :
           chan'[s][j] = chan[s][j + 1] /\ j + 1 \in 1..Len(chan[s]),
         snd[s].at = "records"
  PROVE  \A j \in 1..Len(chan'[s]) : chan'[s][j].type = "record" =>
           chan'[s][j].key = known'[s[1]][snd'[s].i - Len(chan'[s]) + j].key
  <1> SUFFICES ASSUME NEW j \in 1..Len(chan'[s]), chan'[s][j].type = "record"
               PROVE  chan'[s][j].key = known[s[1]][snd[s].i - Len(chan'[s]) + j].key
    OBVIOUS
  <1>1. Carried(s) /\ snd[s].i \in Nat
    BY Types DEF IInv
  <1>2. chan[s][j + 1].key = known[s[1]][snd[s].i - Len(chan[s]) + (j + 1)].key
    BY <1>1 DEF Carried
  <1>3. snd[s].i - Len(chan[s]) + (j + 1) = snd[s].i - Len(chan'[s]) + j
    <2>1. PICK a \in Nat, b \in Nat, i \in Nat :
            /\ a = snd[s].i /\ b = Len(chan'[s]) /\ i = j /\ Len(chan[s]) = b + 1
      BY <1>1
    <2>2. a - (b + 1) + (i + 1) = a - b + i
      OBVIOUS
    <2>3. QED
      BY <2>1, <2>2
  <1>4. QED
    BY <1>2, <1>3

LEMMA RecvIntroductionInv ==
  ASSUME IInv, Reached, NEW s \in Sessions, RecvIntroduction(s)
  PROVE  IInv'
  <1> DEFINE m == chan[s][1]
             d == Decision(To(s), m.key, m.name)
             h == [rcv[s] EXCEPT !.at = "count", !.todo = d]
  <1>1. TypeOK /\ InStep(s) /\ Ordered(s) /\ MessagesFair(s) /\ Carried(s)
    BY DEF IInv, Protocol, Fair, MessagesFair
  <1>2. /\ rcv[s] \in HandlerStates /\ rcv[s].at = "intro" /\ chan[s] # << >>
        /\ chan[s] \in Seq(Message) /\ Head(chan[s]) = m /\ 1 \in 1..Len(chan[s])
        /\ m \in Message /\ Receive(s, h)
    BY <1>1, Types DEF RecvIntroduction
  <1>3. m.type = "intro" /\ m.key \in Addrs /\ m.name \in Name
    <2>1. m.type = Kind(0 + 1)
      BY <1>1, <1>2 DEF Ordered, Taken
    <2>2. QED
      BY <1>2, <2>1, MessageType DEF Kind
  <1>4. /\ m.key = From[s] /\ Truthful(m.key, m.name) /\ m.name # Unnamed
        /\ m.name.pad <= Cardinality(Settled(m.key)) + 1
    BY <1>1, <1>2, <1>3 DEF MessagesFair, MessageFair
  <1>5. d \in Todo
    BY <1>1, <1>3, PairType, DecisionType
  <1>6. /\ d.op = "insert" => /\ d.key = From[s] /\ Foreign(To(s), d.key) /\ d.key \notin Keys(To(s))
                              /\ TodoFair(To(s), d.key, d.name)
        /\ d.op = "name" => /\ d.at \in DOMAIN known[To(s)] /\ Foremost(To(s), d.at)
                            /\ TodoFair(To(s), known[To(s)][d.at].key, d.name)
        /\ d.op # "insert" => From[s] \in Keys(To(s))
    <2>1. Foreign(To(s), From[s])
      <3>1. CASE To(s) = s[1]
        <4>1. s[2] \in Keys(s[1])
          BY <1>2 DEF Reached
        <4>2. PICK i \in DOMAIN known[s[1]] : known[s[1]][i].key = s[2]
          BY <4>1 DEF Keys
        <4>3. EntryFair(s[1], known[s[1]][i])
          BY <4>2, PairType DEF IInv, Fair
        <4>4. Foreign(To(s), s[2])
          BY <3>1, <4>2, <4>3 DEF EntryFair
        <4>5. QED
          BY <4>4, ForeignRules
      <3>2. CASE To(s) # s[1]
        BY <3>2, ForeignRules
      <3>3. QED
        BY <3>1, <3>2
    <2>2. QED
      BY <1>1, <1>3, <1>4, <2>1, PairType, DecisionFair
  <1> HIDE DEF d, m
  <1>7. h \in HandlerStates /\ h.at = "count" /\ h.todo = d
    BY <1>2, <1>5 DEF HandlerStates
  <1> HIDE DEF h
  <1>8. /\ TypeOK' /\ UNCHANGED <<power, known, snd>>
        /\ rcv'[s] = h
        /\ \A t \in Sessions \ {s} : rcv'[t] = rcv[t] /\ chan'[t] = chan[t]
        /\ Len(chan[s]) = Len(chan'[s]) + 1 /\ Len(chan'[s]) \in Nat
        /\ \A j \in 1..Len(chan'[s]) :
             chan'[s][j] = chan[s][j + 1] /\ j + 1 \in 1..Len(chan[s])
    BY <1>1, <1>2, <1>7, Receiving
  <1>9. Taken(s) = 0 /\ Taken(s)' = 1 /\ Sent(s)' = Sent(s)
    BY <1>2, <1>7, <1>8 DEF Taken, Sent
  <1>10. InStep(s)'
    <2>1. snd[s].at # "idle" => 0 + Len(chan[s]) = Sent(s)
      BY <1>1, <1>2, <1>9 DEF InStep
    <2>2. snd[s].at # "idle" => 1 + Len(chan'[s]) = Sent(s)
      BY <1>8, <2>1
    <2>3. /\ snd[s].i <= snd[s].n
          /\ snd[s].at = "records" => snd[s].n <= Len(known[s[1]])
      BY <1>1 DEF InStep
    <2>4. QED
      BY <1>7, <1>8, <1>9, <2>2, <2>3 DEF InStep
  <1>11. Ordered(s)'
    <2>1. ASSUME NEW j \in 1..Len(chan'[s])
          PROVE  /\ chan'[s][j].type = Kind(1 + j)
                 /\ chan'[s][j].type = "count" =>
                      /\ Len(chan'[s]) <= chan'[s][j].n + j
                      /\ snd[s].at = "records" => chan'[s][j].n = snd[s].n
      <3>1. /\ chan'[s][j] = chan[s][j + 1] /\ j + 1 \in 1..Len(chan[s])
            /\ chan[s][j + 1] \in Message
        BY <1>2, <1>8
      <3>2. /\ chan[s][j + 1].type = Kind(0 + (j + 1))
            /\ chan[s][j + 1].type = "count" =>
                 /\ Len(chan[s]) <= chan[s][j + 1].n + (j + 1)
                 /\ snd[s].at = "records" => chan[s][j + 1].n = snd[s].n
        BY <1>1, <1>9, <3>1 DEF Ordered
      <3>3. 0 + (j + 1) = 1 + j
        OBVIOUS
      <3>4. chan[s][j + 1].type = "count" => Len(chan'[s]) <= chan[s][j + 1].n + j
        <4>1. SUFFICES ASSUME chan[s][j + 1].type = "count"
                       PROVE  Len(chan'[s]) <= chan[s][j + 1].n + j
          OBVIOUS
        <4>2. chan[s][j + 1].n \in Nat
          BY <3>1, <4>1, MessageType
        <4>3. QED
          BY <1>8, <3>2, <4>1, <4>2
      <3>5. QED
        BY <3>1, <3>2, <3>3, <3>4
    <2>2. QED
      BY <1>8, <1>9, <2>1 DEF Ordered
  <1>12. MessagesFair(s)'
    BY <1>1, <1>8, ListsSame DEF MessagesFair, MessageFair, SettledSame
  <1>13. SettledSame /\ Keys(To(s))' = Keys(To(s))
    BY <1>8, ListsSame DEF Keys
  <1>14. TodosFair(s)'
    BY <1>6, <1>7, <1>8, <1>13 DEF TodosFair, TodoFair, SettledSame, Foremost
  <1>15. Carried(s)'
    <2>1. Has(s, From[s])'
      BY <1>6, <1>7, <1>8, <1>13 DEF Has
    <2>2. QED
      BY <1>7, <1>8, <2>1, CarriedOn DEF Carried
  <1>16. /\ snd[s].at # "idle" => power[s[1]] = "on" /\ power[To(s)] # "off"
         /\ power[To(s)] = "on"
    BY <1>2 DEF IInv, Alive
  <1>17. QED
    BY <1>8, <1>10, <1>11, <1>12, <1>14, <1>15, <1>16, SessionFrame

LEMMA RecvCountInv ==
  ASSUME IInv, NEW s \in Sessions, RecvCount(s)
  PROVE  IInv'
  <1> DEFINE m == chan[s][1]
             h == [rcv[s] EXCEPT !.at = "records", !.left = m.n]
  <1>1. TypeOK /\ InStep(s) /\ Ordered(s) /\ MessagesFair(s) /\ Carried(s)
    BY DEF IInv, Protocol, Fair, MessagesFair
  <1>2. /\ rcv[s] \in HandlerStates /\ rcv[s].at = "count" /\ chan[s] # << >>
        /\ chan[s] \in Seq(Message) /\ Head(chan[s]) = m /\ 1 \in 1..Len(chan[s])
        /\ m \in Message /\ Receive(s, h) /\ snd[s].i \in Nat /\ snd[s].n \in Nat
        /\ snd[s].at \in {"idle", "intro", "count", "records"}
    BY <1>1, Types DEF RecvCount
  <1>3. m.type = "count" /\ m.n \in Nat
    <2>1. m.type = Kind(1 + 1)
      BY <1>1, <1>2 DEF Ordered, Taken
    <2>2. QED
      BY <1>2, <2>1, MessageType DEF Kind
  <1>4. /\ Len(chan[s]) <= m.n + 1
        /\ snd[s].at = "records" => m.n = snd[s].n
    BY <1>1, <1>2, <1>3 DEF Ordered
  <1> HIDE DEF m
  <1>5. h \in HandlerStates /\ h.at = "records" /\ h.todo = rcv[s].todo /\ h.left = m.n
    BY <1>2, <1>3 DEF HandlerStates
  <1> HIDE DEF h
  <1>6. /\ TypeOK' /\ UNCHANGED <<power, known, snd>>
        /\ rcv'[s] = h /\ rcv[s].todo = Nothing
        /\ \A t \in Sessions \ {s} : rcv'[t] = rcv[t] /\ chan'[t] = chan[t]
        /\ Len(chan[s]) = Len(chan'[s]) + 1 /\ Len(chan'[s]) \in Nat
        /\ \A j \in 1..Len(chan'[s]) :
             chan'[s][j] = chan[s][j + 1] /\ j + 1 \in 1..Len(chan[s])
    BY <1>1, <1>2, <1>5, Receiving
  <1>7. Taken(s) = 1 /\ Taken(s)' = 2
    BY <1>2, <1>5, <1>6 DEF Taken
  <1>8. snd[s].at # "idle" => snd[s].at = "records" /\ snd[s].i = Len(chan'[s])
    <2>1. SUFFICES ASSUME snd[s].at # "idle"
                   PROVE  snd[s].at = "records" /\ snd[s].i = Len(chan'[s])
      OBVIOUS
    <2>2. 1 + Len(chan[s]) = Sent(s)
      BY <1>1, <1>2, <1>7, <2>1 DEF InStep
    <2>3. 2 + Len(chan'[s]) = Sent(s)
      BY <1>6, <2>2
    <2>4. snd[s].at = "records"
      BY <1>2, <1>6, <2>1, <2>3 DEF Sent
    <2>5. QED
      BY <1>2, <1>6, <2>3, <2>4 DEF Sent
  <1>9. Len(chan'[s]) <= m.n
    BY <1>3, <1>4, <1>6
  <1>10. InStep(s)'
    <2>1. /\ snd[s].i <= snd[s].n
          /\ snd[s].at = "records" => snd[s].n <= Len(known[s[1]])
      BY <1>1 DEF InStep
    <2>2. snd[s].at = "records" => m.n <= snd[s].n /\ m.n + snd[s].i = Len(chan'[s]) + snd[s].n
      BY <1>2, <1>4, <1>8
    <2>3. QED
      BY <1>2, <1>5, <1>6, <1>8, <1>9, <2>1, <2>2 DEF InStep
  <1>11. Ordered(s)'
    <2>1. ASSUME NEW j \in 1..Len(chan'[s]) PROVE chan'[s][j].type = Kind(2 + j) /\ Kind(2 + j) = "record"
      <3>1. /\ chan'[s][j] = chan[s][j + 1] /\ j + 1 \in 1..Len(chan[s])
        BY <1>6
      <3>2. chan[s][j + 1].type = Kind(1 + (j + 1))
        BY <1>1, <1>7, <3>1 DEF Ordered
      <3>3. 1 + (j + 1) = 2 + j /\ 2 + j # 1 /\ 2 + j # 2
        OBVIOUS
      <3>4. QED
        BY <3>1, <3>2, <3>3 DEF Kind
    <2>2. QED
      BY <1>7, <2>1 DEF Ordered
  <1>12. MessagesFair(s)'
    BY <1>1, <1>6, ListsSame DEF MessagesFair, MessageFair, SettledSame
  <1>13. TodosFair(s)'
    BY <1>5, <1>6 DEF TodosFair, Nothing
  <1>14. Carried(s)'
    <2>1. Has(s, From[s])'
      BY <1>1, <1>2, <1>5, <1>6 DEF Carried, Has, Keys
    <2>2. snd[s].at = "records" => 1..(snd[s].n - m.n) = {}
      BY <1>2, <1>4
    <2>3. QED
      BY <1>5, <1>6, <2>1, <2>2, CarriedOn DEF Carried
  <1>15. /\ snd[s].at # "idle" => power[s[1]] = "on" /\ power[To(s)] # "off"
         /\ power[To(s)] = "on"
    BY <1>2 DEF IInv, Alive
  <1>16. QED
    BY <1>6, <1>10, <1>11, <1>12, <1>13, <1>14, <1>15, SessionFrame

LEMMA RecvRecordInv ==
  ASSUME IInv, NEW s \in Sessions, RecvRecord(s)
  PROVE  IInv'
  <1> DEFINE m == chan[s][1]
             d == IF m.key = s[2] THEN Nothing ELSE Decision(To(s), m.key, m.name)
             h == [rcv[s] EXCEPT !.left = @ - 1, !.todo = d]
  <1>1. TypeOK /\ InStep(s) /\ Ordered(s) /\ MessagesFair(s) /\ Carried(s)
    BY DEF IInv, Protocol, Fair, MessagesFair
  <1>2. /\ rcv[s] \in HandlerStates /\ rcv[s].at = "records" /\ chan[s] # << >>
        /\ chan[s] \in Seq(Message) /\ Head(chan[s]) = m /\ 1 \in 1..Len(chan[s])
        /\ m \in Message /\ Receive(s, h) /\ snd[s].i \in Nat /\ snd[s].n \in Nat
        /\ rcv[s].left \in Nat \ {0}
        /\ snd[s].at \in {"idle", "intro", "count", "records"}
    BY <1>1, Types DEF RecvRecord
  <1>3. m.type = "record" /\ m.key \in Addrs /\ m.name \in Name
    <2>1. m.type = Kind(2 + 1)
      BY <1>1, <1>2 DEF Ordered, Taken
    <2>2. QED
      BY <1>2, <2>1, MessageType DEF Kind
  <1>4. /\ Truthful(m.key, m.name) /\ m.name # Unnamed
        /\ m.name.pad <= Cardinality(Settled(m.key)) + 1
    BY <1>1, <1>2, <1>3 DEF MessagesFair, MessageFair
  <1>5. d \in Todo
    BY <1>1, <1>3, PairType, DecisionType, IdleTypes
  <1>6. /\ d.op = "insert" => /\ d.key = m.key /\ Foreign(To(s), d.key) /\ d.key \notin Keys(To(s))
                              /\ TodoFair(To(s), d.key, d.name)
        /\ d.op = "name" => /\ d.at \in DOMAIN known[To(s)] /\ Foremost(To(s), d.at)
                            /\ TodoFair(To(s), known[To(s)][d.at].key, d.name)
        /\ d.op # "insert" => m.key \in Keys(To(s)) \cup {s[2]}
    <2>1. CASE m.key = s[2]
      BY <2>1 DEF Nothing
    <2>2. CASE m.key # s[2]
      <3>1. d = Decision(To(s), m.key, m.name)
        BY <2>2
      <3>2. PICK q \in Peers, k \in Addrs, n \in Name : q = To(s) /\ k = m.key /\ n = m.name
        BY <1>3, PairType
      <3>3. /\ Foreign(q, k) /\ Truthful(k, n) /\ n # Unnamed
            /\ n.pad <= Cardinality(Settled(k)) + 1
        BY <1>4, <2>2, <3>2, ForeignRules
      <3> HIDE DEF d, m
      <3>4. TypeOK
        BY <1>1
      <3>5. LET e == Decision(q, k, n)
            IN  /\ e.op = "insert" => /\ e.key = k /\ Foreign(q, e.key) /\ e.key \notin Keys(q)
                                      /\ TodoFair(q, e.key, e.name)
                /\ e.op = "name" => /\ e.at \in DOMAIN known[q] /\ Foremost(q, e.at)
                                    /\ TodoFair(q, known[q][e.at].key, e.name)
                /\ e.op # "insert" => k \in Keys(q)
        BY <3>3, <3>4, DecisionFair
      <3>6. d = Decision(q, k, n)
        BY <3>1, <3>2
      <3>7. QED
        BY <3>2, <3>5, <3>6
    <2>3. QED
      BY <2>1, <2>2
  <1>7. snd[s].at = "records" => m.key = known[s[1]][snd[s].i - Len(chan[s]) + 1].key
    BY <1>1, <1>2, <1>3 DEF Carried
  <1> HIDE DEF d, m
  <1>8. h \in HandlerStates /\ h.at = "records" /\ h.todo = d /\ h.left = rcv[s].left - 1
    <2>1. rcv[s].left - 1 \in Nat
      BY <1>2
    <2>2. QED
      BY <1>2, <1>5, <2>1 DEF HandlerStates
  <1> HIDE DEF h
  <1>9. /\ TypeOK' /\ UNCHANGED <<power, known, snd>>
        /\ rcv'[s] = h /\ rcv[s].todo = Nothing
        /\ \A t \in Sessions \ {s} : rcv'[t] = rcv[t] /\ chan'[t] = chan[t]
        /\ Len(chan[s]) = Len(chan'[s]) + 1 /\ Len(chan'[s]) \in Nat
        /\ \A j \in 1..Len(chan'[s]) :
             chan'[s][j] = chan[s][j + 1] /\ j + 1 \in 1..Len(chan[s])
    BY <1>1, <1>2, <1>8, Receiving
  <1>10. Taken(s) = 2 /\ Taken(s)' = 2
    BY <1>2, <1>8, <1>9 DEF Taken
  <1>11. /\ snd[s].at \in {"records", "idle"} /\ Len(chan[s]) <= rcv[s].left
         /\ snd[s].at = "records" =>
              /\ rcv[s].left <= snd[s].n
              /\ rcv[s].left + snd[s].i = Len(chan[s]) + snd[s].n
    BY <1>1, <1>2 DEF InStep
  <1>12. InStep(s)'
    <2>1. /\ snd[s].i <= snd[s].n
          /\ snd[s].at = "records" => snd[s].n <= Len(known[s[1]])
      BY <1>1 DEF InStep
    <2>2. /\ Len(chan'[s]) <= h.left
          /\ snd[s].at = "records" =>
               h.left <= snd[s].n /\ h.left + snd[s].i = Len(chan'[s]) + snd[s].n
      <3> DEFINE a == rcv[s].left
                 b == snd[s].i
                 c == Len(chan'[s])
                 e == snd[s].n
      <3>1. /\ a \in Nat \ {0} /\ b \in Nat /\ c \in Nat /\ e \in Nat
            /\ Len(chan[s]) = c + 1 /\ Len(chan[s]) <= a /\ h.left = a - 1
            /\ snd[s].at = "records" => a <= e /\ a + b = Len(chan[s]) + e
        BY <1>2, <1>8, <1>9, <1>11
      <3> HIDE DEF a, b, c, e
      <3>2. c <= h.left /\ (snd[s].at = "records" => h.left <= e /\ h.left + b = c + e)
        BY <3>1
      <3>3. QED
        BY <3>2 DEF a, b, c, e
    <2>3. QED
      BY <1>8, <1>9, <1>11, <2>1, <2>2 DEF InStep
  <1>13. Ordered(s)'
    <2>1. ASSUME NEW j \in 1..Len(chan'[s]) PROVE chan'[s][j].type = Kind(2 + j) /\ Kind(2 + j) = "record"
      <3>1. /\ chan'[s][j] = chan[s][j + 1] /\ j + 1 \in 1..Len(chan[s])
        BY <1>9
      <3>2. chan[s][j + 1].type = Kind(2 + (j + 1))
        BY <1>1, <1>10, <3>1 DEF Ordered
      <3>3. /\ 2 + (j + 1) # 1 /\ 2 + (j + 1) # 2 /\ 2 + j # 1 /\ 2 + j # 2
        OBVIOUS
      <3>4. QED
        BY <3>1, <3>2, <3>3 DEF Kind
    <2>2. QED
      BY <1>10, <2>1 DEF Ordered
  <1>14. MessagesFair(s)'
    BY <1>1, <1>9, ListsSame DEF MessagesFair, MessageFair, SettledSame
  <1>15. SettledSame /\ Keys(To(s))' = Keys(To(s))
    BY <1>9, ListsSame DEF Keys
  <1>16. TodosFair(s)'
    BY <1>6, <1>8, <1>9, <1>15 DEF TodosFair, TodoFair, SettledSame, Foremost
  <1>17. Carried(s)'
    <2>1. \A k : Has(s, k) => Has(s, k)'
      BY <1>9, <1>15 DEF Has, Nothing
    <2>2. ASSUME NEW k, k = m.key PROVE Has(s, k)' \/ k = s[2]
      BY <1>6, <1>8, <1>9, <1>15, <2>2 DEF Has
    <2>3. ASSUME snd[s].at = "records", NEW i \in 1..(snd[s].n - h.left),
                 NEW k, k = known[s[1]][i].key
          PROVE  Has(s, k)' \/ k = s[2]
      <3>1. i \in 1..(snd[s].n - rcv[s].left) \/ i = snd[s].i - Len(chan[s]) + 1
        <4> DEFINE a == rcv[s].left
                   b == snd[s].i
                   c == Len(chan[s])
                   e == snd[s].n
        <4>1. a \in Nat /\ b \in Nat /\ c \in Nat /\ e \in Nat /\ a + b = c + e
              /\ i \in 1..(e - (a - 1))
          BY <1>2, <1>8, <1>9, <1>11, <2>3
        <4> HIDE DEF a, b, c, e
        <4>2. i \in 1..(e - a) \/ i = b - c + 1
          BY <4>1
        <4>3. QED
          BY <4>2 DEF a, b, c, e
      <3>2. CASE i \in 1..(snd[s].n - rcv[s].left)
        BY <1>1, <1>2, <2>1, <2>3, <3>2 DEF Carried
      <3>3. CASE i = snd[s].i - Len(chan[s]) + 1
        BY <1>7, <2>2, <2>3, <3>3
      <3>4. QED
        BY <3>1, <3>2, <3>3
    <2>4. Has(s, From[s])'
      BY <1>1, <1>2, <2>1 DEF Carried
    <2>6. QED
      BY <1>8, <1>9, <2>3, <2>4, CarriedOn DEF Carried, Has
  <1>18. /\ snd[s].at # "idle" => power[s[1]] = "on" /\ power[To(s)] # "off"
         /\ power[To(s)] = "on"
    BY <1>2 DEF IInv, Alive
  <1>19. QED
    BY <1>9, <1>12, <1>13, <1>14, <1>16, <1>17, <1>18, SessionFrame

-----------------------------------------------------------------------------
(* Steps that change the lists                                             *)

Growth ==
  \A p \in Peers : \A i \in DOMAIN known[p] :
    /\ i \in DOMAIN known'[p]
    /\ known'[p][i].key = known[p][i].key
    /\ known[p][i].name # Unnamed => known'[p][i].name # Unnamed

\* A first entry stays the first with its key, and who is settled stays so.
LEMMA Growing ==
  ASSUME TypeOK, TypeOK', Growth
  PROVE  /\ \A p \in Peers : Len(known[p]) <= Len(known'[p])
         /\ \A p \in Peers : \A k : k \in Keys(p) => k \in Keys(p)'
         /\ \A p \in Peers : \A i \in DOMAIN known[p] : Foremost(p, i) => Foremost(p, i)'
         /\ \A k : \A q : q \in Settled(k) => q \in Settled(k)'
         /\ \A k : Cardinality(Settled(k)) <= Cardinality(Settled(k))'
         /\ \A k : \A q : Cardinality(Settled(k) \ {q}) <= Cardinality(Settled(k) \ {q})'
  <1>1. ASSUME NEW p \in Peers
        PROVE  /\ DOMAIN known[p] = 1..Len(known[p]) /\ Len(known[p]) \in Nat
               /\ DOMAIN known'[p] = 1..Len(known'[p]) /\ Len(known'[p]) \in Nat
    <2>1. DOMAIN known[p] = 1..Len(known[p]) /\ Len(known[p]) \in Nat
      BY Types
    <2>2. known'[p] \in Seq([key : Addrs, name : Name])
      BY DEF TypeOK
    <2>3. QED
      BY <2>1, <2>2
  <1>2. ASSUME NEW p \in Peers PROVE Len(known[p]) <= Len(known'[p])
    <2>1. Len(known[p]) # 0 => Len(known[p]) \in DOMAIN known'[p]
      BY <1>1 DEF Growth
    <2>2. QED
      BY <1>1, <2>1
  <1>3. ASSUME NEW p \in Peers, NEW k, k \in Keys(p) PROVE k \in Keys(p)'
    <2>1. PICK i \in DOMAIN known[p] : known[p][i].key = k
      BY <1>3 DEF Keys
    <2>2. i \in DOMAIN known'[p] /\ known'[p][i].key = k
      BY <2>1 DEF Growth
    <2>3. QED
      BY <2>2 DEF Keys
  <1>4. ASSUME NEW p \in Peers, NEW i \in DOMAIN known[p], Foremost(p, i)
        PROVE  Foremost(p, i)'
    <2>1. \A j \in 1..(i - 1) : j \in DOMAIN known[p]
      BY <1>1
    <2>2. \A j \in 1..(i - 1) : known'[p][j].key # known'[p][i].key
      BY <1>4, <2>1 DEF Growth, Foremost
    <2>3. QED
      BY <2>2 DEF Foremost
  <1>5. ASSUME NEW k, NEW q, q \in Settled(k) PROVE q \in Settled(k)'
    <2>1. PICK i \in DOMAIN known[q] :
            known[q][i].key = k /\ Foremost(q, i) /\ known[q][i].name # Unnamed
      BY <1>5 DEF Settled
    <2>2. q \in Peers
      BY <1>5 DEF Settled
    <2>3. /\ i \in DOMAIN known'[q] /\ known'[q][i].key = k /\ known'[q][i].name # Unnamed
          /\ Foremost(q, i)'
      BY <1>4, <2>1, <2>2 DEF Growth
    <2>4. QED
      BY <2>2, <2>3 DEF Settled
  <1>6. ASSUME NEW k
        PROVE  /\ Cardinality(Settled(k)) <= Cardinality(Settled(k))'
               /\ \A q : Cardinality(Settled(k) \ {q}) <= Cardinality(Settled(k) \ {q})'
    <2>1. Settled(k)' \in SUBSET Peers
      BY DEF Settled
    <2>2. IsFiniteSet(Settled(k)')
      BY <2>1, GossipAssumption, FS_Subset
    <2>3. \A q : IsFiniteSet(Settled(k)' \ {q})
      BY <2>2, FS_Subset
    <2>4. Settled(k) \in SUBSET (Settled(k)')
      BY <1>5
    <2>5. \A q : (Settled(k) \ {q}) \in SUBSET (Settled(k)' \ {q})
      BY <2>4
    <2>6. QED
      BY <2>2, <2>3, <2>4, <2>5, FS_Subset
  <1>7. QED
    BY <1>2, <1>3, <1>4, <1>5, <1>6

\* Where a record on the way comes from.
LEMMA RecordIndex ==
  ASSUME IInv, NEW s \in Sessions, snd[s].at = "records",
         NEW j \in 1..Len(chan[s]), chan[s][j].type = "record"
  PROVE  snd[s].i - Len(chan[s]) + j \in DOMAIN known[s[1]]
  <1>1. TypeOK /\ InStep(s) /\ Ordered(s)
    BY DEF IInv, Protocol
  <1>2. /\ snd[s].i \in Nat /\ snd[s].n \in Nat /\ rcv[s].left \in Nat
        /\ Len(chan[s]) \in Nat /\ rcv[s].at \in {"idle", "intro", "count", "records"}
        /\ DOMAIN known[s[1]] = 1..Len(known[s[1]]) /\ Len(known[s[1]]) \in Nat
    BY <1>1, Types, PairType
  <1>3. snd[s].i <= snd[s].n /\ snd[s].n <= Len(known[s[1]])
    BY <1>1 DEF InStep
  <1>4. rcv[s].at # "idle"
    <2>1. rcv[s].at = "idle" => Len(chan[s]) = 0
      BY <1>1 DEF InStep
    <2>2. QED
      BY <2>1
  <1>5. CASE rcv[s].at = "records"
    <2>1. rcv[s].left <= snd[s].n /\ rcv[s].left + snd[s].i = Len(chan[s]) + snd[s].n
      BY <1>1, <1>5 DEF InStep
    <2>2. PICK a \in Nat, b \in Nat, c \in Nat, d \in Nat, l \in Nat :
            /\ a = snd[s].i /\ b = snd[s].n /\ c = rcv[s].left /\ d = Len(chan[s])
            /\ l = Len(known[s[1]])
      BY <1>2
    <2>3. c <= b /\ c + a = d + b /\ a <= b /\ b <= l /\ j \in 1..d
      BY <1>3, <2>1, <2>2
    <2>4. a - d + j \in 1..l
      BY <2>3
    <2>5. QED
      BY <1>2, <2>2, <2>4
  <1>6. CASE rcv[s].at \in {"intro", "count"}
    <2>1. Taken(s) + Len(chan[s]) = 2 + snd[s].i /\ Taken(s) \in {0, 1}
      BY <1>1, <1>6 DEF InStep, Sent, Taken
    <2>2. Kind(Taken(s) + j) = "record"
      BY <1>1 DEF Ordered
    <2>3. Taken(s) + j > 2
      BY <2>1, <2>2 DEF Kind
    <2> DEFINE a == Taken(s)
               b == snd[s].i
               c == Len(chan[s])
               e == snd[s].n
    <2>4. /\ a \in {0, 1} /\ b \in Nat /\ c \in Nat /\ e \in Nat /\ b <= e
          /\ e <= Len(known[s[1]]) /\ a + c = 2 + b /\ a + j > 2 /\ j \in 1..c
      BY <1>2, <1>3, <2>1, <2>3
    <2> HIDE DEF a, b, c, e
    <2>5. b - c + j \in 1..Len(known[s[1]])
      BY <1>2, <2>4
    <2>6. QED
      BY <1>2, <2>5 DEF b, c
  <1>7. QED
    BY <1>2, <1>4, <1>5, <1>6

\* A session none of whose threads moves while a list grows.
LEMMA GrownSession ==
  ASSUME IInv, TypeOK', Growth, NEW s \in Sessions, snd'[s] = snd[s], chan'[s] = chan[s],
         rcv'[s] = rcv[s] \/ rcv'[s] = [rcv[s] EXCEPT !.todo = Nothing],
         power'[To(s)] = power[To(s)] \/ power[To(s)] = "off",
         \A k : Has(s, k) => Has(s, k)'
  PROVE  InStep(s)' /\ Ordered(s)' /\ MessagesFair(s)' /\ Carried(s)'
  <1>1. TypeOK /\ InStep(s) /\ Ordered(s) /\ MessagesFair(s) /\ Carried(s)
    BY DEF IInv, Protocol, Fair, MessagesFair
  <1>2. /\ snd[s].i \in Nat /\ snd[s].n \in Nat /\ rcv[s].left \in Nat
        /\ Len(known[s[1]]) \in Nat /\ s[1] \in Peers /\ To(s) \in Peers
        /\ DOMAIN known[s[1]] = 1..Len(known[s[1]])
        /\ \A j \in 1..Len(chan[s]) : chan[s][j] \in Message
    BY <1>1, Types, PairType
  <1>3. /\ rcv'[s].at = rcv[s].at /\ rcv'[s].left = rcv[s].left
        /\ rcv'[s].todo \in {Nothing, rcv[s].todo}
    <2>1. rcv[s] \in HandlerStates
      BY <1>1, Types
    <2>2. QED
      BY <2>1 DEF HandlerStates
  <1>4. Taken(s)' = Taken(s) /\ Sent(s)' = Sent(s)
    BY <1>3 DEF Taken, Sent
  <1>5. InStep(s)'
    <2>1. snd[s].at = "records" => snd[s].n <= Len(known'[s[1]])
      <3>1. Len(known[s[1]]) <= Len(known'[s[1]]) /\ Len(known'[s[1]]) \in Nat
        <4>1. known'[s[1]] \in Seq([key : Addrs, name : Name])
          BY <1>2 DEF TypeOK
        <4>2. QED
          BY <1>1, <1>2, <4>1, Growing
      <3>2. snd[s].at = "records" => snd[s].n <= Len(known[s[1]])
        BY <1>1 DEF InStep
      <3>3. QED
        BY <1>2, <3>1, <3>2
    <2>2. power[To(s)] = "off" => snd[s].at = "idle"
      BY DEF IInv, Alive
    <2>3. QED
      BY <1>1, <1>3, <1>4, <2>1, <2>2 DEF InStep
  <1>6. Ordered(s)'
    BY <1>1, <1>4 DEF Ordered
  <1>7. MessagesFair(s)'
    <2>1. ASSUME NEW j \in 1..Len(chan[s]), NEW m, m = chan[s][j] PROVE MessageFair(s, m)'
      <3>1. SUFFICES ASSUME m.type # "count"
                     PROVE  m.name.pad <= Cardinality(Settled(m.key))' + 1
        BY <1>1, <2>1 DEF MessagesFair, MessageFair, Truthful
      <3>2. m.name.pad <= Cardinality(Settled(m.key)) + 1
        BY <1>1, <2>1, <3>1 DEF MessagesFair, MessageFair
      <3>3. m.name.pad \in Nat
        BY <1>2, <2>1, <3>1, MessageType, NameTypes
      <3>4. Cardinality(Settled(m.key)) <= Cardinality(Settled(m.key))'
        BY <1>1, Growing
      <3>5. Cardinality(Settled(m.key)) \in Nat /\ Cardinality(Settled(m.key))' \in Nat
        <4>1. Settled(m.key)' \in SUBSET Peers
          BY DEF Settled
        <4>2. QED
          BY <4>1, SettledType, GossipAssumption, FS_Subset, FS_CardinalityType
      <3>6. QED
        BY <3>2, <3>3, <3>4, <3>5
    <2>2. QED
      BY <2>1 DEF MessagesFair, MessageFair
  <1>8. Carried(s)'
    <2>1. rcv[s].at \in {"count", "records"} => Has(s, From[s])'
      BY <1>1 DEF Carried
    <2>2. ASSUME snd[s].at = "records", NEW j \in 1..Len(chan[s]), chan[s][j].type = "record"
          PROVE  chan[s][j].key = known'[s[1]][snd[s].i - Len(chan[s]) + j].key
      <3>1. snd[s].i - Len(chan[s]) + j \in DOMAIN known[s[1]]
        BY <2>2, RecordIndex
      <3>2. chan[s][j].key = known[s[1]][snd[s].i - Len(chan[s]) + j].key
        BY <1>1, <2>2 DEF Carried
      <3>3. QED
        BY <1>2, <3>1, <3>2 DEF Growth
    <2>3. ASSUME snd[s].at = "records", rcv[s].at = "records",
                 NEW i \in 1..(snd[s].n - rcv[s].left), NEW k, k = known'[s[1]][i].key
          PROVE  Has(s, k)' \/ k = s[2]
      <3>1. snd[s].n <= Len(known[s[1]])
        BY <1>1, <2>3 DEF InStep
      <3>2. i \in DOMAIN known[s[1]]
        BY <1>2, <2>3, <3>1
      <3>3. k = known[s[1]][i].key
        BY <1>2, <2>3, <3>2 DEF Growth
      <3>4. QED
        BY <1>1, <2>3, <3>3 DEF Carried
    <2>4. QED
      BY <1>3, <2>1, <2>2, <2>3 DEF Carried, Has
  <1>9. QED
    BY <1>5, <1>6, <1>7, <1>8

LEMMA SettledGrown ==
  ASSUME TypeOK, TypeOK', Growth, NEW k, NEW q
  PROVE  /\ Cardinality(Settled(k)) \in Nat /\ Cardinality(Settled(k))' \in Nat
         /\ Cardinality(Settled(k)) <= Cardinality(Settled(k))'
         /\ Cardinality(Settled(k) \ {q}) \in Nat /\ Cardinality(Settled(k) \ {q})' \in Nat
         /\ Cardinality(Settled(k) \ {q}) <= Cardinality(Settled(k) \ {q})'
         /\ q \in Settled(k)' =>
              Cardinality(Settled(k))' = Cardinality(Settled(k) \ {q})' + 1
  <1>1. Settled(k)' \in SUBSET Peers
    BY DEF Settled
  <1>2. IsFiniteSet(Settled(k)') /\ Cardinality(Settled(k)') \in Nat
    BY <1>1, GossipAssumption, FS_Subset, FS_CardinalityType
  <1>3. Cardinality(Settled(k)' \ {q}) \in Nat
    BY <1>2, FS_RemoveElement, FS_CardinalityType
  <1>4. q \in Settled(k)' => Cardinality(Settled(k)' \ {q}) = Cardinality(Settled(k)') - 1
    BY <1>2, FS_RemoveElement
  <1>5. q \in Settled(k)' => Cardinality(Settled(k)') = Cardinality(Settled(k)' \ {q}) + 1
    BY <1>2, <1>3, <1>4
  <1>6. Cardinality(Settled(k)) \in Nat /\ Cardinality(Settled(k) \ {q}) \in Nat
    BY SettledType
  <1>7. /\ Cardinality(Settled(k)) <= Cardinality(Settled(k))'
        /\ Cardinality(Settled(k) \ {q}) <= Cardinality(Settled(k) \ {q})'
    BY Growing
  <1>8. QED
    BY <1>2, <1>3, <1>5, <1>6, <1>7

LEMMA EntryGrown ==
  ASSUME TypeOK, TypeOK', Growth, NEW p \in Peers, NEW e, e.name \in Name, EntryFair(p, e)
  PROVE  EntryFair(p, e)'
  <1>1. e.name.pad \in Nat
    BY NameTypes
  <1>2. e.name # Unnamed => e.name.pad <= Cardinality(Settled(e.key))'
    <2>1. /\ Cardinality(Settled(e.key)) \in Nat /\ Cardinality(Settled(e.key))' \in Nat
          /\ Cardinality(Settled(e.key)) <= Cardinality(Settled(e.key))'
      BY SettledGrown
    <2>2. e.name # Unnamed => e.name.pad <= Cardinality(Settled(e.key))
      BY DEF EntryFair
    <2>3. QED
      BY <1>1, <2>1, <2>2
  <1>3. QED
    BY <1>2 DEF EntryFair, Truthful

LEMMA TodoGrown ==
  ASSUME TypeOK, TypeOK', Growth, NEW q, NEW k, NEW n \in Name, TodoFair(q, k, n)
  PROVE  TodoFair(q, k, n)'
  <1>1. n.pad \in Nat /\ n.pad <= Cardinality(Settled(k) \ {q}) + 1
    BY NameTypes DEF TodoFair
  <1>2. n.pad <= Cardinality(Settled(k) \ {q})' + 1
    BY <1>1, SettledGrown
  <1>3. QED
    BY <1>2 DEF TodoFair, Truthful

\* What one handler is about to store stays right while another one stores.
LEMMA TodosGrown ==
  ASSUME IInv, TypeOK', Growth, NEW s \in Sessions, rcv'[s] = rcv[s],
         \A k : k \in Keys(To(s))' => k \in Keys(To(s)) \/ To(s) \in Settled(k)'
  PROVE  TodosFair(s)'
  <1>1. TypeOK /\ TodosFair(s)
    BY DEF IInv, Fair
  <1>2. /\ To(s) \in Peers /\ rcv[s].todo \in Todo
    BY <1>1, Types, PairType
  <1>3. ASSUME NEW d, d = rcv[s].todo, d.op = "insert"
        PROVE  /\ Foreign(To(s), d.key) /\ TodoFair(To(s), d.key, d.name)'
               /\ d.key \in Keys(To(s))' => To(s) \in Settled(d.key)'
    <2>1. d.name \in Name
      BY <1>2, <1>3, TodoType
    <2>2. /\ Foreign(To(s), d.key) /\ TodoFair(To(s), d.key, d.name)
          /\ d.key \in Keys(To(s)) => To(s) \in Settled(d.key)
      BY <1>1, <1>3 DEF TodosFair
    <2>3. TodoFair(To(s), d.key, d.name)'
      BY <1>1, <2>1, <2>2, TodoGrown
    <2>4. d.key \in Keys(To(s)) => To(s) \in Settled(d.key)'
      BY <1>1, <2>2, Growing
    <2>5. QED
      BY <2>2, <2>3, <2>4
  <1>4. ASSUME NEW d, d = rcv[s].todo, d.op = "name"
        PROVE  /\ d.at \in DOMAIN known'[To(s)] /\ Foremost(To(s), d.at)'
               /\ TodoFair(To(s), known[To(s)][d.at].key, d.name)'
               /\ known'[To(s)][d.at].key = known[To(s)][d.at].key
    <2>1. d.name \in Name
      BY <1>2, <1>4, TodoType
    <2>2. /\ d.at \in DOMAIN known[To(s)] /\ Foremost(To(s), d.at)
          /\ TodoFair(To(s), known[To(s)][d.at].key, d.name)
      BY <1>1, <1>4 DEF TodosFair
    <2>3. ASSUME NEW k, k = known[To(s)][d.at].key
          PROVE  TodoFair(To(s), k, d.name)'
      BY <1>1, <2>1, <2>2, <2>3, TodoGrown
    <2>4. /\ d.at \in DOMAIN known'[To(s)] /\ Foremost(To(s), d.at)'
          /\ known'[To(s)][d.at].key = known[To(s)][d.at].key
      BY <1>1, <1>2, <2>2, Growing DEF Growth
    <2>5. QED
      BY <2>3, <2>4 DEF TodoFair
  <1>5. QED
    BY <1>3, <1>4 DEF TodosFair, TodoFair

LEMMA StartInv ==
  ASSUME IInv, NEW p \in Peers, Start(p)
  PROVE  IInv' /\ Growth
  <1>1. /\ TypeOK /\ power[p] = "off" /\ known[p] = << >> /\ UNCHANGED <<snd, chan, rcv>>
        /\ power' = [power EXCEPT ![p] = "on"]
    BY DEF IInv, Alive, Start
  <1>2. /\ power \in [Peers -> {"off", "on", "exited", "killed"}]
        /\ known \in [Peers -> Seq(Entries)]
    BY <1>1, Types
  <1>3. /\ power' \in [Peers -> {"off", "on", "exited", "killed"}] /\ power'[p] = "on"
        /\ \A q \in Peers : q # p => power'[q] = power[q]
    BY <1>1, <1>2
  <1>4. PICK l \in Seq(Entries) :
          /\ known' = [known EXCEPT ![p] = l]
          /\ \A i \in DOMAIN l : Foreign(p, l[i].key) /\ l[i].name = Unnamed
    <2>1. CASE UNCHANGED known
      <3>1. known' = [known EXCEPT ![p] = << >>] /\ << >> \in Seq(Entries) /\ DOMAIN << >> = {}
        BY <1>1, <1>2, <2>1
      <3>2. QED
        BY <3>1
    <2>2. CASE \E s \in Sessions :
                 /\ s[1] = p /\ power[To(s)] # "off"
                 /\ known' = [known EXCEPT ![p] = << Entry(s[2], Unnamed) >>]
      <3>1. PICK s \in Sessions :
              /\ s[1] = p /\ power[To(s)] # "off"
              /\ known' = [known EXCEPT ![p] = << Entry(s[2], Unnamed) >>]
        BY <2>2
      <3>2. /\ Entry(s[2], Unnamed) \in Entries /\ Entry(s[2], Unnamed).key = s[2]
            /\ Entry(s[2], Unnamed).name = Unnamed
        BY PairType, EntryType, NameTypes
      <3>3. Foreign(p, s[2])
        <4>1. To(s) # s[1]
          BY <1>1, <3>1
        <4>2. QED
          BY <3>1, <4>1, ForeignRules
      <3> DEFINE e == Entry(s[2], Unnamed)
      <3> HIDE DEF e
      <3>4. << e >> \in Seq(Entries) /\ DOMAIN << e >> = {1} /\ << e >>[1] = e
        BY <3>2 DEF e
      <3>5. \A i \in DOMAIN << e >> : Foreign(p, << e >>[i].key) /\ << e >>[i].name = Unnamed
        BY <3>2, <3>3, <3>4 DEF e
      <3>6. QED
        BY <3>1, <3>4, <3>5 DEF e
    <2>3. QED
      BY <2>1, <2>2 DEF Start
  <1>5. /\ known' \in [Peers -> Seq(Entries)] /\ known'[p] = l
        /\ \A q \in Peers : q # p => known'[q] = known[q]
    BY <1>2, <1>4
  <1>6. TypeOK'
    BY <1>1, <1>3, <1>5 DEF TypeOK, Entries
  <1>7. Growth
    <2>1. DOMAIN known[p] = {}
      BY <1>1
    <2>2. QED
      BY <1>5, <2>1 DEF Growth
  <1>8. Alive'
    BY <1>1, <1>3, <1>5 DEF IInv, Alive
  <1>9. ASSUME NEW q \in Peers, NEW i \in DOMAIN known'[q]
        PROVE  EntryFair(q, known[q][i])'
    <2>1. CASE q = p
      <3>1. Foreign(q, known'[q][i].key) /\ known'[q][i].name = Unnamed
        BY <1>4, <1>5, <1>9, <2>1
      <3>2. QED
        BY <3>1, NameTypes DEF EntryFair, Truthful
    <2>2. CASE q # p
      <3>1. i \in DOMAIN known[q] /\ known'[q][i] = known[q][i]
        BY <1>5, <1>9, <2>2
      <3>2. ASSUME NEW e, e = known[q][i] PROVE EntryFair(q, e)'
        <4>1. EntryFair(q, e) /\ e.name \in Name
          BY <1>1, <3>1, <3>2, Types DEF IInv, Fair
        <4>2. QED
          BY <1>1, <1>6, <1>7, <4>1, EntryGrown
      <3>3. QED
        BY <3>1, <3>2 DEF EntryFair
    <2>3. QED
      BY <2>1, <2>2
  <1>10. ASSUME NEW s \in Sessions
         PROVE  /\ InStep(s)' /\ Ordered(s)' /\ MessagesFair(s)' /\ Carried(s)'
                /\ TodosFair(s)'
    <2>1. To(s) \in Peers /\ rcv'[s] = rcv[s] /\ snd'[s] = snd[s] /\ chan'[s] = chan[s]
      BY <1>1, PairType
    <2>2. \A k : Has(s, k) => Has(s, k)'
      BY <1>1, <1>6, <1>7, <2>1, Growing DEF Has
    <2>3. power'[To(s)] = power[To(s)] \/ power[To(s)] = "off"
      BY <1>1, <1>3, <2>1
    <2>4. InStep(s)' /\ Ordered(s)' /\ MessagesFair(s)' /\ Carried(s)'
      BY <1>6, <1>7, <2>1, <2>2, <2>3, GrownSession
    <2>5. TodosFair(s)'
      <3>1. CASE To(s) = p
        <4>1. rcv'[s].todo = Nothing
          BY <1>1, <2>1, <3>1 DEF IInv, Alive, Protocol, InStep
        <4>2. QED
          BY <4>1 DEF TodosFair, Nothing
      <3>2. CASE To(s) # p
        <4>1. Keys(To(s))' = Keys(To(s))
          <5>1. known'[To(s)] = known[To(s)]
            BY <1>5, <2>1, <3>2
          <5>2. QED
            BY <5>1 DEF Keys
        <4>2. QED
          BY <1>6, <1>7, <2>1, <4>1, TodosGrown
      <3>3. QED
        BY <3>1, <3>2
    <2>6. QED
      BY <2>4, <2>5
  <1>11. QED
    BY <1>6, <1>7, <1>8, <1>9, <1>10 DEF IInv, Protocol, Fair, MessagesFair

LEMMA StopInv ==
  ASSUME IInv, NEW p \in Peers, NEW how \in {"exited", "killed"}, Stop(p, how)
  PROVE  IInv'
  <1>1. /\ TypeOK /\ UNCHANGED known /\ power' = [power EXCEPT ![p] = how]
        /\ power \in [Peers -> {"off", "on", "exited", "killed"}]
    BY Types DEF IInv, Stop
  <1>2. /\ power' \in [Peers -> {"off", "on", "exited", "killed"}] /\ power'[p] = how
        /\ \A q \in Peers : q # p => power'[q] = power[q]
    BY <1>1
  <1>3. ASSUME NEW s \in Sessions
        PROVE  /\ snd'[s] \in {snd[s], IdleSender} /\ (s[1] = p => snd'[s] = IdleSender)
               /\ s[1] # p /\ To(s) # p => snd'[s] = snd[s]
               /\ To(s) = p => rcv'[s] = IdleHandler /\ chan'[s] = << >>
               /\ To(s) # p => rcv'[s] = rcv[s] /\ chan'[s] = chan[s]
               /\ snd'[s] \in Senders /\ rcv'[s] \in HandlerStates
               /\ chan'[s] \in Seq(Message)
    <2>1. snd[s] \in Senders /\ rcv[s] \in HandlerStates /\ chan[s] \in Seq(Message)
      BY <1>1, Types
    <2>2. QED
      BY <2>1, IdleTypes DEF Stop
  <1>4. TypeOK'
    <2>1. snd' \in [Sessions -> Senders] /\ rcv' \in [Sessions -> HandlerStates]
      BY <1>3 DEF Stop
    <2>2. chan' \in [Sessions -> Seq(Message)]
      BY <1>3 DEF Stop
    <2>3. QED
      BY <1>1, <1>2, <2>1, <2>2 DEF TypeOK, Senders, HandlerStates
  <1>5. SettledSame
    BY <1>1, ListsSame
  <1>6. Alive'
    <2>1. ASSUME NEW s \in Sessions
          PROVE  /\ snd'[s].at # "idle" => power'[s[1]] = "on" /\ power'[To(s)] # "off"
                 /\ rcv'[s].at # "idle" => power'[To(s)] = "on"
      <3>1. s[1] \in Peers /\ To(s) \in Peers
        BY PairType
      <3>2. IdleSender.at = "idle" /\ IdleHandler.at = "idle"
        BY DEF IdleSender, IdleHandler
      <3>3. /\ snd[s].at # "idle" => power[s[1]] = "on" /\ power[To(s)] # "off"
            /\ rcv[s].at # "idle" => power[To(s)] = "on"
        BY DEF IInv, Alive
      <3>4. QED
        BY <1>2, <1>3, <3>1, <3>2, <3>3
    <2>2. \A q \in Peers : power'[q] = "off" => known'[q] = << >>
      BY <1>1, <1>2 DEF IInv, Alive
    <2>3. QED
      BY <2>1, <2>2 DEF Alive
  <1>7. ASSUME NEW s \in Sessions
        PROVE  /\ InStep(s)' /\ Ordered(s)' /\ MessagesFair(s)' /\ Carried(s)'
               /\ TodosFair(s)'
    <2>1. /\ InStep(s) /\ Ordered(s) /\ MessagesFair(s) /\ Carried(s) /\ TodosFair(s)
          /\ s[1] \in Peers /\ To(s) \in Peers
      BY PairType DEF IInv, Protocol, Fair, MessagesFair
    <2>2. /\ IdleSender.at = "idle" /\ IdleSender.i = 0 /\ IdleSender.n = 0
          /\ IdleHandler.at = "idle" /\ IdleHandler.todo = Nothing
      BY DEF IdleSender, IdleHandler
    <2>3. /\ snd'[s].i <= snd'[s].n
          /\ snd'[s].at = "records" => snd'[s].n <= Len(known'[s[1]])
      BY <1>1, <1>3, <2>1, <2>2 DEF InStep
    <2>4. CASE To(s) = p
      <3>1. /\ Len(chan'[s]) = 0 /\ chan'[s] = << >> /\ rcv'[s].at = "idle"
            /\ rcv'[s].todo = Nothing /\ power'[To(s)] # "on"
        BY <1>2, <1>3, <2>1, <2>2, <2>4
      <3>2. InStep(s)'
        BY <2>3, <3>1 DEF InStep
      <3>3. Ordered(s)' /\ MessagesFair(s)' /\ Carried(s)' /\ TodosFair(s)'
        BY <3>1 DEF Ordered, MessagesFair, Carried, TodosFair, Nothing
      <3>4. QED
        BY <3>2, <3>3
    <2>5. CASE To(s) # p
      <3>1. /\ rcv'[s] = rcv[s] /\ chan'[s] = chan[s] /\ power'[To(s)] = power[To(s)]
            /\ Taken(s)' = Taken(s) /\ (snd'[s] = snd[s] \/ snd'[s].at = "idle")
        BY <1>2, <1>3, <2>1, <2>2, <2>5 DEF Taken
      <3>2. InStep(s)'
        <4>1. snd'[s] = snd[s] => Sent(s)' = Sent(s)
          BY DEF Sent
        <4>2. QED
          BY <2>1, <2>3, <3>1, <4>1 DEF InStep
      <3>3. Ordered(s)'
        BY <2>1, <3>1 DEF Ordered
      <3>4. MessagesFair(s)'
        BY <1>5, <2>1, <3>1, MessagesSame
      <3>5. Carried(s)'
        <4>1. known' = known
          BY <1>1
        <4>2. \A k : Has(s, k)' <=> Has(s, k)
          BY <3>1, <4>1 DEF Has, Keys
        <4>3. QED
          BY <2>1, <3>1, <4>1, <4>2 DEF Carried
      <3>6. TodosFair(s)'
        BY <1>1, <1>5, <2>1, <3>1, TodosSame
      <3>7. QED
        BY <3>2, <3>3, <3>4, <3>5, <3>6
    <2>6. QED
      BY <2>4, <2>5
  <1>8. (\A q \in Peers : \A i \in DOMAIN known[q] : EntryFair(q, known[q][i]))'
    BY <1>1, <1>5 DEF IInv, Fair, EntryFair, SettledSame
  <1>9. QED
    BY <1>4, <1>6, <1>7, <1>8 DEF IInv, Protocol, Fair, MessagesFair

\* A handler of q = To(s) turns its list into l: it stores the name n for k.
StoredAs(s, l, k, n) ==
  LET q == To(s)
  IN  /\ known' = [known EXCEPT ![q] = l]
      /\ n # Unnamed /\ Foreign(q, k) /\ TodoFair(q, k, n)
      /\ k \in Keys(q) =>
           \/ q \in Settled(k)
           \/ \E i \in DOMAIN known[q] :
                known[q][i].key = k /\ Foremost(q, i) /\ l[i].name = n
      /\ \A i \in DOMAIN known[q] : /\ i \in DOMAIN l /\ l[i].key = known[q][i].key
                                    /\ l[i].name \in {known[q][i].name, n}
      /\ \A i \in DOMAIN l : \/ i \in DOMAIN known[q] /\ l[i] = known[q][i]
                             \/ l[i] = Entry(k, n)
      /\ \E i \in DOMAIN l : l[i] = Entry(k, n)
      /\ rcv[s].todo.op = "insert" => rcv[s].todo.key = k

\* What list_insert or the memcpy of the name makes of the list.
LEMMA Stored ==
  ASSUME IInv, NEW s \in Sessions, Store(s)
  PROVE  \E l \in Seq(Entries), k \in Addrs, n \in Name : StoredAs(s, l, k, n)
  <1> DEFINE q == To(s)
             d == rcv[s].todo
  <1>1. /\ TypeOK /\ TodosFair(s) /\ q \in Peers /\ d \in Todo /\ d # Nothing
        /\ known \in [Peers -> Seq(Entries)] /\ known[q] \in Seq(Entries)
    BY Types, PairType DEF IInv, Fair, Store
  <1>2. DOMAIN known[q] = 1..Len(known[q]) /\ Len(known[q]) \in Nat
    BY <1>1, Types
  <1>3. d.op \in {"insert", "name"}
    BY <1>1, TodoType
  <1>4. CASE d.op = "insert"
    <2> DEFINE e == Entry(d.key, d.name)
               l == Append(known[q], e)
    <2>1. /\ d.key \in Addrs /\ d.name \in Name /\ Foreign(q, d.key) /\ d.name # Unnamed
          /\ TodoFair(q, d.key, d.name) /\ (d.key \in Keys(q) => q \in Settled(d.key))
      BY <1>1, <1>4, TodoType DEF TodosFair, TodoFair
    <2>2. e \in Entries
      BY <2>1, EntryType
    <2>3. known' = [known EXCEPT ![q] = l]
      BY <1>1, <1>4 DEF Store
    <2> HIDE DEF e
    <2>4. /\ l \in Seq(Entries) /\ Len(l) = Len(known[q]) + 1 /\ l[Len(known[q]) + 1] = e
          /\ \A i \in 1..Len(known[q]) : l[i] = known[q][i]
      BY <1>1, <2>2, AppendProperties
    <2>5. DOMAIN l = 1..(Len(known[q]) + 1)
      BY <2>4
    <2> HIDE DEF l
    <2>6. /\ \A i \in DOMAIN known[q] : i \in DOMAIN l /\ l[i] = known[q][i]
          /\ \A i \in DOMAIN l : (i \in DOMAIN known[q] /\ l[i] = known[q][i]) \/ l[i] = e
          /\ \E i \in DOMAIN l : l[i] = e
      BY <1>2, <2>4, <2>5
    <2> HIDE DEF d, q
    <2>7. StoredAs(s, l, d.key, d.name)
      BY <1>4, <2>1, <2>3, <2>6 DEF e, d, q, StoredAs
    <2>8. QED
      BY <2>1, <2>4, <2>7
  <1>5. CASE d.op = "name"
    <2> DEFINE k == known[q][d.at].key
               l == [known[q] EXCEPT ![d.at].name = d.name]
    <2>1. /\ d.at \in DOMAIN known[q] /\ Foremost(q, d.at) /\ d.name \in Name
          /\ d.name # Unnamed /\ TodoFair(q, k, d.name)
      BY <1>1, <1>5, TodoType DEF TodosFair, TodoFair
    <2>2. known[q][d.at] \in Entries /\ k \in Addrs /\ Foreign(q, k)
      BY <1>1, <2>1, Types DEF IInv, Fair, EntryFair
    <2>3. known' = [known EXCEPT ![q] = l]
      BY <1>1, <1>5 DEF Store
    <2>4. [known[q][d.at] EXCEPT !.name = d.name] = Entry(k, d.name)
      <3>1. PICK e \in Entries, n \in Name : e = known[q][d.at] /\ n = d.name
        BY <2>1, <2>2
      <3>2. [e EXCEPT !.name = n] = [key |-> e.key, name |-> n]
        BY DEF Entries
      <3>3. QED
        BY <3>1, <3>2 DEF Entry
    <2>5. /\ DOMAIN l = DOMAIN known[q] /\ l[d.at] = Entry(k, d.name)
          /\ \A i \in DOMAIN known[q] : i # d.at => l[i] = known[q][i]
      BY <1>2, <2>1, <2>4
    <2>6. Entry(k, d.name) \in Entries /\ Entry(k, d.name).key = k
          /\ Entry(k, d.name).name = d.name
      BY <2>1, <2>2, EntryType
    <2>7. l \in Seq(Entries)
      <3>1. \A i \in 1..Len(known[q]) : l[i] \in Entries
        BY <1>1, <1>2, <2>5, <2>6, Types
      <3>2. l \in [1..Len(known[q]) -> Entries]
        BY <1>2, <2>5, <3>1
      <3>3. PICK n \in Nat : n = Len(known[q])
        BY <1>2
      <3>4. l \in [1..n -> Entries]
        BY <3>2, <3>3
      <3> HIDE DEF l
      <3>5. QED
        BY <3>4, SeqDef
    <2> HIDE DEF l
    <2>8. k \in Keys(q)
      BY <2>1 DEF Keys
    <2> HIDE DEF k
    <2>9. known[q][d.at].key = k
      BY DEF k
    <2>10. /\ \A i \in DOMAIN known[q] :
                /\ i \in DOMAIN l /\ l[i].key = known[q][i].key
                /\ l[i].name \in {known[q][i].name, d.name}
           /\ \A i \in DOMAIN l : \/ i \in DOMAIN known[q] /\ l[i] = known[q][i]
                                  \/ l[i] = Entry(k, d.name)
           /\ \E i \in DOMAIN l : l[i] = Entry(k, d.name)
           /\ \E i \in DOMAIN known[q] : /\ known[q][i].key = k /\ Foremost(q, i)
                                         /\ l[i].name = d.name
      BY <2>1, <2>5, <2>6, <2>9
    <2> HIDE DEF d, q
    <2>11. StoredAs(s, l, k, d.name)
      BY <1>5, <2>1, <2>2, <2>3, <2>10 DEF d, q, StoredAs
    <2>12. QED
      BY <2>1, <2>2, <2>7, <2>11
  <1>6. QED
    BY <1>3, <1>4, <1>5

LEMMA StoreInv ==
  ASSUME IInv, NEW s \in Sessions, Store(s)
  PROVE  IInv' /\ Growth
  <1> DEFINE q == To(s)
  <1>1. /\ TypeOK /\ q \in Peers /\ UNCHANGED <<power, snd, chan>>
        /\ known \in [Peers -> Seq(Entries)] /\ rcv \in [Sessions -> HandlerStates]
        /\ rcv' = [rcv EXCEPT ![s] = [rcv[s] EXCEPT !.todo = Nothing]]
    BY Types, PairType DEF IInv, Store
  <1>2. /\ rcv'[s] = [rcv[s] EXCEPT !.todo = Nothing] /\ rcv'[s] \in HandlerStates
        /\ rcv'[s].at = rcv[s].at /\ rcv'[s].todo = Nothing
        /\ \A t \in Sessions \ {s} : rcv'[t] = rcv[t]
    <2>1. rcv[s] \in HandlerStates
      BY <1>1
    <2>2. QED
      BY <1>1, <2>1, IdleTypes DEF HandlerStates
  <1>3. PICK l \in Seq(Entries), k \in Addrs, n \in Name : StoredAs(s, l, k, n)
    BY Stored
  <1>4. /\ known' = [known EXCEPT ![q] = l] /\ n # Unnamed /\ Foreign(q, k) /\ TodoFair(q, k, n)
        /\ k \in Keys(q) => \/ q \in Settled(k)
                            \/ \E i \in DOMAIN known[q] :
                                 known[q][i].key = k /\ Foremost(q, i) /\ l[i].name = n
        /\ \A i \in DOMAIN known[q] : /\ i \in DOMAIN l /\ l[i].key = known[q][i].key
                                      /\ l[i].name \in {known[q][i].name, n}
        /\ \A i \in DOMAIN l : \/ i \in DOMAIN known[q] /\ l[i] = known[q][i]
                               \/ l[i] = Entry(k, n)
        /\ \E i \in DOMAIN l : l[i] = Entry(k, n)
        /\ rcv[s].todo.op = "insert" => rcv[s].todo.key = k
    BY <1>3 DEF StoredAs
  <1>5. /\ known' \in [Peers -> Seq(Entries)] /\ known'[q] = l
        /\ \A p \in Peers : p # q => known'[p] = known[p]
    BY <1>1, <1>4
  <1>6. TypeOK'
    <2>1. rcv' \in [Sessions -> HandlerStates]
      BY <1>1, <1>2
    <2>2. QED
      BY <1>1, <1>5, <2>1 DEF TypeOK, Entries, HandlerStates
  <1>7. Growth
    BY <1>4, <1>5 DEF Growth
  <1>8. Entry(k, n).key = k /\ Entry(k, n).name = n
    BY DEF Entry
  <1>9. \A x : x \in Keys(q)' => x \in Keys(q) \/ x = k
    BY <1>4, <1>5, <1>8 DEF Keys
  <1>10. k \in Keys(q)'
    BY <1>4, <1>5, <1>8 DEF Keys
  <1>11. q \in Settled(k)'
    <2>1. CASE q \in Settled(k)
      BY <1>1, <1>6, <1>7, <2>1, Growing
    <2>2. CASE \E i \in DOMAIN known[q] :
                 known[q][i].key = k /\ Foremost(q, i) /\ l[i].name = n
      <3>1. PICK i \in DOMAIN known[q] :
              known[q][i].key = k /\ Foremost(q, i) /\ l[i].name = n
        BY <2>2
      <3>2. Foremost(q, i)'
        BY <1>1, <1>6, <1>7, <3>1, Growing
      <3>3. i \in DOMAIN known'[q] /\ known'[q][i].key = k /\ known'[q][i].name # Unnamed
        BY <1>4, <1>5, <3>1
      <3>4. QED
        BY <1>1, <3>2, <3>3 DEF Settled
    <2>3. CASE k \notin Keys(q)
      <3>1. \A i \in DOMAIN l : l[i].key = k => l[i] = Entry(k, n)
        BY <1>4, <2>3 DEF Keys
      <3>2. PICK f \in DOMAIN l : l[f].key = k /\ \A j \in 1..(f - 1) : l[j].key # k
        <4>1. \E i \in DOMAIN l : l[i].key = k
          BY <1>4, <1>8
        <4>2. QED
          BY <4>1, FirstEntry
      <3>3. l[f].name # Unnamed
        BY <1>4, <1>8, <3>1, <3>2
      <3>4. QED
        BY <1>1, <1>5, <3>2, <3>3 DEF Settled, Foremost
    <2>4. QED
      BY <1>4, <2>1, <2>2, <2>3
  <1>12. n \in Name /\ TodoFair(q, k, n)'
    BY <1>1, <1>4, <1>6, <1>7, TodoGrown
  <1>13. EntryFair(q, Entry(k, n))'
    <2>1. n.pad <= Cardinality(Settled(k))'
      <3>1. n.pad <= Cardinality(Settled(k) \ {q})' + 1
        BY <1>12 DEF TodoFair
      <3>2. Cardinality(Settled(k))' = Cardinality(Settled(k) \ {q})' + 1
        BY <1>1, <1>6, <1>7, <1>11, SettledGrown
      <3>3. QED
        BY <3>1, <3>2
    <2>2. Truthful(k, n)
      BY <1>4 DEF TodoFair
    <2>3. ASSUME NEW e, e = Entry(k, n) PROVE EntryFair(q, e)'
      BY <1>4, <1>8, <2>1, <2>2, <2>3 DEF EntryFair, Truthful
    <2>4. QED
      BY <2>3
  <1>14. ASSUME NEW p \in Peers, NEW i \in DOMAIN known'[p], NEW e, e = known'[p][i]
         PROVE  EntryFair(p, e)'
    <2>1. CASE i \in DOMAIN known[p] /\ known'[p][i] = known[p][i]
      <3>1. EntryFair(p, e) /\ e.name \in Name
        BY <1>1, <1>14, <2>1, Types DEF IInv, Fair
      <3>2. QED
        BY <1>1, <1>6, <1>7, <3>1, EntryGrown
    <2>2. CASE p = q /\ e = Entry(k, n)
      BY <1>13, <2>2
    <2>3. QED
      BY <1>4, <1>5, <1>14, <2>1, <2>2
  <1>15. ASSUME NEW t \in Sessions, NEW x, Has(t, x) PROVE Has(t, x)'
    <2>1. To(t) \in Peers
      BY PairType
    <2>2. x \in Keys(To(t)) => x \in Keys(To(t))'
      BY <1>1, <1>6, <1>7, <2>1, Growing
    <2>3. CASE t = s
      BY <1>4, <1>10, <1>15, <2>2, <2>3 DEF Has
    <2>4. CASE t # s
      BY <1>2, <1>15, <2>2, <2>4 DEF Has
    <2>5. QED
      BY <2>3, <2>4
  <1>16. ASSUME NEW t \in Sessions
         PROVE  /\ InStep(t)' /\ Ordered(t)' /\ MessagesFair(t)' /\ Carried(t)'
                /\ TodosFair(t)'
    <2>1. /\ snd'[t] = snd[t] /\ chan'[t] = chan[t] /\ power'[To(t)] = power[To(t)]
          /\ rcv'[t] = rcv[t] \/ rcv'[t] = [rcv[t] EXCEPT !.todo = Nothing]
      BY <1>1, <1>2
    <2>2. InStep(t)' /\ Ordered(t)' /\ MessagesFair(t)' /\ Carried(t)'
      BY <1>6, <1>7, <1>15, <2>1, GrownSession
    <2>3. CASE t = s
      <3>1. rcv'[t].todo.op = "none"
        <4>1. rcv'[t].todo = Nothing /\ Nothing.op = "none"
          BY <1>2, <2>3, Zenon DEF Nothing
        <4>2. QED
          BY <4>1
      <3>2. TodosFair(t)'
        BY <3>1 DEF TodosFair
      <3>3. QED
        BY <2>2, <3>2
    <2>4. CASE t # s
      <3>1. rcv'[t] = rcv[t] /\ To(t) \in Peers
        BY <1>2, <2>4, PairType
      <3>2. \A x : x \in Keys(To(t))' => x \in Keys(To(t)) \/ To(t) \in Settled(x)'
        <4>1. To(t) # q => Keys(To(t))' = Keys(To(t))
          BY <1>5, <3>1 DEF Keys
        <4>2. QED
          BY <1>9, <1>11, <4>1
      <3>3. TodosFair(t)'
        BY <1>6, <1>7, <3>1, <3>2, TodosGrown
      <3>4. QED
        BY <2>2, <3>3
    <2>5. QED
      BY <2>3, <2>4
  <1>17. Alive'
    <2>1. rcv[s].at # "idle"
      <3>1. rcv[s].todo # Nothing
        BY DEF Store
      <3>2. QED
        BY <3>1 DEF IInv, Protocol, InStep
    <2>2. power[q] = "on"
      BY <2>1 DEF IInv, Alive
    <2>3. \A p \in Peers : power[p] = "off" => known'[p] = << >>
      BY <1>5, <2>2 DEF IInv, Alive
    <2>4. \A t \in Sessions : rcv'[t].at = rcv[t].at
      BY <1>2
    <2>5. QED
      BY <1>1, <2>3, <2>4 DEF IInv, Alive
  <1>18. (\A p \in Peers : \A i \in DOMAIN known[p] : EntryFair(p, known[p][i]))'
    BY <1>14 DEF EntryFair
  <1>19. QED
    BY <1>6, <1>7, <1>16, <1>17, <1>18 DEF IInv, Protocol, Fair, MessagesFair

-----------------------------------------------------------------------------
LEMMA InitIInv == Init => IInv
  <1> SUFFICES ASSUME Init PROVE IInv
    OBVIOUS
  <1>1. TypeOK
    <2>1. << >> \in Seq([key : Addrs, name : Name]) /\ << >> \in Seq(Message)
      OBVIOUS
    <2>2. IdleSender \in Senders /\ IdleHandler \in HandlerStates
      BY IdleTypes
    <2>3. QED
      BY <2>1, <2>2 DEF Init, TypeOK, Senders, HandlerStates
  <1>2. \A p \in Peers : power[p] = "off" /\ known[p] = << >> /\ DOMAIN known[p] = {}
    BY DEF Init
  <1>3. \A s \in Sessions : /\ snd[s].at = "idle" /\ snd[s].i = 0 /\ snd[s].n = 0
                            /\ rcv[s].at = "idle" /\ rcv[s].todo = Nothing
                            /\ chan[s] = << >> /\ Len(chan[s]) = 0
    BY DEF Init, IdleSender, IdleHandler
  <1>4. Alive
    BY <1>2, <1>3 DEF Alive
  <1>5. Protocol
    BY <1>3 DEF Protocol, InStep, Ordered
  <1>6. Fair
    BY <1>2, <1>3 DEF Fair, TodosFair, Nothing
  <1>7. \A s \in Sessions : Carried(s)
    BY <1>3 DEF Carried
  <1>8. QED
    BY <1>1, <1>4, <1>5, <1>6, <1>7 DEF IInv

\* Every step keeps the invariant, and no step takes anything from a list.
LEMMA NextIInv ==
  ASSUME IInv, Reached, [Next]_vars
  PROVE  IInv' /\ Growth
  <1>1. known' = known => Growth
    BY DEF Growth
  <1>2. ASSUME NEW p \in Peers, Start(p) PROVE IInv' /\ Growth
    BY <1>2, StartInv
  <1>3. ASSUME NEW p \in Peers, Exit(p) PROVE IInv' /\ Growth
    BY <1>1, <1>3, StopInv DEF Exit, Stop
  <1>4. ASSUME NEW s \in Sessions, Connect(s) PROVE IInv' /\ Growth
    BY <1>1, <1>4, ConnectInv DEF Connect
  <1>5. ASSUME NEW s \in Sessions, SenderStep(s) PROVE IInv' /\ Growth
    <2>1. CASE SendIntroduction(s)
      BY <1>1, <2>1, SendIntroductionInv DEF SendIntroduction, Send
    <2>2. CASE SendCount(s)
      BY <1>1, <2>2, SendCountInv DEF SendCount, Send
    <2>3. CASE SendRecord(s)
      BY <1>1, <2>3, SendRecordInv DEF SendRecord, Send
    <2>4. CASE CloseSender(s)
      BY <1>1, <2>4, CloseSenderInv DEF CloseSender
    <2>5. QED
      BY <1>5, <2>1, <2>2, <2>3, <2>4 DEF SenderStep
  <1>6. ASSUME NEW s \in Sessions, SenderFails(s) PROVE IInv' /\ Growth
    <2>1. CASE SendToNobody(s)
      BY <1>1, <2>1, SendToNobodyInv DEF SendToNobody
    <2>2. CASE BrokenPipe(s)
      BY <1>1, <2>2, StopInv, PairType DEF BrokenPipe, Stop
    <2>3. QED
      BY <1>6, <2>1, <2>2 DEF SenderFails
  <1>7. ASSUME NEW s \in Sessions, HandlerStep(s) PROVE IInv' /\ Growth
    <2>1. CASE RecvIntroduction(s)
      BY <1>1, <2>1, RecvIntroductionInv DEF RecvIntroduction, Receive
    <2>2. CASE RecvCount(s)
      BY <1>1, <2>2, RecvCountInv DEF RecvCount, Receive
    <2>3. CASE RecvRecord(s)
      BY <1>1, <2>3, RecvRecordInv DEF RecvRecord, Receive
    <2>4. CASE Store(s)
      BY <2>4, StoreInv
    <2>5. CASE CloseHandler(s)
      BY <1>1, <2>5, CloseHandlerInv DEF CloseHandler
    <2>6. QED
      BY <1>7, <2>1, <2>2, <2>3, <2>4, <2>5 DEF HandlerStep
  <1>8. CASE UNCHANGED vars
    <2>1. UNCHANGED <<power, known, snd, chan, rcv>>
      BY <1>8 DEF vars
    <2>2. TypeOK' /\ Alive'
      BY <2>1 DEF IInv, TypeOK, Alive
    <2>3. ASSUME NEW s \in Sessions
          PROVE  /\ InStep(s)' /\ Ordered(s)' /\ MessagesFair(s)' /\ Carried(s)'
                 /\ TodosFair(s)'
      <3>1. InStep(s)' /\ Ordered(s)'
        BY <2>1 DEF IInv, Protocol, InStep, Ordered, Taken, Sent
      <3>2. MessagesFair(s)'
        BY <2>1, ListsSame DEF IInv, Fair, MessagesFair, MessageFair, SettledSame
      <3>3. Carried(s)'
        BY <2>1 DEF IInv, Carried, Has, Keys
      <3>4. TodosFair(s)'
        BY <2>1, TodosSame
      <3>5. QED
        BY <3>1, <3>2, <3>3, <3>4
    <2>4. (\A q \in Peers : \A i \in DOMAIN known[q] : EntryFair(q, known[q][i]))'
      BY <2>1, ListsSame DEF IInv, Fair, EntryFair, SettledSame
    <2>5. IInv'
      BY <2>2, <2>3, <2>4 DEF IInv, Protocol, Fair, MessagesFair
    <2>6. QED
      BY <1>1, <2>1, <2>5
  <1>9. QED
    BY <1>2, <1>3, <1>4, <1>5, <1>6, <1>7, <1>8 DEF Next

\* A session begins where an entry is, and lists only grow.
LEMMA NextReached ==
  ASSUME IInv, IInv', Reached, Growth, [Next]_vars
  PROVE  Reached'
  <1>1. \A p \in Peers : \A k : k \in Keys(p) => k \in Keys(p)'
    BY Growing DEF IInv
  <1>2. ASSUME NEW t \in Sessions,
               snd'[t].at # "idle" \/ chan'[t] # << >>
                 => snd[t].at # "idle" \/ chan[t] # << >>
        PROVE  snd'[t].at # "idle" \/ chan'[t] # << >> => t[2] \in Keys(t[1])'
    BY <1>1, <1>2, PairType DEF Reached
  <1>3. /\ snd \in [Sessions -> Senders] /\ chan \in [Sessions -> Seq(Message)]
        /\ \A t \in Sessions : snd[t] \in Senders /\ chan[t] \in Seq(Message)
    BY Types DEF IInv
  <1>4. ASSUME NEW p \in Peers, NEW how, Stop(p, how) PROVE Reached'
    <2>1. ASSUME NEW t \in Sessions
          PROVE  /\ snd'[t].at # "idle" => snd[t].at # "idle"
                 /\ chan'[t] # << >> => chan[t] # << >>
      BY <1>4 DEF Stop, IdleSender
    <2>2. QED
      BY <1>2, <2>1 DEF Reached
  <1>5. CASE \E s \in Sessions : Connect(s)
    <2>1. PICK s \in Sessions : Connect(s)
      BY <1>5
    <2>2. /\ s[2] \in Keys(s[1]) /\ chan' = chan
          /\ \A t \in Sessions : t # s => snd'[t] = snd[t]
      BY <1>3, <2>1 DEF Connect
    <2>3. ASSUME NEW t \in Sessions, snd'[t].at # "idle" \/ chan'[t] # << >>
          PROVE  t[2] \in Keys(t[1])'
      <3>1. CASE t = s
        BY <1>1, <2>2, <3>1, PairType
      <3>2. CASE t # s
        BY <1>2, <2>2, <2>3, <3>2
      <3>3. QED
        BY <3>1, <3>2
    <2>4. QED
      BY <2>3 DEF Reached
  <1>6. ASSUME NEW s \in Sessions,
               \A t \in Sessions \ {s} : snd'[t] = snd[t] /\ chan'[t] = chan[t],
               snd[s].at # "idle" \/ chan[s] # << >>
        PROVE  Reached'
    <2>1. ASSUME NEW t \in Sessions
          PROVE  snd'[t].at # "idle" \/ chan'[t] # << >>
                   => snd[t].at # "idle" \/ chan[t] # << >>
      BY <1>6
    <2>2. QED
      BY <1>2, <2>1 DEF Reached
  <1>7. ASSUME NEW s \in Sessions, SenderStep(s) PROVE Reached'
    <2>1. snd[s].at # "idle" \/ CloseSender(s)
      BY <1>7 DEF SenderStep, SendIntroduction, SendCount, SendRecord
    <2>2. CASE CloseSender(s)
      BY <1>3, <1>6, <2>2 DEF CloseSender
    <2>3. CASE snd[s].at # "idle"
      <3>1. \A t \in Sessions \ {s} : snd'[t] = snd[t] /\ chan'[t] = chan[t]
        BY <1>3, <1>7
        DEF SenderStep, SendIntroduction, SendCount, SendRecord, CloseSender, Send
      <3>2. QED
        BY <1>6, <2>3, <3>1
    <2>4. QED
      BY <2>1, <2>2, <2>3
  <1>8. ASSUME NEW s \in Sessions, SendToNobody(s) PROVE Reached'
    <2>1. snd[s].at # "idle" /\ chan' = chan
      BY <1>8 DEF SendToNobody
    <2>2. \A t \in Sessions \ {s} : snd'[t] = snd[t]
      BY <1>3, <1>8 DEF SendToNobody
    <2>3. QED
      BY <1>6, <2>1, <2>2
  <1>9. ASSUME NEW s \in Sessions, HandlerStep(s) PROVE Reached'
    <2>1. CASE UNCHANGED <<snd, chan>>
      BY <1>2, <2>1 DEF Reached
    <2>2. CASE RecvIntroduction(s) \/ RecvCount(s) \/ RecvRecord(s)
      <3>1. /\ chan[s] # << >> /\ snd' = snd
            /\ \A t \in Sessions \ {s} : chan'[t] = chan[t]
        BY <1>3, <2>2 DEF RecvIntroduction, RecvCount, RecvRecord, Receive
      <3>2. QED
        BY <1>6, <3>1
    <2>3. QED
      BY <1>9, <2>1, <2>2 DEF HandlerStep, Store, CloseHandler
  <1>10. CASE \E p \in Peers : Start(p)
    <2>1. UNCHANGED <<snd, chan>>
      BY <1>10 DEF Start
    <2>2. QED
      BY <1>2, <2>1 DEF Reached
  <1>11. CASE UNCHANGED vars
    <2>1. UNCHANGED <<snd, chan>>
      BY <1>11 DEF vars
    <2>2. QED
      BY <1>2, <2>1 DEF Reached
  <1>12. CASE \E p \in Peers : Exit(p)
    BY <1>4, <1>12 DEF Exit
  <1>13. CASE \E s \in Sessions : SenderFails(s)
    BY <1>4, <1>8, <1>13, PairType DEF SenderFails, BrokenPipe
  <1>14. QED
    BY <1>5, <1>7, <1>9, <1>10, <1>11, <1>12, <1>13 DEF Next

LEMMA SpecIInv == Spec => [](IInv /\ Reached)
  <1>1. Init => Reached
    BY DEF Init, Reached, IdleSender
  <1>2. IInv /\ Reached /\ [Next]_vars => (IInv /\ Reached)'
    BY NextIInv, NextReached
  <1>3. QED
    BY InitIInv, <1>1, <1>2, PTL DEF Spec

\* A name has a blank for each peer it came over, and those are settled: there
\* are no more of them than peers.
LEMMA EntriesNow ==
  ASSUME IInv
  PROVE  EntriesTrue
  <1>1. TypeOK /\ \A p \in Peers : \A i \in DOMAIN known[p] : EntryFair(p, known[p][i])
    BY DEF IInv, Fair
  <1>2. NoSelf
    BY <1>1 DEF NoSelf, Keys, EntryFair, Foreign
  <1>3. NameIsOwners
    BY <1>1 DEF NameIsOwners, EntryFair, Truthful
  <1>4. ASSUME NEW p \in Peers, NEW i \in DOMAIN known[p]
        PROVE  known[p][i].name.pad <= Cardinality(Peers)
    <2> DEFINE k == known[p][i].key
               n == known[p][i].name
    <2>1. n \in Name /\ n.pad \in Nat
      BY <1>1, Types, NameTypes
    <2>2. n # Unnamed => n.pad <= Cardinality(Settled(k))
      BY <1>1 DEF EntryFair
    <2>3. n = Unnamed => n.pad = 0
      BY NameTypes
    <2> HIDE DEF k, n
    <2>4. Settled(k) \in SUBSET Peers
      BY DEF Settled
    <2>5. /\ Cardinality(Settled(k)) <= Cardinality(Peers)
          /\ Cardinality(Settled(k)) \in Nat /\ Cardinality(Peers) \in Nat
      BY <2>4, GossipAssumption, SettledType, FS_Subset, FS_CardinalityType
    <2>6. n.pad <= Cardinality(Peers)
      BY <2>1, <2>2, <2>3, <2>5
    <2>7. QED
      BY <2>6 DEF n
  <1>5. QED
    BY <1>2, <1>3, <1>4 DEF EntriesTrue, PadBounded

LEMMA TransferredNow ==
  ASSUME IInv
  PROVE  Transferred
  <1>1. ASSUME NEW s \in Sessions, rcv[s].todo = Nothing
        PROVE  /\ rcv[s].at \in {"count", "records"} => From[s] \in Keys(To(s))
               /\ rcv[s].at = "records" /\ snd[s].at = "records" =>
                    \A i \in 1..(snd[s].n - rcv[s].left) :
                      known[s[1]][i].key \in Keys(To(s)) \cup {s[2]}
    <2>1. rcv[s].todo.op # "insert"
      BY <1>1 DEF Nothing
    <2>2. \A k : Has(s, k) => k \in Keys(To(s))
      BY <2>1 DEF Has
    <2>3. QED
      BY <2>2 DEF IInv, Carried
  <1>2. QED
    BY <1>1 DEF Transferred

-----------------------------------------------------------------------------
(* Theorems                                                                *)

\* A handler takes what comes for what it waits for (P2P.c:441-511): as the
\* messages come in that order, the number it counts down is a number, and
\* the keys it stores are addresses.
THEOREM TypeCorrect == Spec => []TypeOK
  <1>1. IInv => TypeOK
    BY DEF IInv
  <1>2. QED
    BY SpecIInv, <1>1, PTL

\* Whatever way an entry came, over however many peers and whoever exited
\* meanwhile: a peer that has one address does not list it, a name is blank or
\* that of a peer with the address it stands behind, and the blanks after it,
\* one for every hop, are no more than the peers (P2P.c:107, 163-172, 445-484,
\* 505-557).  A peer that has several addresses may list itself.
THEOREM NamesTrue == Spec => []EntriesTrue
  <1>1. QED
    BY SpecIInv, EntriesNow, PTL

\* A receiver that has taken r records lists the sender and every one of its
\* first r entries but the address it is reached at, although other handlers
\* insert into the list between its look-up and its insertion (P2P.c:464-557).
THEOREM RecordsListed == Spec => []Transferred
  <1>1. QED
    BY SpecIInv, TransferredNow, PTL

\* Whatever happens, a peer that is listed stays listed in its place under its
\* key, and its name is never taken from it (P2P.c:474-484, 545-557).
THEOREM ListsOnlyGrow == Spec => ListsGrow
  <1>1. IInv /\ Reached /\ [Next]_vars => Growth
    BY NextIInv
  <1>2. Growth <=> \A p \in Peers : \A i \in DOMAIN known[p] :
          /\ i \in DOMAIN known'[p]
          /\ known'[p][i].key = known[p][i].key
          /\ known[p][i].name # Unnamed => known'[p][i].name # Unnamed
    BY DEF Growth
  <1>3. QED
    BY SpecIInv, <1>1, <1>2, PTL DEF Spec, ListsGrow
=============================================================================
