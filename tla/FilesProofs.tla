------------------------------ MODULE FilesProofs ------------------------------
(***************************************************************************)
(* Proofs about Dictionary, for any number of handlers that insert at the  *)
(* same time, any files and peers, and memory of any size; and, behind     *)
(* them, about FileTransfer, whose request threads read available_files.   *)
(***************************************************************************)
EXTENDS Dictionary, FileTransfer, SequenceTheorems, FiniteSetTheorems,
        WellFoundedInduction, TLAPS

\* What has been allocated comes before what has not, pointers lead to what has
\* been, and to the younger; only one pointer ever leads to a pair.
Memory ==
  /\ \A p, q \in Pairs : q < p /\ key[p] # NULL => key[q] # NULL
  /\ \A m, n \in Nodes : m < n /\ holder[n] # NULL => holder[m] # NULL
  /\ first # NULL => key[first] # NULL
  /\ filled => first # NULL
  /\ \A p \in Pairs : key[p] = NULL => succ[p] = NULL
  /\ \A p \in Pairs : key[p] # NULL => /\ head[p] # NULL /\ holder[head[p]] # NULL
                                       /\ tail[p] # NULL /\ holder[tail[p]] # NULL
  /\ \A p \in Pairs : succ[p] # NULL =>
       p < succ[p] /\ key[succ[p]] # NULL /\ succ[p] # first
  /\ \A p, q \in Pairs : succ[p] # NULL /\ succ[p] = succ[q] => p = q
  /\ \A n \in Nodes : next[n] # NULL => n < next[n] /\ holder[next[n]] # NULL

\* What a handler holds while it is inside of dict_insert and list_insert.
Thread(t) ==
  /\ pc[t] # "idle" => file[t] # NULL /\ peer[t] # NULL
  /\ pc[t] \in {"first", "walk", "holders", "last", "end", "link"} => filled
  /\ pc[t] = "grow" => first # NULL
  /\ pc[t] \in {"idle", "size", "create", "first"} => tempPair[t] = NULL
  /\ pc[t] = "walk" => /\ pair[t] # NULL => key[pair[t]] # NULL
                       /\ tempPair[t] # NULL => key[tempPair[t]] # NULL
                       /\ pair[t] = NULL => tempPair[t] # NULL
  /\ pc[t] \in {"holders", "last", "end", "link"} =>
       pair[t] # NULL /\ key[pair[t]] # NULL
  /\ pc[t] \in {"last", "end", "link"} =>
       tempNode[t] # NULL /\ holder[tempNode[t]] # NULL
  /\ pc[t] \in {"end", "link"} =>
       node[t] # NULL /\ holder[node[t]] # NULL /\ tempNode[t] < node[t]

\* There is memory for every insertion that has begun.
UsedPairs == {p \in Pairs : key[p] # NULL}
UsedNodes == {n \in Nodes : holder[n] # NULL}
PairWanted == {t \in Handlers : pc[t] \in {"size", "create", "first", "walk"}}
NodeWanted ==
  {t \in Handlers : pc[t] \in {"size", "create", "first", "walk", "holders", "last"}}

HasRoom ==
  /\ Cardinality(UsedPairs) + Cardinality(PairWanted) <= MaxPairs
  /\ Cardinality(UsedNodes) + Cardinality(NodeWanted) <= MaxNodes

\* As far as the pairs a handler has passed are linked, none has its key.
Passed(t) ==
  pc[t] = "walk" =>
    /\ pair[t] \in Linked => \A x \in Linked : x < pair[t] => key[x] # file[t]
    /\ tempPair[t] \in Linked => \A x \in Linked : x <= tempPair[t] => key[x] # file[t]

\* Every node belongs to one pair, whose last node is the youngest.
OwnedThread(own, t) ==
  /\ pc[t] \in {"last", "end", "link"} => own[tempNode[t]] = pair[t]
  /\ pc[t] \in {"end", "link"} => own[node[t]] = pair[t]

Owned(own) ==
  /\ \A p \in Pairs : key[p] # NULL => own[head[p]] = p /\ own[tail[p]] = p
  /\ \A n \in Nodes : holder[n] # NULL =>
       own[n] # NULL /\ key[own[n]] # NULL /\ n <= tail[own[n]]
  /\ \A n \in Nodes : next[n] # NULL => own[next[n]] = own[n]
  /\ \A t \in Handlers : OwnedThread(own, t)

Owners == [Nodes -> Pairs \cup {NULL}]

\* No handler is about to cut the way to node n of pair p.
Spared(p, n, t) ==
  /\ pc[t] = "walk" /\ pair[t] = NULL /\ tempPair[t] \in Linked => p <= tempPair[t]
  /\ pc[t] \in {"last", "end", "link"} /\ pair[t] = p => n <= tempNode[t]

List(p) == Chain(head[p], next)

Kept(p, n) ==
  /\ p \in Linked /\ n \in List(p)
  /\ \A t \in Handlers : Spared(p, n, t)

SettledKept ==
  /\ settled # {} => filled /\ \A t \in Handlers : pc[t] # "create"
  /\ \A e \in settled : \E p \in Pairs, n \in Nodes :
       key[p] = e[1] /\ holder[n] = e[2] /\ Kept(p, n)

IInv ==
  /\ DictTypeOK /\ Memory /\ HasRoom /\ KeysUnique
  /\ \A t \in Handlers : Thread(t) /\ Passed(t)
  /\ \E own \in Owners : Owned(own)
  /\ SettledKept

-----------------------------------------------------------------------------
(* Chains of pointers                                                      *)

\* Every nonempty set of numbers has a least one.
LEMMA Smallest ==
  ASSUME NEW S \in SUBSET Nat, S # {}
  PROVE  \E x \in S : \A y \in S : x <= y
  <1> DEFINE R == OpToRel(<, Nat)
  <1>1. R = {ss \in Nat \X Nat : ss[1] < ss[2]}
    BY Zenon DEF OpToRel
  <1>2. IsWellFoundedOn(R, Nat)
    BY Zenon, NatLessThanWellFounded
  <1> HIDE DEF R
  <1>3. PICK x \in S : \A y \in S : ~(<<y, x>> \in R)
    BY <1>2, WFMin
  <1>4. ASSUME NEW y \in S PROVE x <= y
    <2>1. x \in Nat /\ y \in Nat /\ <<y, x>> \notin R
      BY <1>3
    <2>2. ~(y < x)
      BY <1>1, <2>1
    <2>3. QED
      BY <2>1, <2>2
  <1>5. QED
    BY <1>4

\* Ordinary induction, over a set of numbers.
LEMMA SetInduction ==
  ASSUME NEW S, 0 \in S, \A n \in Nat : n \in S => n + 1 \in S
  PROVE  Nat \subseteq S
  <1>1. SUFFICES ASSUME Nat \ S # {} PROVE FALSE
    OBVIOUS
  <1>2. PICK x \in Nat \ S : \A y \in Nat \ S : x <= y
    BY <1>1, Smallest
  <1>3. x # 0 /\ x - 1 \in Nat /\ x - 1 < x /\ (x - 1) + 1 = x
    BY <1>2
  <1>4. x - 1 \in S
    BY <1>2, <1>3
  <1>5. QED
    BY <1>2, <1>3, <1>4

Beyond(pointer, S) == S \cup ({pointer[x] : x \in S} \ {NULL})

Reached(a, pointer, u, n) ==
  u = [k \in 0..n |-> IF k = 0 THEN {a} \ {NULL} ELSE Beyond(pointer, u[k - 1])]

\* The recursion that defines Chain has a solution.
LEMMA ReachedExists ==
  ASSUME NEW a, NEW pointer, NEW n \in Nat
  PROVE  \E u : Reached(a, pointer, u, n)
  <1> DEFINE S == {k \in Nat : \E u : Reached(a, pointer, u, k)}
  <1>1. 0 \in S
    <2>1. Reached(a, pointer, [k \in 0..0 |-> {a} \ {NULL}], 0)
      BY DEF Reached
    <2>2. QED
      BY <2>1
  <1>2. ASSUME NEW k \in Nat, k \in S PROVE k + 1 \in S
    <2>1. PICK u : Reached(a, pointer, u, k)
      BY <1>2
    <2>2. u = [i \in 0..k |-> IF i = 0 THEN {a} \ {NULL} ELSE Beyond(pointer, u[i - 1])]
      BY <2>1 DEF Reached
    <2> DEFINE v == [i \in 0 .. k + 1 |-> IF i <= k THEN u[i] ELSE Beyond(pointer, u[k])]
    <2>3. ASSUME NEW i \in 0 .. k + 1
          PROVE  v[i] = IF i = 0 THEN {a} \ {NULL} ELSE Beyond(pointer, v[i - 1])
      <3>1. CASE i <= k
        <4>1. v[i] = u[i] /\ i \in 0..k
          BY <1>2, <3>1
        <4>2. i # 0 => i - 1 \in 0 .. k + 1 /\ i - 1 <= k
          BY <1>2, <3>1
        <4>3. i # 0 => v[i - 1] = u[i - 1]
          BY <4>2
        <4>4. u[i] = IF i = 0 THEN {a} \ {NULL} ELSE Beyond(pointer, u[i - 1])
          BY <2>2, <4>1
        <4>5. QED
          BY <4>1, <4>3, <4>4
      <3>2. CASE i = k + 1
        BY <1>2, <2>2, <3>2
      <3>3. QED
        BY <1>2, <3>1, <3>2
    <2> HIDE DEF v
    <2>4. v = [i \in 0 .. k + 1 |-> v[i]]
      BY DEF v
    <2>5. Reached(a, pointer, v, k + 1)
      BY <2>3, <2>4 DEF Reached
    <2>6. QED
      BY <1>2, <2>5
  <1> HIDE DEF S
  <1>3. Nat \subseteq S
    BY <1>1, <1>2, SetInduction
  <1>4. QED
    BY <1>3 DEF S

Rising(M, pointer) ==
  /\ pointer \in [1..M -> 0..M]
  /\ \A x \in 1..M : pointer[x] # NULL => x < pointer[x]

ReachedIn(a, pointer, u, M) ==
  /\ Chain(a, pointer) = u[M] /\ u[0] = {a} \ {NULL}
  /\ \A k \in 0..M : k # 0 => u[k] = Beyond(pointer, u[k - 1])

LEMMA ChainReached ==
  ASSUME NEW M \in Nat, NEW pointer \in [1..M -> 0..M], NEW a
  PROVE  \E u : ReachedIn(a, pointer, u, M)
  <1>1. Cardinality(DOMAIN pointer) = M
    <2>1. DOMAIN pointer = 1..M
      OBVIOUS
    <2>2. Cardinality(1..M) = M
      BY FS_Interval
    <2>3. QED
      BY <2>1, <2>2
  <1> DEFINE U == CHOOSE u : Reached(a, pointer, u, M)
  <1>2. Reached(a, pointer, U, M)
    BY ReachedExists
  <1>3. Chain(a, pointer) = U[M]
    BY <1>1 DEF Chain, Reached, Beyond
  <1> HIDE DEF U
  <1>4. U = [k \in 0..M |-> IF k = 0 THEN {a} \ {NULL} ELSE Beyond(pointer, U[k - 1])]
    BY <1>2 DEF Reached
  <1>5. ASSUME NEW k \in 0..M
        PROVE  U[k] = IF k = 0 THEN {a} \ {NULL} ELSE Beyond(pointer, U[k - 1])
    BY <1>4
  <1>6. U[0] = {a} \ {NULL} /\ \A k \in 0..M : k # 0 => U[k] = Beyond(pointer, U[k - 1])
    BY <1>5
  <1>7. ReachedIn(a, pointer, U, M)
    BY <1>3, <1>6 DEF ReachedIn
  <1>8. QED
    BY <1>7

\* Chain is within every set that has a and goes with the pointers.
LEMMA ChainLeast ==
  ASSUME NEW M \in Nat, NEW pointer \in [1..M -> 0..M], NEW a, NEW S,
         a # NULL => a \in S,
         \A x \in S : x \in 1..M /\ pointer[x] # NULL => pointer[x] \in S
  PROVE  a \in 0..M => Chain(a, pointer) \subseteq S
  <1> SUFFICES ASSUME a \in 0..M PROVE Chain(a, pointer) \subseteq S
    OBVIOUS
  <1>1. PICK u : ReachedIn(a, pointer, u, M)
    BY ChainReached
  <1> DEFINE T == {k \in Nat : k <= M => u[k] \subseteq S /\ u[k] \subseteq 1..M}
  <1>2. 0 \in T
    BY <1>1 DEF NULL, ReachedIn
  <1>3. ASSUME NEW k \in Nat, k \in T PROVE k + 1 \in T
    <2>1. SUFFICES ASSUME k + 1 <= M PROVE u[k + 1] \subseteq S /\ u[k + 1] \subseteq 1..M
      BY <1>3
    <2>2. k + 1 \in 0..M /\ k + 1 # 0 /\ (k + 1) - 1 = k /\ k <= M
      BY <1>3, <2>1
    <2>3. u[k + 1] = u[k] \cup ({pointer[x] : x \in u[k]} \ {NULL})
      BY <1>1, <2>2 DEF Beyond, ReachedIn
    <2>4. u[k] \subseteq S /\ u[k] \subseteq 1..M
      BY <1>3, <2>2
    <2>5. \A x \in u[k] : pointer[x] # NULL => pointer[x] \in S /\ pointer[x] \in 1..M
      BY <2>4 DEF NULL
    <2>6. QED
      BY <2>3, <2>4, <2>5
  <1> HIDE DEF T
  <1>4. Nat \subseteq T
    BY <1>2, <1>3, SetInduction
  <1>5. QED
    BY <1>1, <1>4 DEF T, ReachedIn

\* And it is such a set itself.
LEMMA ChainClosed ==
  ASSUME NEW M \in Nat, NEW pointer, Rising(M, pointer), NEW a \in 0..M
  PROVE  /\ Chain(a, pointer) \subseteq 1..M
         /\ a # NULL => a \in Chain(a, pointer)
         /\ \A x \in Chain(a, pointer) : pointer[x] # NULL => pointer[x] \in Chain(a, pointer)
  <1>0. pointer \in [1..M -> 0..M] /\ \A x \in 1..M : pointer[x] # NULL => x < pointer[x]
    BY DEF Rising
  <1>1. PICK u : ReachedIn(a, pointer, u, M)
    BY <1>0, ChainReached
  <1> DEFINE Good(k) == /\ a # NULL => a \in u[k]
                        /\ \A x \in u[k] : /\ x \in 1..M
                                           /\ x < k + 1 /\ pointer[x] # NULL => pointer[x] \in u[k]
             T == {k \in Nat : k <= M => Good(k)}
  <1>2. 0 \in T
    BY <1>1 DEF NULL, ReachedIn
  <1>3. ASSUME NEW k \in Nat, k \in T PROVE k + 1 \in T
    <2>1. SUFFICES ASSUME k + 1 <= M PROVE Good(k + 1)
      BY <1>3
    <2>2. k + 1 \in 0..M /\ k + 1 # 0 /\ (k + 1) - 1 = k /\ k <= M
      BY <1>3, <2>1
    <2>3. u[k + 1] = u[k] \cup ({pointer[x] : x \in u[k]} \ {NULL})
      BY <1>1, <2>2 DEF Beyond, ReachedIn
    <2>4. Good(k)
      BY <1>3, <2>2
    <2>5. ASSUME NEW x \in u[k + 1]
          PROVE  /\ x \in 1..M
                 /\ x < (k + 1) + 1 /\ pointer[x] # NULL => pointer[x] \in u[k + 1]
      <3>1. CASE x \in u[k]
        BY <2>3, <2>4, <3>1
      <3>2. CASE x \notin u[k]
        <4>1. PICK y \in u[k] : x = pointer[y] /\ x # NULL
          BY <2>3, <2>5, <3>2
        <4>2. y \in 1..M /\ ~(y < k + 1)
          BY <2>4, <3>2, <4>1
        <4>3. x \in 1..M /\ y < x
          BY <1>0, <4>1, <4>2 DEF NULL
        <4>4. QED
          BY <4>2, <4>3
      <3>3. QED
        BY <3>1, <3>2
    <2>6. QED
      BY <2>3, <2>4, <2>5
  <1> HIDE DEF T
  <1>4. Nat \subseteq T
    BY <1>2, <1>3, SetInduction
  <1>5. Good(M)
    BY <1>4 DEF T
  <1>6. QED
    BY <1>1, <1>5 DEF ReachedIn

LEMMA ChainFrom ==
  ASSUME NEW M \in Nat, NEW pointer, Rising(M, pointer), NEW a \in 0..M
  PROVE  \A x \in Chain(a, pointer) : /\ x >= a
                                      /\ x = a \/ \E y \in Chain(a, pointer) : pointer[y] = x
  <1> DEFINE C == Chain(a, pointer)
             S == {x \in C : x >= a /\ (x = a \/ \E y \in C : pointer[y] = x)}
  <1>1. pointer \in [1..M -> 0..M] /\ \A x \in 1..M : pointer[x] # NULL => x < pointer[x]
    BY DEF Rising
  <1>2. /\ C \subseteq 1..M /\ (a # NULL => a \in C)
        /\ \A x \in C : pointer[x] # NULL => pointer[x] \in C
    BY ChainClosed
  <1> HIDE DEF C
  <1>3. a # NULL => a \in S
    BY <1>2
  <1>4. ASSUME NEW x \in S, x \in 1..M, pointer[x] # NULL PROVE pointer[x] \in S
    <2>1. /\ x \in C /\ pointer[x] \in C /\ x >= a /\ x < pointer[x]
          /\ pointer[x] \in Nat /\ x \in Nat /\ a \in Nat
      BY <1>1, <1>2, <1>4
    <2>2. pointer[x] >= a
      BY <2>1
    <2>3. QED
      BY <2>1, <2>2
  <1>5. C \subseteq S
    <2> HIDE DEF S
    <2>1. QED
      BY <1>1, <1>3, <1>4, ChainLeast DEF C
  <1>6. QED
    BY <1>5 DEF C

\* Behind an element of a chain there is no other one before its pointer's.
LEMMA ChainOrder ==
  ASSUME NEW M \in Nat, NEW pointer, Rising(M, pointer), NEW a \in 0..M
  PROVE  \A x, y \in Chain(a, pointer) :
           y < x => pointer[y] # NULL /\ pointer[y] <= x
  <1> DEFINE C == Chain(a, pointer)
             S == {x \in C : \A y \in C : y < x => pointer[y] # NULL /\ pointer[y] <= x}
  <1>1. pointer \in [1..M -> 0..M] /\ \A x \in 1..M : pointer[x] # NULL => x < pointer[x]
    BY DEF Rising
  <1>2. /\ C \subseteq 1..M /\ (a # NULL => a \in C)
        /\ \A x \in C : pointer[x] # NULL => pointer[x] \in C
    BY ChainClosed
  <1>3. \A x \in C : x >= a
    BY ChainFrom
  <1> HIDE DEF C
  <1>4. a # NULL => a \in S
    <2>1. \A y \in C : ~(y < a)
      BY <1>2, <1>3
    <2>2. QED
      BY <1>2, <2>1
  <1>5. ASSUME NEW x \in S, x \in 1..M, pointer[x] # NULL PROVE pointer[x] \in S
    <2> DEFINE px == pointer[x]
               T == {y \in C : y <= x \/ y >= px}
    <2>1. /\ x \in C /\ px \in C /\ x < px /\ px \in 1..M
          /\ \A y \in C : y < x => pointer[y] # NULL /\ pointer[y] <= x
      BY <1>1, <1>2, <1>5
    <2> HIDE DEF px
    <2>2. a # NULL => a \in T
      BY <1>2, <1>3, <2>1
    <2>3. ASSUME NEW y \in T, y \in 1..M, pointer[y] # NULL PROVE pointer[y] \in T
      <3>1. y \in C /\ pointer[y] \in C /\ y < pointer[y] /\ pointer[y] \in 1..M
        BY <1>1, <1>2, <2>3
      <3>2. CASE y < x
        BY <2>1, <3>1, <3>2
      <3>3. CASE y = x
        BY <2>1, <3>1, <3>3 DEF px
      <3>4. CASE y >= px
        <4>1. pointer[y] >= px
          BY <2>1, <3>1, <3>4
        <4>2. QED
          BY <3>1, <4>1
      <3>5. QED
        BY <2>1, <2>3, <3>2, <3>3, <3>4
    <2>4. C \subseteq T
      <3> HIDE DEF T
      <3>1. QED
        BY <1>1, <2>2, <2>3, ChainLeast DEF C
    <2>5. ASSUME NEW y \in C, y < px PROVE pointer[y] # NULL /\ pointer[y] <= px
      <3>1. y <= x /\ y \in 1..M
        BY <1>2, <2>1, <2>4, <2>5
      <3>2. CASE y = x
        BY <1>5, <2>1, <3>2 DEF px
      <3>3. CASE y < x
        <4>1. pointer[y] # NULL /\ pointer[y] <= x /\ pointer[y] \in 0..M
          BY <1>1, <2>1, <3>1, <3>3
        <4>2. QED
          BY <2>1, <4>1
      <3>4. QED
        BY <2>1, <3>1, <3>2, <3>3
    <2>6. QED
      BY <2>1, <2>5 DEF px
  <1>6. C \subseteq S
    <2> HIDE DEF S
    <2>1. QED
      BY <1>1, <1>4, <1>5, ChainLeast DEF C
  <1>7. QED
    BY <1>6 DEF C

\* What a changed pointer at z leaves in a chain.
LEMMA ChainKeeps ==
  ASSUME NEW M \in Nat, NEW pointer, Rising(M, pointer), NEW a \in 0..M,
         NEW z \in 1..M, NEW w, Rising(M, [pointer EXCEPT ![z] = w]),
         NEW n \in Chain(a, pointer), z \in Chain(a, pointer) => n <= z
  PROVE  n \in Chain(a, [pointer EXCEPT ![z] = w])
  <1> DEFINE C == Chain(a, pointer)
             D == Chain(a, [pointer EXCEPT ![z] = w])
             S == {x \in C : x <= n => x \in D}
  <1>1. pointer \in [1..M -> 0..M] /\ \A x \in 1..M : pointer[x] # NULL => x < pointer[x]
    BY DEF Rising
  <1>2. /\ C \subseteq 1..M /\ (a # NULL => a \in C)
        /\ \A x \in C : pointer[x] # NULL => pointer[x] \in C
    BY ChainClosed
  <1>3. /\ a # NULL => a \in D
        /\ \A x \in D : [pointer EXCEPT ![z] = w][x] # NULL =>
                          [pointer EXCEPT ![z] = w][x] \in D
    BY ChainClosed
  <1> HIDE DEF C, D
  <1>4. a # NULL => a \in S
    BY <1>2, <1>3
  <1>5. ASSUME NEW x \in S, x \in 1..M, pointer[x] # NULL PROVE pointer[x] \in S
    <2>1. /\ x \in C /\ pointer[x] \in C /\ x < pointer[x] /\ pointer[x] \in Nat
          /\ n \in Nat /\ x \in Nat /\ (z \in C => n <= z)
      BY <1>1, <1>2, <1>5 DEF C
    <2>2. ASSUME pointer[x] <= n PROVE pointer[x] \in D
      <3>1. x <= n /\ x # z
        BY <2>1, <2>2
      <3>2. x \in D /\ [pointer EXCEPT ![z] = w][x] = pointer[x]
        BY <1>1, <1>5, <3>1
      <3>3. QED
        BY <1>3, <1>5, <3>2
    <2>3. QED
      BY <2>1, <2>2
  <1>6. C \subseteq S
    <2> HIDE DEF S
    <2>1. QED
      BY <1>1, <1>4, <1>5, ChainLeast DEF C
  <1>7. n \in 1..M /\ n \in C
    BY <1>2 DEF C
  <1>8. n \in D
    BY <1>6, <1>7
  <1>9. QED
    BY <1>8 DEF D

\* A pointer that is set to something new.
Extension(M, pointer, z, w, f) ==
  /\ Rising(M, pointer) /\ z \in 1..M /\ w \in 1..M /\ z < w /\ pointer[w] = NULL
  /\ f \in [1..M -> 0..M] /\ f[z] = w /\ \A x \in 1..M : x # z => f[x] = pointer[x]

LEMMA ChainExtended ==
  ASSUME NEW M \in Nat, NEW pointer, NEW a \in 0..M, NEW z, NEW w, NEW f,
         Extension(M, pointer, z, w, f)
  PROVE  /\ Rising(M, f)
         /\ z \in Chain(a, pointer) =>
              \A x \in Chain(a, f) : (x \in Chain(a, pointer) /\ x <= z) \/ x = w
         /\ z \notin Chain(a, pointer) => Chain(a, f) = Chain(a, pointer)
  <1> DEFINE C == Chain(a, pointer)
             D == Chain(a, f)
  <1> SUFFICES ASSUME Rising(M, pointer)
               PROVE  /\ Rising(M, f)
                      /\ z \in C => \A x \in D : (x \in C /\ x <= z) \/ x = w
                      /\ z \notin C => D = C
    BY DEF Extension
  <1>0. /\ Rising(M, pointer) /\ z \in 1..M /\ w \in 1..M /\ z < w /\ pointer[w] = NULL
        /\ f \in [1..M -> 0..M] /\ f[z] = w /\ \A x \in 1..M : x # z => f[x] = pointer[x]
    BY DEF Extension
  <1>1. pointer \in [1..M -> 0..M] /\ \A x \in 1..M : pointer[x] # NULL => x < pointer[x]
    BY <1>0 DEF Rising
  <1>2. /\ C \subseteq 1..M /\ (a # NULL => a \in C)
        /\ \A x \in C : pointer[x] # NULL => pointer[x] \in C
    BY ChainClosed
  <1>3. f \in [1..M -> 0..M] /\ f[z] = w /\ \A x \in 1..M : x # z => f[x] = pointer[x]
    BY <1>0
  <1>4. Rising(M, f)
    BY <1>0, <1>1, <1>3 DEF Rising
  <1>5. ASSUME z \in C, NEW x \in D PROVE (x \in C /\ x <= z) \/ x = w
    <2> DEFINE S == {y \in C : y <= z} \cup {w}
    <2>1. a # NULL => a \in S
      <3>1. z >= a
        BY <1>0, <1>5, ChainFrom
      <3>2. QED
        BY <1>0, <1>2, <3>1
    <2>2. ASSUME NEW y \in S, y \in 1..M, f[y] # NULL PROVE f[y] \in S
      <3>1. CASE y = z
        BY <1>0, <1>3, <3>1
      <3>2. CASE y = w
        BY <1>0, <1>3, <2>2, <3>2
      <3>3. CASE y \in C /\ y < z
        <4>1. f[y] = pointer[y] /\ pointer[y] \in C /\ pointer[y] <= z
          BY <1>0, <1>2, <1>3, <1>5, <2>2, <3>3, ChainOrder
        <4>2. QED
          BY <4>1
      <3>4. QED
        BY <1>0, <1>2, <2>2, <3>1, <3>2, <3>3
    <2> HIDE DEF S
    <2>3. D \subseteq S
      BY <1>3, <2>1, <2>2, ChainLeast
    <2>4. QED
      BY <1>5, <2>3 DEF S
  <1>6. ASSUME z \notin C PROVE D = C
    <2>1. \A x \in C : x \in 1..M /\ f[x] # NULL => f[x] \in C
      BY <1>2, <1>3, <1>6
    <2>2. D \subseteq C
      <3> HIDE DEF C
      <3>1. a # NULL => a \in C
        BY <1>2
      <3>2. QED
        BY <1>3, <2>1, <3>1, ChainLeast
    <2>3. ASSUME NEW n \in C PROVE n \in D
      <3>1. f = [pointer EXCEPT ![z] = w]
        BY <1>1, <1>3
      <3>2. Rising(M, [pointer EXCEPT ![z] = w])
        BY <1>4, <3>1
      <3>3. n \in Chain(a, [pointer EXCEPT ![z] = w])
        BY <1>0, <1>6, <2>3, <3>2, ChainKeeps
      <3>4. QED
        BY <3>1, <3>3
    <2>4. QED
      BY <2>2, <2>3
  <1>7. QED
    BY <1>4, <1>5, <1>6

LEMMA ChainAlone ==
  ASSUME NEW M \in Nat, NEW pointer, Rising(M, pointer), NEW w \in 1..M, pointer[w] = NULL
  PROVE  Chain(w, pointer) = {w}
  <1>1. pointer \in [1..M -> 0..M] /\ w \in 0..M /\ w # NULL
    BY DEF Rising, NULL
  <1>2. w \in Chain(w, pointer)
    BY <1>1, ChainClosed
  <1>3. \A x \in {w} : x \in 1..M /\ pointer[x] # NULL => pointer[x] \in {w}
    OBVIOUS
  <1>4. Chain(w, pointer) \subseteq {w}
    BY <1>1, <1>3, ChainLeast
  <1>5. QED
    BY <1>2, <1>4

-----------------------------------------------------------------------------
(* What can be reached                                                     *)

LEMMA Rises ==
  ASSUME DictTypeOK, Memory
  PROVE  /\ MaxPairs \in Nat /\ MaxNodes \in Nat
         /\ Rising(MaxPairs, succ) /\ Rising(MaxNodes, next)
         /\ first \in 0..MaxPairs /\ \A p \in Pairs : head[p] \in 0..MaxNodes
         /\ Pairs = 1..MaxPairs /\ Nodes = 1..MaxNodes
  <1>1. MaxPairs \in Nat /\ MaxNodes \in Nat
    BY DictionaryAssumption
  <1>2. Pairs \cup {NULL} = 0..MaxPairs /\ Nodes \cup {NULL} = 0..MaxNodes
    BY <1>1 DEF Pairs, Nodes, NULL
  <1>3. succ \in [1..MaxPairs -> 0..MaxPairs] /\ next \in [1..MaxNodes -> 0..MaxNodes]
    BY <1>2 DEF DictTypeOK, Pairs, Nodes
  <1>4. first \in 0..MaxPairs /\ \A p \in Pairs : head[p] \in 0..MaxNodes
    BY <1>2 DEF DictTypeOK
  <1>5. QED
    BY <1>1, <1>3, <1>4 DEF Rising, Memory, Pairs, Nodes

LEMMA LinkedIs ==
  ASSUME DictTypeOK, Memory
  PROVE  /\ Linked \subseteq Pairs /\ \A p \in Linked : key[p] # NULL
         /\ first # NULL => first \in Linked
         /\ \A p \in Linked : succ[p] # NULL => succ[p] \in Linked
         /\ \A p \in Linked : p >= first /\ (p = first \/ \E q \in Linked : succ[q] = p)
         /\ \A p, q \in Linked : q < p => succ[q] # NULL /\ succ[q] <= p
  <1>1. /\ MaxPairs \in Nat /\ Rising(MaxPairs, succ) /\ first \in 0..MaxPairs
        /\ Pairs = 1..MaxPairs
    BY Rises
  <1>2. /\ Linked \subseteq Pairs /\ (first # NULL => first \in Linked)
        /\ \A p \in Linked : succ[p] # NULL => succ[p] \in Linked
    BY <1>1, ChainClosed DEF Linked
  <1>3. \A p \in Linked : p >= first /\ (p = first \/ \E q \in Linked : succ[q] = p)
    BY <1>1, ChainFrom DEF Linked
  <1>4. \A p, q \in Linked : q < p => succ[q] # NULL /\ succ[q] <= p
    BY <1>1, ChainOrder DEF Linked
  <1>5. ASSUME NEW p \in Linked PROVE key[p] # NULL
    <2>1. CASE p = first
      <3>1. p # NULL
        BY <1>2 DEF Pairs, NULL
      <3>2. QED
        BY <2>1, <3>1 DEF Memory
    <2>2. CASE \E q \in Linked : succ[q] = p
      <3>1. PICK q \in Linked : succ[q] = p
        BY <2>2
      <3>2. q \in Pairs /\ p # NULL
        BY <1>2 DEF Pairs, NULL
      <3>3. QED
        BY <3>1, <3>2 DEF Memory
    <2>3. QED
      BY <1>3, <2>1, <2>2
  <1>6. QED
    BY <1>2, <1>3, <1>4, <1>5

LEMMA ListIs ==
  ASSUME DictTypeOK, Memory, NEW p \in Pairs, key[p] # NULL
  PROVE  /\ List(p) \subseteq Nodes
         /\ \A n \in List(p) : holder[n] # NULL
  <1>1. /\ MaxNodes \in Nat /\ Rising(MaxNodes, next) /\ head[p] \in 0..MaxNodes
        /\ Nodes = 1..MaxNodes
    BY Rises
  <1>2. List(p) \subseteq Nodes
    BY <1>1, ChainClosed DEF List
  <1>3. \A n \in List(p) :
          n = head[p] \/ \E m \in List(p) : next[m] = n
    BY <1>1, ChainFrom DEF List
  <1>4. \A n \in List(p) : holder[n] # NULL
    <2>1. ASSUME NEW n \in List(p) PROVE holder[n] # NULL
      <3>1. CASE n = head[p]
        BY <3>1 DEF Memory
      <3>2. CASE \E m \in List(p) : next[m] = n
        <4>1. PICK m \in List(p) : next[m] = n
          BY <3>2
        <4>2. m \in Nodes /\ n \in Nodes /\ n # NULL
          BY <1>2, <2>1, <4>1 DEF Nodes, NULL
        <4>3. QED
          BY <4>1, <4>2 DEF Memory
      <3>3. QED
        BY <1>3, <2>1, <3>1, <3>2
    <2>2. QED
      BY <2>1
  <1>5. QED
    BY <1>2, <1>4

-----------------------------------------------------------------------------
(* Memory for the insertions                                               *)

LEMMA Counts ==
  /\ IsFiniteSet(UsedPairs) /\ Cardinality(UsedPairs) \in Nat
  /\ IsFiniteSet(UsedNodes) /\ Cardinality(UsedNodes) \in Nat
  /\ IsFiniteSet(PairWanted) /\ Cardinality(PairWanted) \in Nat
  /\ IsFiniteSet(NodeWanted) /\ Cardinality(NodeWanted) \in Nat
  /\ IsFiniteSet(Pairs) /\ Cardinality(Pairs) = MaxPairs
  /\ IsFiniteSet(Nodes) /\ Cardinality(Nodes) = MaxNodes
  <1>1. /\ IsFiniteSet(Pairs) /\ Cardinality(Pairs) = MaxPairs
        /\ IsFiniteSet(Nodes) /\ Cardinality(Nodes) = MaxNodes
    BY DictionaryAssumption, FS_Interval DEF Pairs, Nodes
  <1>2. UsedPairs \in SUBSET Pairs /\ UsedNodes \in SUBSET Nodes
    BY DEF UsedPairs, UsedNodes
  <1>3. PairWanted \in SUBSET Handlers /\ NodeWanted \in SUBSET Handlers
    BY DEF PairWanted, NodeWanted
  <1>4. /\ IsFiniteSet(UsedPairs) /\ IsFiniteSet(UsedNodes)
        /\ IsFiniteSet(PairWanted) /\ IsFiniteSet(NodeWanted)
    BY <1>1, <1>2, <1>3, DictionaryAssumption, FS_Subset
  <1>5. QED
    BY <1>1, <1>4, FS_CardinalityType

LEMMA FreePairIs ==
  ASSUME DictTypeOK, Memory, HasRoom, NEW t \in PairWanted
  PROVE  /\ FreePair \in Pairs /\ key[FreePair] = NULL
         /\ \A p \in Pairs : key[p] # NULL <=> p < FreePair
  <1>1. UsedPairs # Pairs
    <2>1. Cardinality(PairWanted) # 0
      BY Counts, FS_EmptySet
    <2>2. Cardinality(UsedPairs) < Cardinality(Pairs)
      BY <2>1, Counts, DictionaryAssumption DEF HasRoom
    <2>3. QED
      BY <2>2, Counts
  <1> DEFINE S == {p \in Pairs : key[p] = NULL}
  <1>2. S # {} /\ S \in SUBSET Nat
    BY <1>1 DEF UsedPairs, Pairs
  <1>3. PICK x \in S : \A y \in S : x <= y
    BY <1>2, Smallest
  <1>4. \E p \in Pairs : key[p] = NULL /\ \A q \in Pairs : q < p => key[q] # NULL
    <2>1. \A q \in Pairs : q < x => key[q] # NULL
      BY <1>3 DEF Pairs
    <2>2. QED
      BY <1>3, <2>1
  <1>5. /\ FreePair \in Pairs /\ key[FreePair] = NULL
        /\ \A q \in Pairs : q < FreePair => key[q] # NULL
    BY <1>4 DEF FreePair
  <1>6. ASSUME NEW p \in Pairs, key[p] # NULL PROVE p < FreePair
    <2>1. FreePair # p /\ ~(FreePair < p)
      BY <1>5, <1>6 DEF Memory
    <2>2. p \in Nat /\ FreePair \in Nat
      BY <1>5 DEF Pairs
    <2>3. QED
      BY <2>1, <2>2
  <1>7. QED
    BY <1>5, <1>6

LEMMA FreeNodeIs ==
  ASSUME DictTypeOK, Memory, HasRoom, NEW t \in NodeWanted
  PROVE  /\ FreeNode \in Nodes /\ holder[FreeNode] = NULL
         /\ \A n \in Nodes : holder[n] # NULL <=> n < FreeNode
  <1>1. UsedNodes # Nodes
    <2>1. Cardinality(NodeWanted) # 0
      BY Counts, FS_EmptySet
    <2>2. Cardinality(UsedNodes) < Cardinality(Nodes)
      BY <2>1, Counts, DictionaryAssumption DEF HasRoom
    <2>3. QED
      BY <2>2, Counts
  <1> DEFINE S == {n \in Nodes : holder[n] = NULL}
  <1>2. S # {} /\ S \in SUBSET Nat
    BY <1>1 DEF UsedNodes, Nodes
  <1>3. PICK x \in S : \A y \in S : x <= y
    BY <1>2, Smallest
  <1>4. \E n \in Nodes : holder[n] = NULL /\ \A m \in Nodes : m < n => holder[m] # NULL
    <2>1. \A m \in Nodes : m < x => holder[m] # NULL
      BY <1>3 DEF Nodes
    <2>2. QED
      BY <1>3, <2>1
  <1>5. /\ FreeNode \in Nodes /\ holder[FreeNode] = NULL
        /\ \A n \in Nodes : n < FreeNode => holder[n] # NULL
    BY <1>4 DEF FreeNode
  <1>6. ASSUME NEW n \in Nodes, holder[n] # NULL PROVE n < FreeNode
    <2>1. FreeNode # n /\ ~(FreeNode < n)
      BY <1>5, <1>6 DEF Memory
    <2>2. n \in Nat /\ FreeNode \in Nat
      BY <1>5 DEF Nodes
    <2>3. QED
      BY <2>1, <2>2
  <1>7. QED
    BY <1>5, <1>6

\* A handler that goes on wants no more than before, or has got what it wanted.
LEMMA RoomStep ==
  ASSUME HasRoom, NEW t \in Handlers, \A u \in Handlers \ {t} : pc'[u] = pc[u],
         \/ UsedPairs' = UsedPairs /\ (t \in PairWanted' => t \in PairWanted)
         \/ /\ \E p \in Pairs : UsedPairs' = UsedPairs \cup {p}
            /\ t \in PairWanted /\ t \notin PairWanted',
         \/ UsedNodes' = UsedNodes /\ (t \in NodeWanted' => t \in NodeWanted)
         \/ /\ \E n \in Nodes : UsedNodes' = UsedNodes \cup {n}
            /\ t \in NodeWanted /\ t \notin NodeWanted'
  PROVE  HasRoom'
  <1>1. ASSUME NEW U, NEW V, NEW W, NEW X, NEW M \in Nat,
               IsFiniteSet(U), IsFiniteSet(W), Cardinality(U) \in Nat, Cardinality(W) \in Nat,
               Cardinality(U) + Cardinality(W) <= M,
               \/ V = U /\ X \in SUBSET W
               \/ (\E p : V = U \cup {p}) /\ t \in W /\ X \in SUBSET (W \ {t})
        PROVE  Cardinality(V) + Cardinality(X) <= M
    <2>1. CASE V = U /\ X \in SUBSET W
      <3>1. Cardinality(X) \in Nat /\ Cardinality(X) <= Cardinality(W)
        BY <1>1, <2>1, FS_Subset, FS_CardinalityType
      <3>2. QED
        BY <1>1, <2>1, <3>1
    <2>2. CASE (\E p : V = U \cup {p}) /\ t \in W /\ X \in SUBSET (W \ {t})
      <3>1. PICK p : V = U \cup {p}
        BY <2>2
      <3>2. Cardinality(V) \in Nat /\ Cardinality(V) <= Cardinality(U) + 1
        <4>1. IsFiniteSet(V) /\ Cardinality(V) =
                IF p \in U THEN Cardinality(U) ELSE Cardinality(U) + 1
          BY <1>1, <3>1, FS_AddElement
        <4>2. QED
          BY <1>1, <4>1
      <3>3. IsFiniteSet(W \ {t}) /\ Cardinality(W \ {t}) = Cardinality(W) - 1
        BY <1>1, <2>2, FS_RemoveElement
      <3>4. Cardinality(X) \in Nat /\ Cardinality(X) <= Cardinality(W \ {t})
        BY <2>2, <3>3, FS_Subset, FS_CardinalityType
      <3>5. QED
        BY <1>1, <3>2, <3>3, <3>4
    <2>3. QED
      BY <1>1, <2>1, <2>2
  <1>2. \A u \in Handlers : u # t => /\ u \in PairWanted' <=> u \in PairWanted
                                     /\ u \in NodeWanted' <=> u \in NodeWanted
    BY DEF PairWanted, NodeWanted
  <1>3. /\ PairWanted \in SUBSET Handlers /\ PairWanted' \in SUBSET Handlers
        /\ NodeWanted \in SUBSET Handlers /\ NodeWanted' \in SUBSET Handlers
    BY DEF PairWanted, NodeWanted
  <1>4. Cardinality(UsedPairs') + Cardinality(PairWanted') <= MaxPairs
    <2>1. \/ UsedPairs' = UsedPairs /\ PairWanted' \in SUBSET PairWanted
          \/ /\ \E p : UsedPairs' = UsedPairs \cup {p}
             /\ t \in PairWanted /\ PairWanted' \in SUBSET (PairWanted \ {t})
      BY <1>2, <1>3
    <2>2. /\ MaxPairs \in Nat /\ IsFiniteSet(UsedPairs) /\ IsFiniteSet(PairWanted)
          /\ Cardinality(UsedPairs) \in Nat /\ Cardinality(PairWanted) \in Nat
          /\ Cardinality(UsedPairs) + Cardinality(PairWanted) <= MaxPairs
      BY Counts, DictionaryAssumption DEF HasRoom
    <2>3. CASE UsedPairs' = UsedPairs /\ PairWanted' \in SUBSET PairWanted
      BY <1>1, <2>2, <2>3
    <2>4. CASE /\ \E p : UsedPairs' = UsedPairs \cup {p}
               /\ t \in PairWanted /\ PairWanted' \in SUBSET (PairWanted \ {t})
      BY <1>1, <2>2, <2>4
    <2>5. QED
      BY <2>1, <2>3, <2>4
  <1>5. Cardinality(UsedNodes') + Cardinality(NodeWanted') <= MaxNodes
    <2>1. \/ UsedNodes' = UsedNodes /\ NodeWanted' \in SUBSET NodeWanted
          \/ /\ \E p : UsedNodes' = UsedNodes \cup {p}
             /\ t \in NodeWanted /\ NodeWanted' \in SUBSET (NodeWanted \ {t})
      BY <1>2, <1>3
    <2>2. /\ MaxNodes \in Nat /\ IsFiniteSet(UsedNodes) /\ IsFiniteSet(NodeWanted)
          /\ Cardinality(UsedNodes) \in Nat /\ Cardinality(NodeWanted) \in Nat
          /\ Cardinality(UsedNodes) + Cardinality(NodeWanted) <= MaxNodes
      BY Counts, DictionaryAssumption DEF HasRoom
    <2>3. CASE UsedNodes' = UsedNodes /\ NodeWanted' \in SUBSET NodeWanted
      BY <1>1, <2>2, <2>3
    <2>4. CASE /\ \E p : UsedNodes' = UsedNodes \cup {p}
               /\ t \in NodeWanted /\ NodeWanted' \in SUBSET (NodeWanted \ {t})
      BY <1>1, <2>2, <2>4
    <2>5. QED
      BY <2>1, <2>3, <2>4
  <1>6. QED
    BY <1>4, <1>5 DEF HasRoom

-----------------------------------------------------------------------------
(* What a step of one handler leaves to the others                         *)

OthersStay(t) ==
  \A u \in Handlers \ {t} :
    /\ pc'[u] = pc[u] /\ file'[u] = file[u] /\ peer'[u] = peer[u]
    /\ pair'[u] = pair[u] /\ tempPair'[u] = tempPair[u]
    /\ node'[u] = node[u] /\ tempNode'[u] = tempNode[u]

\* Memory that is used stays what it is.
Grows ==
  /\ filled => filled'
  /\ first # NULL => first' # NULL
  /\ \A p \in Pairs : key[p] # NULL => key'[p] = key[p]
  /\ \A n \in Nodes : holder[n] # NULL => holder'[n] = holder[n]

LEMMA ThreadStays ==
  ASSUME DictTypeOK, NEW t, OthersStay(t), Grows, NEW u \in Handlers \ {t}, Thread(u)
  PROVE  Thread(u)'
  <1>1. /\ pair[u] \in Pairs \cup {NULL} /\ tempPair[u] \in Pairs \cup {NULL}
        /\ node[u] \in Nodes \cup {NULL} /\ tempNode[u] \in Nodes \cup {NULL}
    BY DEF DictTypeOK
  <1>2. /\ pc'[u] = pc[u] /\ file'[u] = file[u] /\ peer'[u] = peer[u]
        /\ pair'[u] = pair[u] /\ tempPair'[u] = tempPair[u]
        /\ node'[u] = node[u] /\ tempNode'[u] = tempNode[u]
    BY DEF OthersStay
  <1>3. /\ pair[u] # NULL /\ key[pair[u]] # NULL => key'[pair[u]] # NULL
        /\ tempPair[u] # NULL /\ key[tempPair[u]] # NULL => key'[tempPair[u]] # NULL
        /\ node[u] # NULL /\ holder[node[u]] # NULL => holder'[node[u]] # NULL
        /\ tempNode[u] # NULL /\ holder[tempNode[u]] # NULL => holder'[tempNode[u]] # NULL
        /\ (filled => filled') /\ (first # NULL => first' # NULL)
    BY <1>1 DEF Grows
  <1>4. QED
    BY <1>2, <1>3 DEF Thread

LEMMA LinkedSame ==
  ASSUME first' = first, succ' = succ
  PROVE  Linked' = Linked
  BY DEF Linked

LEMMA ListSame ==
  ASSUME NEW p, head'[p] = head[p], next' = next
  PROVE  List(p)' = List(p)
  BY DEF List

\* A handler that writes only its own variables.
LEMMA LocalStep ==
  ASSUME IInv, NEW t \in Handlers, OthersStay(t), UNCHANGED memory, UNCHANGED settled,
         DictTypeOK', HasRoom', Thread(t)', Passed(t)',
         \A own \in Owners : Owned(own) => OwnedThread(own, t)',
         \A p \in Pairs, n \in Nodes : Kept(p, n) => Spared(p, n, t)',
         settled # {} => pc'[t] # "create"
  PROVE  IInv'
  <1>1. /\ filled' = filled /\ first' = first /\ key' = key /\ succ' = succ
        /\ head' = head /\ tail' = tail /\ holder' = holder /\ next' = next
    BY DEF memory
  <1>2. Linked' = Linked /\ \A p : List(p)' = List(p)
    BY <1>1, LinkedSame, ListSame
  <1>3. Memory'
    BY <1>1 DEF IInv, Memory
  <1>4. KeysUnique'
    BY <1>1, <1>2 DEF IInv, KeysUnique
  <1>5. ASSUME NEW u \in Handlers PROVE Thread(u)' /\ Passed(u)'
    <2>1. CASE u = t
      BY <2>1
    <2>2. CASE u # t
      <3>1. Thread(u)'
        BY <1>1, <2>2, ThreadStays DEF IInv, Grows
      <3>2. Passed(u)'
        BY <1>1, <1>2, <2>2 DEF IInv, Passed, OthersStay
      <3>3. QED
        BY <3>1, <3>2
    <2>3. QED
      BY <2>1, <2>2
  <1>6. PICK own \in Owners : Owned(own)
    BY DEF IInv
  <1>7. \A u \in Handlers : OwnedThread(own, u)'
    <2>1. \A u \in Handlers \ {t} : OwnedThread(own, u)'
      BY <1>6 DEF Owned, OwnedThread, OthersStay
    <2>2. QED
      BY <1>6, <2>1
  <1>8. Owned(own)'
    BY <1>1, <1>6, <1>7 DEF Owned
  <1>9. ASSUME NEW p \in Pairs, NEW n \in Nodes, Kept(p, n) PROVE Kept(p, n)'
    <2>1. \A u \in Handlers \ {t} : Spared(p, n, u)'
      BY <1>2, <1>9 DEF Kept, Spared, OthersStay
    <2>2. Spared(p, n, t)'
      BY <1>9
    <2>3. QED
      BY <1>2, <1>9, <2>1, <2>2 DEF Kept
  <1>10. SettledKept'
    <2>1. settled' = settled
      OBVIOUS
    <2>2. settled' # {} => filled' /\ \A u \in Handlers : pc'[u] # "create"
      BY <1>1, <2>1 DEF IInv, SettledKept, OthersStay
    <2>3. \A e \in settled : \E p \in Pairs, n \in Nodes :
            key[p] = e[1] /\ holder[n] = e[2] /\ Kept(p, n)
      BY DEF IInv, SettledKept
    <2>4. \A e \in settled' : \E p \in Pairs, n \in Nodes :
            key'[p] = e[1] /\ holder'[n] = e[2] /\ Kept(p, n)'
      BY <1>1, <1>9, <2>1, <2>3
    <2>5. QED
      BY <2>2, <2>4 DEF SettledKept
  <1>11. QED
    BY <1>3, <1>4, <1>5, <1>6, <1>8, <1>10 DEF IInv

-----------------------------------------------------------------------------
(* The steps that only read                                                *)

LEMMA SameRoom ==
  ASSUME HasRoom, NEW t \in Handlers, OthersStay(t), UNCHANGED memory,
         t \in PairWanted' => t \in PairWanted, t \in NodeWanted' => t \in NodeWanted
  PROVE  HasRoom'
  <1>1. UsedPairs' = UsedPairs /\ UsedNodes' = UsedNodes
    BY DEF UsedPairs, UsedNodes, memory
  <1>2. \A u \in Handlers \ {t} : pc'[u] = pc[u]
    BY DEF OthersStay
  <1>3. QED
    BY <1>1, <1>2, RoomStep

\* Begin asks for the memory that the insertion may want.
LEMMA BeginRoom ==
  ASSUME DictTypeOK, NEW t \in Handlers, Begin(t)
  PROVE  HasRoom'
  <1> DEFINE Busy == {u \in Handlers : pc[u] # "idle"}
  <1>1. /\ Cardinality(UsedPairs) + Cardinality(Busy) < MaxPairs
        /\ Cardinality(UsedNodes) + Cardinality(Busy) < MaxNodes
    BY DEF Begin, Room, UsedPairs, UsedNodes
  <1>2. UsedPairs' = UsedPairs /\ UsedNodes' = UsedNodes
    BY DEF UsedPairs, UsedNodes, Begin, memory
  <1>3. PairWanted' \in SUBSET (Busy \cup {t}) /\ NodeWanted' \in SUBSET (Busy \cup {t})
    <2>1. \A u \in Handlers : u # t => pc'[u] = pc[u]
      BY DEF Begin, Goes, DictTypeOK
    <2>2. QED
      BY <2>1 DEF PairWanted, NodeWanted
  <1>4. t \notin Busy
    BY DEF Begin, Goes
  <1>5. IsFiniteSet(Busy)
    BY DictionaryAssumption, FS_Subset
  <1> HIDE DEF Busy
  <1>6. /\ IsFiniteSet(Busy \cup {t}) /\ Cardinality(Busy) \in Nat
        /\ Cardinality(Busy \cup {t}) = Cardinality(Busy) + 1
    BY <1>4, <1>5, FS_AddElement, FS_CardinalityType
  <1>7. ASSUME NEW W, W \in SUBSET (Busy \cup {t})
        PROVE  Cardinality(W) \in Nat /\ Cardinality(W) <= Cardinality(Busy) + 1
    <2>1. IsFiniteSet(W) /\ Cardinality(W) <= Cardinality(Busy \cup {t})
      BY <1>6, <1>7, FS_Subset
    <2>2. QED
      BY <1>6, <2>1, FS_CardinalityType
  <1>8. /\ Cardinality(PairWanted') \in Nat /\ Cardinality(PairWanted') <= Cardinality(Busy) + 1
        /\ Cardinality(NodeWanted') \in Nat /\ Cardinality(NodeWanted') <= Cardinality(Busy) + 1
    BY <1>3, <1>7
  <1>9. /\ Cardinality(UsedPairs) \in Nat /\ Cardinality(UsedNodes) \in Nat
        /\ MaxPairs \in Nat /\ MaxNodes \in Nat
    BY Counts, DictionaryAssumption
  <1>10. /\ Cardinality(UsedPairs) + Cardinality(PairWanted') <= MaxPairs
         /\ Cardinality(UsedNodes) + Cardinality(NodeWanted') <= MaxNodes
    BY <1>1, <1>6, <1>8, <1>9
  <1>11. QED
    BY <1>2, <1>10 DEF HasRoom

LEMMA BeginStep ==
  ASSUME IInv, NEW t \in Handlers, Begin(t)
  PROVE  IInv'
  <1>1. DictTypeOK /\ Thread(t)
    BY DEF IInv
  <1>2. /\ pc[t] = "idle" /\ pc'[t] = "size" /\ tempPair'[t] = NULL
        /\ file'[t] # NULL /\ peer'[t] # NULL
    BY <1>1, DictionaryAssumption DEF Begin, Goes, DictTypeOK, Thread
  <1>3. DictTypeOK'
    BY <1>1 DEF Begin, Goes, DictTypeOK, memory
  <1>4. OthersStay(t) /\ UNCHANGED memory /\ UNCHANGED settled
    BY <1>1 DEF Begin, Goes, DictTypeOK, OthersStay
  <1>5. Thread(t)'
    BY <1>2 DEF Thread
  <1>6. /\ Passed(t)' /\ \A own : OwnedThread(own, t)'
        /\ \A p, n : Spared(p, n, t)'
    BY <1>2 DEF Passed, OwnedThread, Spared
  <1>7. QED
    BY <1>1, <1>2, <1>3, <1>4, <1>5, <1>6, BeginRoom, LocalStep

LEMMA ReadSizeStep ==
  ASSUME IInv, NEW t \in Handlers, ReadSize(t)
  PROVE  IInv'
  <1>1. DictTypeOK /\ Thread(t) /\ HasRoom
    BY DEF IInv
  <1>2. /\ pc[t] = "size" /\ pc'[t] = IF filled THEN "first" ELSE "create"
        /\ tempPair'[t] = tempPair[t] /\ file'[t] = file[t] /\ peer'[t] = peer[t]
        /\ filled' = filled
    BY <1>1 DEF ReadSize, Goes, DictTypeOK, memory
  <1>3. DictTypeOK'
    <2>1. pc' \in [Handlers -> {"idle", "size", "create", "first", "walk", "grow",
                                "holders", "last", "end", "link"}]
      BY <1>1 DEF ReadSize, Goes, DictTypeOK
    <2>2. QED
      BY <1>1, <2>1 DEF ReadSize, DictTypeOK, memory
  <1>4. OthersStay(t) /\ UNCHANGED memory /\ UNCHANGED settled
    BY <1>1 DEF ReadSize, Goes, DictTypeOK, OthersStay
  <1>5. HasRoom'
    BY <1>1, <1>2, <1>4, SameRoom DEF PairWanted, NodeWanted
  <1>6. Thread(t)'
    BY <1>1, <1>2 DEF Thread
  <1>7. /\ Passed(t)' /\ \A own : OwnedThread(own, t)'
        /\ \A p, n : Spared(p, n, t)'
    BY <1>2 DEF Passed, OwnedThread, Spared
  <1>8. settled # {} => pc'[t] # "create"
    BY <1>2 DEF IInv, SettledKept
  <1>9. QED
    BY <1>3, <1>4, <1>5, <1>6, <1>7, <1>8, LocalStep

LEMMA ReadFirstStep ==
  ASSUME IInv, NEW t \in Handlers, ReadFirst(t)
  PROVE  IInv'
  <1>1. DictTypeOK /\ Thread(t) /\ HasRoom /\ Memory
    BY DEF IInv
  <1>2. /\ pc[t] = "first" /\ pc'[t] = "walk" /\ pair'[t] = first
        /\ tempPair'[t] = tempPair[t] /\ file'[t] = file[t] /\ peer'[t] = peer[t]
        /\ filled' = filled /\ key' = key /\ first' = first /\ succ' = succ
    BY <1>1 DEF ReadFirst, Goes, DictTypeOK, memory
  <1>3. DictTypeOK'
    BY <1>1 DEF ReadFirst, Goes, DictTypeOK, memory
  <1>4. OthersStay(t) /\ UNCHANGED memory /\ UNCHANGED settled
    BY <1>1 DEF ReadFirst, Goes, DictTypeOK, OthersStay
  <1>5. HasRoom'
    BY <1>1, <1>2, <1>4, SameRoom DEF PairWanted, NodeWanted
  <1>6. filled /\ first # NULL /\ key[first] # NULL /\ tempPair[t] = NULL
    BY <1>1, <1>2 DEF Thread, Memory
  <1>7. Thread(t)'
    BY <1>1, <1>2, <1>6 DEF Thread
  <1>8. Passed(t)'
    <2>1. Linked' = Linked
      BY <1>2, LinkedSame
    <2>2. NULL \notin Linked
      BY <1>1, LinkedIs DEF Pairs, NULL
    <2>3. \A x \in Linked : ~(x < first)
      BY <1>1, Rises, LinkedIs
    <2>4. QED
      BY <1>2, <1>6, <2>1, <2>2, <2>3 DEF Passed
  <1>9. (\A own : OwnedThread(own, t)') /\ \A p, n : Spared(p, n, t)'
    BY <1>2, <1>6 DEF OwnedThread, Spared
  <1>10. QED
    BY <1>2, <1>3, <1>4, <1>5, <1>7, <1>8, <1>9, LocalStep

LEMMA WalkStep ==
  ASSUME IInv, NEW t \in Handlers, Walk(t)
  PROVE  IInv'
  <1>1. DictTypeOK /\ Thread(t) /\ HasRoom /\ Memory /\ Passed(t)
    BY DEF IInv
  <1> DEFINE z == pair[t]
  <1>2. /\ pc[t] = "walk" /\ pc'[t] = "walk" /\ pair'[t] = succ[z]
        /\ tempPair'[t] = z /\ file'[t] = file[t] /\ peer'[t] = peer[t]
        /\ filled' = filled /\ key' = key /\ first' = first /\ succ' = succ
        /\ z # NULL /\ z \in Pairs /\ key[z] # file[t]
    BY <1>1 DEF Walk, DictTypeOK, memory
  <1>3. DictTypeOK'
    <2>1. succ[z] \in Pairs \cup {NULL}
      BY <1>1, <1>2 DEF DictTypeOK
    <2>2. pair' \in [Handlers -> Pairs \cup {NULL}] /\ tempPair' \in [Handlers -> Pairs \cup {NULL}]
      BY <1>1, <2>1 DEF Walk, DictTypeOK
    <2>3. QED
      BY <1>1, <2>2 DEF Walk, DictTypeOK, memory
  <1>4. OthersStay(t) /\ UNCHANGED memory /\ UNCHANGED settled
    BY <1>1 DEF Walk, DictTypeOK, OthersStay
  <1>5. HasRoom'
    BY <1>1, <1>2, <1>4, SameRoom DEF PairWanted, NodeWanted
  <1>6. key[z] # NULL /\ (succ[z] # NULL => key[succ[z]] # NULL)
    BY <1>1, <1>2 DEF Thread, Memory
  <1>7. Thread(t)'
    BY <1>1, <1>2, <1>6 DEF Thread
  <1>8. Linked' = Linked
    BY <1>2, LinkedSame
  <1>9. z \in Linked => \A x \in Linked : x < z => key[x] # file[t]
    BY <1>1, <1>2 DEF Passed
  <1> HIDE DEF z
  <1>10. z \in Linked => \A x \in Linked : x <= z => key[x] # file[t]
    <2>1. \A x \in Linked : x \in Nat /\ z \in Nat
      BY <1>1, <1>2, LinkedIs DEF Pairs
    <2>2. QED
      BY <1>2, <1>9, <2>1
  <1>11. ASSUME succ[z] \in Linked PROVE z \in Linked /\ \A x \in Linked : x < succ[z] => x <= z
    <2>1. Linked \subseteq Pairs /\ succ[z] # NULL /\ succ[z] # first
      BY <1>1, <1>2, <1>11, LinkedIs DEF Memory, Pairs, NULL
    <2>2. PICK q \in Linked : succ[q] = succ[z]
      BY <1>1, <1>11, <2>1, LinkedIs
    <2>3. q = z
      BY <1>1, <1>2, <2>1, <2>2 DEF Memory
    <2>4. ASSUME NEW x \in Linked, x < succ[z] PROVE x <= z
      <3>1. z < x => succ[z] <= x
        BY <1>1, <2>2, <2>3, LinkedIs
      <3>2. x \in Nat /\ z \in Nat /\ succ[z] \in Nat
        BY <1>2, <1>11, <2>1 DEF Pairs
      <3>3. QED
        BY <2>4, <3>1, <3>2
    <2>5. QED
      BY <2>2, <2>3, <2>4
  <1>12. Passed(t)'
    BY <1>2, <1>8, <1>10, <1>11 DEF Passed
  <1>13. ASSUME NEW p \in Pairs, NEW n \in Nodes, Kept(p, n) PROVE Spared(p, n, t)'
    <2>1. ASSUME succ[z] = NULL, z \in Linked PROVE p <= z
      <3>1. p \in Linked /\ ~(z < p)
        BY <1>1, <1>13, <2>1, LinkedIs DEF Kept
      <3>2. p \in Nat /\ z \in Nat
        BY <1>2 DEF Pairs
      <3>3. QED
        BY <3>1, <3>2
    <2>2. QED
      BY <1>2, <1>8, <2>1 DEF Spared
  <1>14. \A own : OwnedThread(own, t)'
    BY <1>2 DEF OwnedThread
  <1>15. QED
    BY <1>2, <1>3, <1>4, <1>5, <1>7, <1>12, <1>13, <1>14, LocalStep

LEMMA FoundStep ==
  ASSUME IInv, NEW t \in Handlers, Found(t)
  PROVE  IInv'
  <1>1. DictTypeOK /\ Thread(t) /\ HasRoom /\ Memory
    BY DEF IInv
  <1>2. /\ pc[t] = "walk" /\ pc'[t] = "holders" /\ pair'[t] = pair[t] /\ pair[t] # NULL
        /\ file'[t] = file[t] /\ peer'[t] = peer[t] /\ filled' = filled /\ key' = key
        /\ pair[t] \in Pairs
    BY <1>1 DEF Found, Goes, DictTypeOK, memory
  <1>3. DictTypeOK'
    <2>1. head[pair[t]] \in Nodes \cup {NULL}
      BY <1>1, <1>2 DEF DictTypeOK
    <2>2. node' \in [Handlers -> Nodes \cup {NULL}]
      BY <1>1, <2>1 DEF Found, DictTypeOK
    <2>3. QED
      BY <1>1, <2>2 DEF Found, Goes, DictTypeOK, memory
  <1>4. OthersStay(t) /\ UNCHANGED memory /\ UNCHANGED settled
    BY <1>1 DEF Found, Goes, DictTypeOK, OthersStay
  <1>5. HasRoom'
    BY <1>1, <1>2, <1>4, SameRoom DEF PairWanted, NodeWanted
  <1>6. Thread(t)'
    BY <1>1, <1>2 DEF Thread
  <1>7. /\ Passed(t)' /\ \A own : OwnedThread(own, t)'
        /\ \A p, n : Spared(p, n, t)'
    BY <1>2 DEF Passed, OwnedThread, Spared
  <1>8. QED
    BY <1>2, <1>3, <1>4, <1>5, <1>6, <1>7, LocalStep

LEMMA NextHolderStep ==
  ASSUME IInv, NEW t \in Handlers, NextHolder(t)
  PROVE  IInv'
  <1>1. DictTypeOK /\ Thread(t) /\ HasRoom
    BY DEF IInv
  <1>2. /\ pc[t] = "holders" /\ pc'[t] = "holders" /\ pair'[t] = pair[t] /\ node[t] # NULL
        /\ file'[t] = file[t] /\ peer'[t] = peer[t] /\ filled' = filled /\ key' = key
    BY <1>1 DEF NextHolder, memory
  <1>3. DictTypeOK'
    <2>1. next[node[t]] \in Nodes \cup {NULL}
      BY <1>1, <1>2 DEF DictTypeOK
    <2>2. node' \in [Handlers -> Nodes \cup {NULL}]
      BY <1>1, <2>1 DEF NextHolder, DictTypeOK
    <2>3. QED
      BY <1>1, <2>2 DEF NextHolder, DictTypeOK, memory
  <1>4. OthersStay(t) /\ UNCHANGED memory /\ UNCHANGED settled
    BY <1>1 DEF NextHolder, DictTypeOK, OthersStay
  <1>5. HasRoom'
    BY <1>1, <1>2, <1>4, SameRoom DEF PairWanted, NodeWanted
  <1>6. Thread(t)'
    BY <1>1, <1>2 DEF Thread
  <1>7. /\ Passed(t)' /\ \A own : OwnedThread(own, t)'
        /\ \A p, n : Spared(p, n, t)'
    BY <1>2 DEF Passed, OwnedThread, Spared
  <1>8. QED
    BY <1>2, <1>3, <1>4, <1>5, <1>6, <1>7, LocalStep

\* Every node of a pair's list belongs to the pair.
LEMMA ListOwned ==
  ASSUME DictTypeOK, Memory, NEW own \in Owners, Owned(own), NEW p \in Pairs, key[p] # NULL
  PROVE  \A n \in List(p) : own[n] = p
  <1> DEFINE S == {n \in Nodes : own[n] = p}
  <1>1. /\ MaxNodes \in Nat /\ next \in [1..MaxNodes -> 0..MaxNodes]
        /\ head[p] \in 0..MaxNodes /\ Nodes = 1..MaxNodes
    BY Rises DEF Rising
  <1>2. head[p] # NULL => head[p] \in S
    BY <1>1 DEF Owned, NULL
  <1>3. \A x \in S : x \in 1..MaxNodes /\ next[x] # NULL => next[x] \in S
    BY <1>1 DEF Owned, NULL
  <1>4. List(p) \subseteq S
    <2> HIDE DEF S
    <2>1. QED
      BY <1>1, <1>2, <1>3, ChainLeast DEF List
  <1>5. QED
    BY <1>4

LEMMA ReadLastStep ==
  ASSUME IInv, NEW t \in Handlers, ReadLast(t)
  PROVE  IInv'
  <1>1. DictTypeOK /\ Thread(t) /\ HasRoom /\ Memory
    BY DEF IInv
  <1>2. /\ pc[t] = "holders" /\ pc'[t] = "last" /\ pair'[t] = pair[t]
        /\ file'[t] = file[t] /\ peer'[t] = peer[t] /\ filled' = filled /\ key' = key
        /\ tempNode'[t] = tail[pair[t]] /\ holder' = holder
    BY <1>1 DEF ReadLast, Goes, DictTypeOK, memory
  <1>3. /\ filled /\ pair[t] # NULL /\ pair[t] \in Pairs /\ key[pair[t]] # NULL
        /\ tail[pair[t]] # NULL /\ tail[pair[t]] \in Nodes /\ holder[tail[pair[t]]] # NULL
    BY <1>1, <1>2 DEF DictTypeOK, Thread, Memory
  <1>4. DictTypeOK'
    <2>1. tempNode' \in [Handlers -> Nodes \cup {NULL}]
      BY <1>1, <1>3 DEF ReadLast, DictTypeOK
    <2>2. QED
      BY <1>1, <2>1 DEF ReadLast, Goes, DictTypeOK, memory
  <1>5. OthersStay(t) /\ UNCHANGED memory /\ UNCHANGED settled
    BY <1>1 DEF ReadLast, Goes, DictTypeOK, OthersStay
  <1>6. HasRoom'
    BY <1>1, <1>2, <1>5, SameRoom DEF PairWanted, NodeWanted
  <1>7. Thread(t)'
    BY <1>1, <1>2, <1>3 DEF Thread
  <1>8. Passed(t)'
    BY <1>2 DEF Passed
  <1>9. \A own \in Owners : Owned(own) => OwnedThread(own, t)'
    BY <1>2, <1>3 DEF Owned, OwnedThread
  <1>10. ASSUME NEW p \in Pairs, NEW n \in Nodes, Kept(p, n) PROVE Spared(p, n, t)'
    <2>1. ASSUME pair[t] = p PROVE n <= tail[p]
      <3>1. PICK own \in Owners : Owned(own)
        BY DEF IInv
      <3>2. own[n] = p /\ holder[n] # NULL
        BY <1>1, <1>3, <1>10, <2>1, <3>1, ListOwned, ListIs DEF Kept
      <3>3. QED
        BY <3>1, <3>2 DEF Owned
    <2>2. QED
      BY <1>2, <2>1 DEF Spared
  <1>11. QED
    BY <1>2, <1>4, <1>5, <1>6, <1>7, <1>8, <1>9, <1>10, LocalStep

-----------------------------------------------------------------------------
(* The steps that write to lists, or return                                *)

\* When all have returned, nobody is about to cut anything.
LEMMA SettleNow ==
  /\ DictTypeOK /\ Memory /\ filled /\ (\A u \in Handlers : pc[u] = "idle")
  /\ settled = Entries
  => SettledKept
  <1> SUFFICES ASSUME DictTypeOK, Memory, filled, \A u \in Handlers : pc[u] = "idle",
                      settled = Entries
               PROVE  SettledKept
    OBVIOUS
  <1>1. ASSUME NEW e \in settled
        PROVE  \E p \in Pairs, n \in Nodes :
                 key[p] = e[1] /\ holder[n] = e[2] /\ Kept(p, n)
    <2>1. PICK p \in Linked : e \in {key[p]} \X Holders(p)
      BY <1>1 DEF Entries
    <2>2. PICK n \in List(p) : e[1] = key[p] /\ e[2] = holder[n]
      BY <2>1 DEF Holders, List
    <2>3. p \in Pairs /\ n \in Nodes
      BY <2>2, LinkedIs, ListIs
    <2>4. Kept(p, n)
      BY DEF Kept, Spared
    <2>5. QED
      BY <2>2, <2>3, <2>4
  <1>2. QED
    BY <1>1 DEF SettledKept

LEMMA SettledStep ==
  ASSUME DictTypeOK', Memory', SettledKept, NEW t \in Handlers, OthersStay(t), filled => filled',
         \A p \in Pairs : key[p] # NULL => key'[p] = key[p],
         \A n \in Nodes : holder[n] # NULL => holder'[n] = holder[n],
         \A p \in Linked : key[p] # NULL /\ \A n \in List(p) : holder[n] # NULL,
         \A p \in Pairs, n \in Nodes : Kept(p, n) => Kept(p, n)',
         \/ settled' = settled /\ (settled # {} => pc'[t] # "create")
         \/ Return(t) /\ filled' /\ pc'[t] = "idle"
  PROVE  SettledKept'
  <1>1. CASE settled' = settled /\ (settled # {} => pc'[t] # "create")
    <2>1. settled' # {} => filled' /\ \A u \in Handlers : pc'[u] # "create"
      BY <1>1 DEF SettledKept, OthersStay
    <2>2. ASSUME NEW e \in settled'
          PROVE  \E p \in Pairs, n \in Nodes :
                   key'[p] = e[1] /\ holder'[n] = e[2] /\ Kept(p, n)'
      <3>1. PICK p \in Pairs, n \in Nodes :
              key[p] = e[1] /\ holder[n] = e[2] /\ Kept(p, n)
        BY <1>1, <2>2 DEF SettledKept
      <3>2. key'[p] = key[p] /\ holder'[n] = holder[n]
        BY <3>1 DEF Kept
      <3>3. QED
        BY <3>1, <3>2
    <2>3. QED
      BY <2>1, <2>2 DEF SettledKept
  <1>2. CASE Return(t) /\ filled' /\ pc'[t] = "idle"
    <2>1. CASE \A u \in Handlers \ {t} : pc[u] = "idle"
      <3>1. settled' = Entries'
        BY <1>2, <2>1 DEF Return
      <3>2. \A u \in Handlers : pc'[u] = "idle"
        BY <1>2, <2>1 DEF OthersStay
      <3>3. (/\ DictTypeOK /\ Memory /\ filled /\ (\A u \in Handlers : pc[u] = "idle")
             /\ settled = Entries)'
            => SettledKept'
        BY SettleNow, PTL
      <3>4. QED
        BY <1>2, <3>1, <3>2, <3>3
    <2>2. CASE ~ \A u \in Handlers \ {t} : pc[u] = "idle"
      <3>1. settled' = settled
        BY <1>2, <2>2 DEF Return
      <3>2. QED
        BY <1>1, <1>2, <3>1
    <2>3. QED
      BY <2>1, <2>2
  <1>3. QED
    BY <1>1, <1>2

\* A step that makes no pair, and cuts no way that is kept.
LEMMA ListStep ==
  ASSUME IInv, NEW t \in Handlers, OthersStay(t), filled => filled',
         first' = first, key' = key, succ' = succ, head' = head,
         \A n \in Nodes : holder[n] # NULL => holder'[n] = holder[n],
         DictTypeOK', Memory', HasRoom', Thread(t)', Passed(t)',
         \E own \in Owners : Owned(own)',
         \A p \in Pairs, n \in Nodes : Kept(p, n) => n \in List(p)' /\ Spared(p, n, t)',
         \/ settled' = settled /\ (settled # {} => pc'[t] # "create")
         \/ Return(t) /\ filled' /\ pc'[t] = "idle"
  PROVE  IInv'
  <1>1. DictTypeOK /\ Memory
    BY DEF IInv
  <1>2. Linked' = Linked
    BY LinkedSame
  <1>3. KeysUnique'
    BY <1>2 DEF IInv, KeysUnique
  <1>4. ASSUME NEW u \in Handlers PROVE Thread(u)' /\ Passed(u)'
    <2>1. CASE u = t
      BY <2>1
    <2>2. CASE u # t
      <3>1. Thread(u)'
        BY <1>1, <2>2, ThreadStays DEF IInv, Grows
      <3>2. Passed(u)'
        BY <1>2, <2>2 DEF IInv, Passed, OthersStay
      <3>3. QED
        BY <3>1, <3>2
    <2>3. QED
      BY <2>1, <2>2
  <1>5. ASSUME NEW p \in Pairs, NEW n \in Nodes, Kept(p, n) PROVE Kept(p, n)'
    <2>1. \A u \in Handlers \ {t} : Spared(p, n, u)'
      BY <1>2, <1>5 DEF Kept, Spared, OthersStay
    <2>2. n \in List(p)' /\ Spared(p, n, t)'
      BY <1>5
    <2>3. QED
      BY <1>2, <1>5, <2>1, <2>2 DEF Kept
  <1>6. \A p \in Linked : key[p] # NULL /\ \A n \in List(p) : holder[n] # NULL
    BY <1>1, LinkedIs, ListIs
  <1>7. SettledKept'
    <2>1. SettledKept
      BY DEF IInv
    <2>2. QED
      BY <1>5, <1>6, <2>1, SettledStep
  <1>8. QED
    BY <1>3, <1>4, <1>7 DEF IInv

LEMMA Returned ==
  ASSUME DictTypeOK, NEW t \in Handlers, Return(t), pc[t] # "create"
  PROVE  /\ OthersStay(t) /\ pc'[t] = "idle" /\ tempPair'[t] = NULL
         /\ Thread(t)' /\ Passed(t)'
         /\ \A own : OwnedThread(own, t)'
         /\ \A p, n : Spared(p, n, t)'
         /\ t \notin PairWanted' /\ t \notin NodeWanted'
  <1>1. OthersStay(t) /\ pc'[t] = "idle" /\ tempPair'[t] = NULL
    BY DEF Return, DictTypeOK, OthersStay
  <1>2. Thread(t)'
    BY <1>1 DEF Thread
  <1>3. /\ Passed(t)' /\ \A own : OwnedThread(own, t)'
        /\ \A p, n : Spared(p, n, t)'
    BY <1>1 DEF Passed, OwnedThread, Spared
  <1>4. t \notin PairWanted' /\ t \notin NodeWanted'
    BY <1>1 DEF PairWanted, NodeWanted
  <1>5. QED
    BY <1>1, <1>2, <1>3, <1>4

\* The types that settled rests on.
Typed ==
  /\ filled \in BOOLEAN /\ first \in Pairs \cup {NULL}
  /\ key \in [Pairs -> Files \cup {NULL}]
  /\ succ \in [Pairs -> Pairs \cup {NULL}]
  /\ head \in [Pairs -> Nodes \cup {NULL}] /\ tail \in [Pairs -> Nodes \cup {NULL}]
  /\ holder \in [Nodes -> Peers \cup {NULL}]
  /\ next \in [Nodes -> Nodes \cup {NULL}]

LEMMA EntriesTyped ==
  Typed /\ Memory => Entries \subseteq Files \X Peers
  <1> SUFFICES ASSUME Typed, Memory PROVE Entries \subseteq Files \X Peers
    OBVIOUS
  <1>1. /\ MaxPairs \in Nat /\ MaxNodes \in Nat
        /\ Pairs = 1..MaxPairs /\ Nodes = 1..MaxNodes
        /\ Pairs \cup {NULL} = 0..MaxPairs /\ Nodes \cup {NULL} = 0..MaxNodes
    BY DictionaryAssumption DEF Pairs, Nodes, NULL
  <1> DEFINE P == {p \in Pairs : key[p] # NULL}
             N == {n \in Nodes : holder[n] # NULL}
  <1>2. Linked \subseteq P
    <2>1. first # NULL => first \in P
      BY DEF Memory, Typed
    <2>2. \A x \in P : x \in 1..MaxPairs /\ succ[x] # NULL => succ[x] \in P
      BY DEF Memory, Typed
    <2>3. succ \in [1..MaxPairs -> 0..MaxPairs] /\ first \in 0..MaxPairs
      BY <1>1 DEF Typed
    <2> HIDE DEF P
    <2>4. QED
      BY <1>1, <2>1, <2>2, <2>3, ChainLeast DEF Linked
  <1>3. ASSUME NEW p \in P PROVE List(p) \subseteq N
    <2>1. head[p] # NULL => head[p] \in N
      BY DEF Memory, Typed
    <2>2. \A x \in N : x \in 1..MaxNodes /\ next[x] # NULL => next[x] \in N
      BY DEF Memory, Typed
    <2>3. next \in [1..MaxNodes -> 0..MaxNodes] /\ head[p] \in 0..MaxNodes
      BY <1>1, <1>3 DEF Typed
    <2> HIDE DEF N
    <2>4. QED
      BY <1>1, <2>1, <2>2, <2>3, ChainLeast DEF List
  <1>4. ASSUME NEW e \in Entries PROVE e \in Files \X Peers
    <2>1. PICK p \in Linked : e \in {key[p]} \X Holders(p)
      BY <1>4 DEF Entries
    <2>2. PICK n \in List(p) : e = <<key[p], holder[n]>>
      BY <2>1 DEF Holders, List
    <2>3. p \in P /\ n \in N
      BY <1>2, <1>3, <2>2
    <2>4. key[p] \in Files /\ holder[n] \in Peers
      BY <2>3 DEF Typed
    <2>5. QED
      BY <2>2, <2>4
  <1>5. QED
    BY <1>4

LEMMA ReturnTypes ==
  ASSUME DictTypeOK, Typed', Memory', NEW t \in Handlers, Return(t)
  PROVE  DictTypeOK'
  <1>1. Entries' \subseteq Files \X Peers
    <2>1. (Typed /\ Memory)' => (Entries \subseteq Files \X Peers)'
      BY EntriesTyped, PTL
    <2>2. QED
      BY <2>1
  <1>2. settled' \subseteq Files \X Peers
    BY <1>1 DEF Return, DictTypeOK
  <1>3. QED
    BY <1>2 DEF Return, DictTypeOK, Typed

LEMMA IsHolderStep ==
  ASSUME IInv, NEW t \in Handlers, IsHolder(t)
  PROVE  IInv'
  <1>1. DictTypeOK /\ Thread(t) /\ HasRoom /\ Memory
    BY DEF IInv
  <1>2. /\ Return(t) /\ pc[t] = "holders" /\ UNCHANGED memory /\ filled' /\ first' = first
        /\ key' = key /\ succ' = succ /\ head' = head /\ next' = next /\ holder' = holder
        /\ tail' = tail
    BY <1>1 DEF IsHolder, memory, Thread
  <1>3. Memory'
    BY <1>1, <1>2 DEF Memory, memory
  <1>4. DictTypeOK'
    <2>1. Typed'
      BY <1>1, <1>2 DEF DictTypeOK, Typed, memory
    <2>2. QED
      BY <1>1, <1>2, <1>3, <2>1, ReturnTypes
  <1>5. /\ OthersStay(t) /\ pc'[t] = "idle" /\ Thread(t)' /\ Passed(t)'
        /\ \A own : OwnedThread(own, t)'
        /\ \A p, n : Spared(p, n, t)'
        /\ t \notin PairWanted' /\ t \notin NodeWanted'
    BY <1>1, <1>2, Returned
  <1>6. HasRoom'
    BY <1>1, <1>2, <1>5, SameRoom
  <1>7. \E own \in Owners : Owned(own)'
    <2>1. PICK own \in Owners : Owned(own)
      BY DEF IInv
    <2>2. \A u \in Handlers : OwnedThread(own, u)'
      BY <1>5, <2>1 DEF Owned, OwnedThread, OthersStay
    <2>3. Owned(own)'
      BY <1>2, <2>1, <2>2 DEF Owned
    <2>4. QED
      BY <2>3
  <1>8. \A p \in Pairs, n \in Nodes : Kept(p, n) => n \in List(p)' /\ Spared(p, n, t)'
    <2>1. \A p : List(p)' = List(p)
      BY <1>2, ListSame
    <2>2. QED
      BY <1>5, <2>1 DEF Kept
  <1>9. QED
    BY <1>2, <1>3, <1>4, <1>5, <1>6, <1>7, <1>8, ListStep

LEMMA GrowStep ==
  ASSUME IInv, NEW t \in Handlers, Grow(t)
  PROVE  IInv'
  <1>1. DictTypeOK /\ Thread(t) /\ HasRoom /\ Memory
    BY DEF IInv
  <1>2. /\ Return(t) /\ pc[t] = "grow" /\ filled' = TRUE /\ first' = first
        /\ key' = key /\ succ' = succ /\ head' = head /\ next' = next /\ holder' = holder
        /\ tail' = tail /\ first # NULL
    BY <1>1 DEF Grow, Thread
  <1>3. Memory'
    BY <1>1, <1>2 DEF Memory
  <1>4. DictTypeOK'
    <2>1. Typed'
      BY <1>1, <1>2 DEF DictTypeOK, Typed
    <2>2. QED
      BY <1>1, <1>2, <1>3, <2>1, ReturnTypes
  <1>5. /\ OthersStay(t) /\ pc'[t] = "idle" /\ Thread(t)' /\ Passed(t)'
        /\ \A own : OwnedThread(own, t)'
        /\ \A p, n : Spared(p, n, t)'
        /\ t \notin PairWanted' /\ t \notin NodeWanted'
    BY <1>1, <1>2, Returned
  <1>6. HasRoom'
    <2>1. UsedPairs' = UsedPairs /\ UsedNodes' = UsedNodes
      BY <1>2 DEF UsedPairs, UsedNodes
    <2>2. \A u \in Handlers \ {t} : pc'[u] = pc[u]
      BY <1>5 DEF OthersStay
    <2>3. QED
      BY <1>1, <1>5, <2>1, <2>2, RoomStep
  <1>7. \E own \in Owners : Owned(own)'
    <2>1. PICK own \in Owners : Owned(own)
      BY DEF IInv
    <2>2. \A u \in Handlers : OwnedThread(own, u)'
      BY <1>5, <2>1 DEF Owned, OwnedThread, OthersStay
    <2>3. Owned(own)'
      BY <1>2, <2>1, <2>2 DEF Owned
    <2>4. QED
      BY <2>3
  <1>8. \A p \in Pairs, n \in Nodes : Kept(p, n) => n \in List(p)' /\ Spared(p, n, t)'
    <2>1. \A p : List(p)' = List(p)
      BY <1>2, ListSame
    <2>2. QED
      BY <1>5, <2>1 DEF Kept
  <1>9. QED
    BY <1>2, <1>3, <1>4, <1>5, <1>6, <1>7, <1>8, ListStep

\* A pointer between nodes is set behind every node that is kept.
LEMMA ListCut ==
  ASSUME DictTypeOK, Memory, DictTypeOK', Memory', NEW own \in Owners, Owned(own),
         NEW t \in Handlers, NEW z \in Nodes, NEW w \in Nodes \cup {NULL},
         pc[t] = "end" \/ pc[t] = "link", own[z] = pair[t], tempNode[t] <= z,
         tempNode[t] \in Nodes,
         next' = [next EXCEPT ![z] = w], head' = head
  PROVE  \A p \in Pairs, n \in Nodes : Kept(p, n) => n \in List(p)'
  <1> SUFFICES ASSUME NEW p \in Pairs, NEW n \in Nodes, Kept(p, n) PROVE n \in List(p)'
    OBVIOUS
  <1>1. /\ MaxNodes \in Nat /\ Rising(MaxNodes, next) /\ head[p] \in 0..MaxNodes
        /\ Nodes = 1..MaxNodes
    BY Rises
  <1>2. Rising(MaxNodes, [next EXCEPT ![z] = w])
    <2>1. (DictTypeOK /\ Memory)' => (Rising(MaxNodes, next))'
      BY Rises, PTL
    <2>2. Rising(MaxNodes, next')
      BY <2>1 DEF Rising
    <2>3. QED
      BY <2>2
  <1>3. n \in List(p) /\ key[p] # NULL
    BY LinkedIs DEF Kept
  <1>4. z \in List(p) => n <= z
    <2>1. SUFFICES ASSUME z \in List(p) PROVE n <= z
      OBVIOUS
    <2>2. pair[t] = p
      BY <1>3, <2>1, ListOwned
    <2>3. n <= tempNode[t]
      BY <2>2 DEF Kept, Spared
    <2>4. QED
      BY <2>3 DEF Nodes
  <1>5. n \in Chain(head[p], [next EXCEPT ![z] = w])
    BY <1>1, <1>2, <1>3, <1>4, ChainKeeps DEF List
  <1>6. QED
    BY <1>5 DEF List

LEMMA EndSuccStep ==
  ASSUME IInv, NEW t \in Handlers, EndSucc(t)
  PROVE  IInv'
  <1>1. DictTypeOK /\ Thread(t) /\ HasRoom /\ Memory
    BY DEF IInv
  <1>2. /\ pc[t] = "end" /\ pc'[t] = "link" /\ next' = [next EXCEPT ![node[t]] = NULL]
        /\ filled' = filled /\ first' = first /\ key' = key /\ succ' = succ
        /\ head' = head /\ tail' = tail /\ holder' = holder
        /\ pair' = pair /\ tempNode' = tempNode /\ node' = node
        /\ file' = file /\ peer' = peer /\ tempPair' = tempPair /\ settled' = settled
    BY <1>1 DEF EndSucc, Goes, DictTypeOK
  <1>3. /\ node[t] \in Nodes /\ holder[node[t]] # NULL /\ tempNode[t] < node[t]
        /\ tempNode[t] \in Nodes
    BY <1>1, <1>2 DEF Thread, DictTypeOK
  <1>4. OthersStay(t)
    BY <1>1, <1>2 DEF EndSucc, Goes, DictTypeOK, OthersStay
  <1>5. DictTypeOK'
    <2>1. pc' \in [Handlers -> {"idle", "size", "create", "first", "walk", "grow",
                                "holders", "last", "end", "link"}]
      BY <1>1 DEF EndSucc, Goes, DictTypeOK
    <2>2. next' \in [Nodes -> Nodes \cup {NULL}]
      BY <1>1, <1>2 DEF DictTypeOK
    <2>3. QED
      BY <1>1, <1>2, <2>1, <2>2 DEF DictTypeOK
  <1>6. Memory'
    <2>1. \A n \in Nodes : next'[n] # NULL => n < next'[n] /\ holder'[next'[n]] # NULL
      BY <1>1, <1>2, <1>3 DEF Memory, DictTypeOK
    <2>2. QED
      BY <1>1, <1>2, <2>1 DEF Memory
  <1>7. HasRoom'
    <2>1. UsedPairs' = UsedPairs /\ UsedNodes' = UsedNodes
      BY <1>2 DEF UsedPairs, UsedNodes
    <2>2. \A u \in Handlers \ {t} : pc'[u] = pc[u]
      BY <1>4 DEF OthersStay
    <2>3. t \notin PairWanted' /\ t \notin NodeWanted'
      BY <1>2 DEF PairWanted, NodeWanted
    <2>4. QED
      BY <1>1, <2>1, <2>2, <2>3, RoomStep
  <1>8. Thread(t)' /\ Passed(t)'
    BY <1>1, <1>2 DEF Thread, Passed
  <1>9. PICK own \in Owners : Owned(own)
    BY DEF IInv
  <1>10. Owned(own)'
    <2>1. \A n \in Nodes : next'[n] # NULL => own[next'[n]] = own[n]
      BY <1>1, <1>2, <1>3, <1>9 DEF Owned, DictTypeOK
    <2>2. \A u \in Handlers : OwnedThread(own, u)'
      <3>1. OwnedThread(own, t)'
        BY <1>2, <1>9 DEF Owned, OwnedThread
      <3>2. \A u \in Handlers \ {t} : OwnedThread(own, u)'
        BY <1>2, <1>4, <1>9 DEF Owned, OwnedThread, OthersStay
      <3>3. QED
        BY <3>1, <3>2
    <2>3. QED
      BY <1>2, <1>9, <2>1, <2>2 DEF Owned
  <1>11. \A p \in Pairs, n \in Nodes : Kept(p, n) => n \in List(p)' /\ Spared(p, n, t)'
    <2>1. own[node[t]] = pair[t] /\ tempNode[t] <= node[t]
      BY <1>2, <1>3, <1>9 DEF Owned, OwnedThread, Nodes
    <2>2. \A p \in Pairs, n \in Nodes : Kept(p, n) => n \in List(p)'
      <3>1. PICK z \in Nodes : z = node[t]
        BY <1>3
      <3>2. /\ (pc[t] = "end" \/ pc[t] = "link") /\ own[z] = pair[t]
            /\ tempNode[t] <= z /\ next' = [next EXCEPT ![z] = NULL] /\ head' = head
        BY <1>2, <1>3, <2>1, <3>1
      <3>3. QED
        BY <1>1, <1>3, <1>5, <1>6, <1>9, <3>2, ListCut
    <2>3. \A p \in Pairs, n \in Nodes : Kept(p, n) => Spared(p, n, t)'
      BY <1>2 DEF Kept, Spared
    <2>4. QED
      BY <2>2, <2>3
  <1>12. QED
    BY <1>2, <1>4, <1>5, <1>6, <1>7, <1>8, <1>10, <1>11, ListStep

LEMMA LinkNodeStep ==
  ASSUME IInv, NEW t \in Handlers, LinkNode(t)
  PROVE  IInv'
  <1>1. DictTypeOK /\ Thread(t) /\ HasRoom /\ Memory
    BY DEF IInv
  <1>2. /\ Return(t) /\ pc[t] = "link" /\ next' = [next EXCEPT ![tempNode[t]] = node[t]]
        /\ filled' = filled /\ first' = first /\ key' = key /\ succ' = succ
        /\ head' = head /\ tail' = tail /\ holder' = holder
    BY <1>1 DEF LinkNode
  <1>3. /\ node[t] \in Nodes /\ holder[node[t]] # NULL /\ tempNode[t] < node[t]
        /\ tempNode[t] \in Nodes /\ filled
    BY <1>1, <1>2 DEF Thread, DictTypeOK
  <1>4. next' \in [Nodes -> Nodes \cup {NULL}]
    BY <1>1, <1>2, <1>3 DEF DictTypeOK
  <1>5. Memory'
    <2>1. \A n \in Nodes : next'[n] # NULL => n < next'[n] /\ holder'[next'[n]] # NULL
      BY <1>1, <1>2, <1>3 DEF Memory, DictTypeOK
    <2>2. QED
      BY <1>1, <1>2, <2>1 DEF Memory
  <1>6. DictTypeOK'
    <2>1. Typed'
      BY <1>1, <1>2, <1>4 DEF DictTypeOK, Typed
    <2>2. QED
      BY <1>1, <1>2, <1>5, <2>1, ReturnTypes
  <1>7. /\ OthersStay(t) /\ pc'[t] = "idle" /\ Thread(t)' /\ Passed(t)'
        /\ \A own : OwnedThread(own, t)'
        /\ \A p, n : Spared(p, n, t)'
        /\ t \notin PairWanted' /\ t \notin NodeWanted'
    BY <1>1, <1>2, Returned
  <1>8. HasRoom'
    <2>1. UsedPairs' = UsedPairs /\ UsedNodes' = UsedNodes
      BY <1>2 DEF UsedPairs, UsedNodes
    <2>2. \A u \in Handlers \ {t} : pc'[u] = pc[u]
      BY <1>7 DEF OthersStay
    <2>3. QED
      BY <1>1, <1>7, <2>1, <2>2, RoomStep
  <1>9. PICK own \in Owners : Owned(own)
    BY DEF IInv
  <1>10. own[tempNode[t]] = pair[t] /\ own[node[t]] = pair[t]
    BY <1>2, <1>9 DEF Owned, OwnedThread
  <1>11. Owned(own)'
    <2>1. \A n \in Nodes : next'[n] # NULL => own[next'[n]] = own[n]
      BY <1>1, <1>2, <1>3, <1>9, <1>10 DEF Owned, DictTypeOK
    <2>2. \A u \in Handlers : OwnedThread(own, u)'
      BY <1>7, <1>9 DEF Owned, OwnedThread, OthersStay
    <2>3. QED
      BY <1>2, <1>9, <2>1, <2>2 DEF Owned
  <1>12. \A p \in Pairs, n \in Nodes : Kept(p, n) => n \in List(p)' /\ Spared(p, n, t)'
    <2>1. tempNode[t] <= tempNode[t]
      BY <1>3 DEF Nodes
    <2>2. \A p \in Pairs, n \in Nodes : Kept(p, n) => n \in List(p)'
      <3>1. PICK z \in Nodes, w \in Nodes : z = tempNode[t] /\ w = node[t]
        BY <1>3
      <3>2. /\ (pc[t] = "end" \/ pc[t] = "link") /\ own[z] = pair[t]
            /\ tempNode[t] <= z /\ next' = [next EXCEPT ![z] = w] /\ head' = head
        BY <1>2, <1>3, <1>10, <2>1, <3>1
      <3>3. QED
        BY <1>1, <1>3, <1>5, <1>6, <1>9, <3>2, ListCut
    <2>3. QED
      BY <1>7, <2>2
  <1>13. QED
    BY <1>2, <1>3, <1>5, <1>6, <1>7, <1>8, <1>11, <1>12, ListStep

LEMMA SetLastStep ==
  ASSUME IInv, NEW t \in Handlers, SetLast(t)
  PROVE  IInv'
  <1> DEFINE N == FreeNode
             P == pair[t]
  <1>1. DictTypeOK /\ Thread(t) /\ HasRoom /\ Memory
    BY DEF IInv
  <1>2. pc[t] = "last" /\ t \in NodeWanted
    BY DEF SetLast, Goes, NodeWanted
  <1>3. /\ N \in Nodes /\ holder[N] = NULL
        /\ \A n \in Nodes : holder[n] # NULL <=> n < N
    BY <1>1, <1>2, FreeNodeIs
  <1>4. /\ pc'[t] = "end" /\ holder' = [holder EXCEPT ![N] = peer[t]]
        /\ tail' = [tail EXCEPT ![P] = N] /\ node' = [node EXCEPT ![t] = N]
        /\ filled' = filled /\ first' = first /\ key' = key /\ succ' = succ
        /\ head' = head /\ next' = next /\ pair' = pair /\ tempNode' = tempNode
        /\ file' = file /\ peer' = peer /\ tempPair' = tempPair /\ settled' = settled
    BY <1>1 DEF SetLast, Goes, DictTypeOK
  <1> HIDE DEF N, P
  <1>5. /\ P \in Pairs /\ key[P] # NULL /\ tempNode[t] \in Nodes /\ P # NULL
        /\ holder[tempNode[t]] # NULL /\ peer[t] # NULL /\ peer[t] \in Peers
        /\ tempNode[t] < N /\ filled /\ N # NULL
    BY <1>1, <1>2, <1>3 DEF Thread, DictTypeOK, P, Nodes, NULL
  <1>6. OthersStay(t)
    BY <1>1, <1>4 DEF SetLast, Goes, DictTypeOK, OthersStay
  <1>7. /\ holder'[N] = peer[t] /\ \A n \in Nodes : n # N => holder'[n] = holder[n]
        /\ tail'[P] = N /\ \A p \in Pairs : p # P => tail'[p] = tail[p]
        /\ node'[t] = N
    BY <1>1, <1>3, <1>4, <1>5 DEF DictTypeOK
  <1>8. DictTypeOK'
    <2>1. pc' \in [Handlers -> {"idle", "size", "create", "first", "walk", "grow",
                                "holders", "last", "end", "link"}]
      BY <1>1 DEF SetLast, Goes, DictTypeOK
    <2>2. holder' \in [Nodes -> Peers \cup {NULL}] /\ tail' \in [Pairs -> Nodes \cup {NULL}]
      BY <1>1, <1>3, <1>4, <1>5 DEF DictTypeOK
    <2>3. node' \in [Handlers -> Nodes \cup {NULL}]
      BY <1>1, <1>3, <1>4 DEF DictTypeOK
    <2>4. QED
      BY <1>1, <1>4, <2>1, <2>2, <2>3 DEF DictTypeOK
  <1>9. Memory'
    <2>1. \A m, n \in Nodes : m < n /\ holder'[n] # NULL => holder'[m] # NULL
      BY <1>1, <1>3, <1>5, <1>7 DEF Memory, Nodes
    <2>2. \A n \in Nodes : holder[n] # NULL => holder'[n] # NULL
      BY <1>5, <1>7
    <2>3. \A p \in Pairs : key[p] # NULL =>
            head[p] # NULL /\ holder'[head[p]] # NULL /\ tail'[p] # NULL /\ holder'[tail'[p]] # NULL
      BY <1>1, <1>5, <1>7, <2>2 DEF Memory, DictTypeOK
    <2>4. \A n \in Nodes : next[n] # NULL => n < next[n] /\ holder'[next[n]] # NULL
      BY <1>1, <2>2 DEF Memory, DictTypeOK
    <2>5. QED
      BY <1>1, <1>4, <2>1, <2>3, <2>4 DEF Memory
  <1>10. HasRoom'
    <2>1. UsedPairs' = UsedPairs /\ t \notin PairWanted' /\ t \notin NodeWanted'
      BY <1>4 DEF UsedPairs, PairWanted, NodeWanted
    <2>2. UsedNodes' = UsedNodes \cup {N}
      BY <1>3, <1>5, <1>7 DEF UsedNodes
    <2>3. \A u \in Handlers \ {t} : pc'[u] = pc[u]
      BY <1>6 DEF OthersStay
    <2>4. QED
      BY <1>1, <1>2, <1>3, <2>1, <2>2, <2>3, RoomStep
  <1>11. Thread(t)' /\ Passed(t)'
    BY <1>1, <1>2, <1>4, <1>5, <1>7 DEF Thread, Passed, P
  <1>12. \E own \in Owners : Owned(own)'
    <2>1. PICK own \in Owners : Owned(own)
      BY DEF IInv
    <2>2. PICK new \in Owners : new[N] = P /\ \A n \in Nodes : n # N => new[n] = own[n]
      <3>1. [own EXCEPT ![N] = P] \in Owners
        BY <1>3, <1>5, <2>1 DEF Owners
      <3>2. /\ [own EXCEPT ![N] = P][N] = P
            /\ \A n \in Nodes : n # N => [own EXCEPT ![N] = P][n] = own[n]
        BY <1>3, <2>1 DEF Owners
      <3>3. QED
        BY <3>1, <3>2
    <2>3. \A n \in Nodes : holder[n] # NULL => new[n] = own[n]
      BY <1>3, <2>2
    <2>4. \A p \in Pairs : key[p] # NULL => new[head[p]] = p /\ new[tail'[p]] = p
      BY <1>1, <1>7, <2>1, <2>2, <2>3 DEF Memory, Owned, DictTypeOK
    <2>5. \A n \in Nodes : holder'[n] # NULL =>
            new[n] # NULL /\ key[new[n]] # NULL /\ n <= tail'[new[n]]
      <3>1. ASSUME NEW n \in Nodes, holder'[n] # NULL
            PROVE  new[n] # NULL /\ key[new[n]] # NULL /\ n <= tail'[new[n]]
        <4>1. CASE n = N
          BY <1>3, <1>5, <1>7, <2>2, <4>1 DEF Nodes
        <4>2. CASE n # N
          <5>1. /\ holder[n] # NULL /\ new[n] = own[n] /\ own[n] # NULL
                /\ key[own[n]] # NULL /\ n <= tail[own[n]]
            BY <1>7, <2>1, <2>2, <3>1, <4>2 DEF Owned
          <5>2. own[n] \in Pairs /\ n < N
            BY <1>3, <2>1, <5>1 DEF Owners
          <5>3. n <= tail'[own[n]]
            <6>1. CASE own[n] = P
              BY <1>3, <1>7, <5>2, <6>1 DEF Nodes
            <6>2. CASE own[n] # P
              BY <1>7, <5>1, <5>2, <6>2
            <6>3. QED
              BY <6>1, <6>2
          <5>4. QED
            BY <5>1, <5>3
        <4>3. QED
          BY <4>1, <4>2
      <3>2. QED
        BY <3>1
    <2>6. \A n \in Nodes : next[n] # NULL => new[next[n]] = new[n]
      <3>1. ASSUME NEW n \in Nodes, next[n] # NULL PROVE new[next[n]] = new[n]
        <4>1. next[n] \in Nodes /\ n < next[n] /\ holder[next[n]] # NULL
          BY <1>1, <3>1 DEF Memory, DictTypeOK
        <4>2. holder[n] # NULL
          BY <1>1, <4>1 DEF Memory
        <4>3. own[next[n]] = own[n]
          BY <2>1, <3>1 DEF Owned
        <4>4. QED
          BY <2>3, <4>1, <4>2, <4>3
      <3>2. QED
        BY <3>1
    <2>7. ASSUME NEW u \in Handlers PROVE OwnedThread(new, u)'
      <3>1. CASE u = t
        <4>1. new[tempNode[t]] = P
          BY <1>2, <1>5, <2>1, <2>3 DEF Owned, OwnedThread, P
        <4>2. QED
          BY <1>4, <1>7, <2>2, <3>1, <4>1 DEF OwnedThread, P
      <3>2. CASE u # t
        <4>1. Thread(u) /\ OwnedThread(own, u)
          BY <2>1 DEF IInv, Owned
        <4>2. /\ pc'[u] = pc[u] /\ tempNode'[u] = tempNode[u] /\ node'[u] = node[u]
              /\ pair'[u] = pair[u]
          BY <1>6, <3>2 DEF OthersStay
        <4>3. /\ pc[u] \in {"last", "end", "link"} =>
                   tempNode[u] \in Nodes /\ holder[tempNode[u]] # NULL
              /\ pc[u] \in {"end", "link"} => node[u] \in Nodes /\ holder[node[u]] # NULL
          BY <1>1, <4>1 DEF Thread, DictTypeOK
        <4>4. QED
          BY <2>3, <4>1, <4>2, <4>3 DEF OwnedThread
      <3>3. QED
        BY <3>1, <3>2
    <2>8. Owned(new)'
      BY <1>4, <2>4, <2>5, <2>6, <2>7 DEF Owned
    <2>9. QED
      BY <2>2, <2>8
  <1>13. \A p \in Pairs, n \in Nodes : Kept(p, n) => n \in List(p)' /\ Spared(p, n, t)'
    <2>1. \A p : List(p)' = List(p)
      BY <1>4, ListSame
    <2>2. QED
      BY <1>2, <1>4, <2>1 DEF Kept, Spared
  <1>14. \A n \in Nodes : holder[n] # NULL => holder'[n] = holder[n]
    BY <1>3, <1>7
  <1>15. QED
    BY <1>4, <1>6, <1>8, <1>9, <1>10, <1>11, <1>12, <1>13, <1>14, ListStep

-----------------------------------------------------------------------------
(* The steps that make a pair                                              *)

\* The new pair P and its node N: what is the same wherever P is linked.
LEMMA NewPairStep ==
  ASSUME IInv, NEW t \in Handlers, OthersStay(t), pc[t] = "create" \/ pc[t] = "walk",
         pc'[t] = "grow", file' = file, peer' = peer,
         NEW P \in Pairs, NEW N \in Nodes, P = FreePair, N = FreeNode, NewPair(t, P, N),
         filled' = filled, next' = next, settled' = settled, DictTypeOK', first' # NULL,
         key'[first'] # NULL,
         \A p \in Pairs : key'[p] = NULL => succ'[p] = NULL,
         \A p \in Pairs : succ'[p] # NULL =>
           p < succ'[p] /\ key'[succ'[p]] # NULL /\ succ'[p] # first',
         \A p, q \in Pairs : succ'[p] # NULL /\ succ'[p] = succ'[q] => p = q,
         Linked' \subseteq Linked \cup {P}, KeysUnique',
         settled # {} => \A p \in Pairs, n \in Nodes : Kept(p, n) => p \in Linked'
  PROVE  IInv'
  <1>1. DictTypeOK /\ Thread(t) /\ HasRoom /\ Memory /\ t \in PairWanted /\ t \in NodeWanted
    BY DEF IInv, PairWanted, NodeWanted
  <1>2. key[P] = NULL /\ \A p \in Pairs : key[p] # NULL <=> p < P
    BY <1>1, FreePairIs
  <1>3. holder[N] = NULL /\ \A n \in Nodes : holder[n] # NULL <=> n < N
    BY <1>1, FreeNodeIs
  <1>4. P # NULL /\ N # NULL /\ file[t] # NULL /\ peer[t] # NULL
    BY <1>1 DEF Thread, Pairs, Nodes, NULL
  <1>5. /\ key'[P] = file[t] /\ \A p \in Pairs : p # P => key'[p] = key[p]
        /\ head'[P] = N /\ \A p \in Pairs : p # P => head'[p] = head[p]
        /\ tail'[P] = N /\ \A p \in Pairs : p # P => tail'[p] = tail[p]
        /\ holder'[N] = peer[t] /\ \A n \in Nodes : n # N => holder'[n] = holder[n]
    BY <1>1 DEF NewPair, DictTypeOK
  <1>6. /\ \A p \in Pairs : key[p] # NULL => key'[p] = key[p]
        /\ \A n \in Nodes : holder[n] # NULL => holder'[n] = holder[n]
    BY <1>2, <1>3, <1>5
  <1>7. Memory'
    <2>1. \A p, q \in Pairs : q < p /\ key'[p] # NULL => key'[q] # NULL
      BY <1>2, <1>4, <1>5 DEF Pairs
    <2>2. \A m, n \in Nodes : m < n /\ holder'[n] # NULL => holder'[m] # NULL
      BY <1>3, <1>4, <1>5 DEF Nodes
    <2>3. \A p \in Pairs : key'[p] # NULL =>
            /\ head'[p] # NULL /\ holder'[head'[p]] # NULL
            /\ tail'[p] # NULL /\ holder'[tail'[p]] # NULL
      <3>1. ASSUME NEW p \in Pairs, key'[p] # NULL
            PROVE  /\ head'[p] # NULL /\ holder'[head'[p]] # NULL
                   /\ tail'[p] # NULL /\ holder'[tail'[p]] # NULL
        <4>1. CASE p = P
          BY <1>4, <1>5, <4>1
        <4>2. CASE p # P
          BY <1>1, <1>5, <1>6, <3>1, <4>2 DEF Memory, DictTypeOK
        <4>3. QED
          BY <4>1, <4>2
      <3>2. QED
        BY <3>1
    <2>4. \A n \in Nodes : next[n] # NULL => n < next[n] /\ holder'[next[n]] # NULL
      BY <1>1, <1>6 DEF Memory, DictTypeOK
    <2>5. QED
      BY <2>1, <2>2, <2>3, <2>4 DEF Memory
  <1>8. HasRoom'
    <2>1. UsedPairs' = UsedPairs \cup {P} /\ UsedNodes' = UsedNodes \cup {N}
      BY <1>2, <1>3, <1>4, <1>5 DEF UsedPairs, UsedNodes
    <2>2. t \notin PairWanted' /\ t \notin NodeWanted'
      BY DEF PairWanted, NodeWanted
    <2>3. \A u \in Handlers \ {t} : pc'[u] = pc[u]
      BY DEF OthersStay
    <2>4. QED
      BY <1>1, <2>1, <2>2, <2>3, RoomStep
  <1>9. Linked \subseteq Pairs /\ \A p \in Linked : key[p] # NULL
    BY <1>1, LinkedIs
  <1>10. ASSUME NEW u \in Handlers PROVE Thread(u)' /\ Passed(u)'
    <2>1. CASE u = t
      BY <1>1, <1>4, <2>1 DEF Thread, Passed
    <2>2. CASE u # t
      <3>1. Thread(u) /\ Passed(u)
        BY DEF IInv
      <3>2. Thread(u)'
        BY <1>1, <1>6, <2>2, <3>1, ThreadStays DEF Grows
      <3>3. Passed(u)'
        <4>1. SUFFICES ASSUME pc[u] = "walk"
                       PROVE  /\ pair[u] \in Linked' =>
                                   \A x \in Linked' : x < pair[u] => key'[x] # file[u]
                              /\ tempPair[u] \in Linked' =>
                                   \A x \in Linked' : x <= tempPair[u] => key'[x] # file[u]
          BY <2>2 DEF Passed, OthersStay
        <4>2. ASSUME NEW y, y = NULL \/ (y \in Pairs /\ key[y] # NULL), y \in Linked'
              PROVE  y \in Linked /\ \A x \in Linked' : x <= y => x \in Linked /\ key'[x] = key[x]
          <5>1. NULL \notin Linked'
            BY <1>4, <1>9 DEF Pairs, NULL
          <5>2. y \in Pairs /\ key[y] # NULL /\ y < P /\ y \in Linked
            BY <1>2, <4>2, <5>1
          <5>3. ASSUME NEW x \in Linked', x <= y PROVE x \in Linked /\ key'[x] = key[x]
            <6>1. x # P
              BY <5>2, <5>3 DEF Pairs
            <6>2. QED
              BY <1>5, <1>9, <6>1
          <5>4. QED
            BY <5>2, <5>3
        <4>3. /\ pair[u] = NULL \/ (pair[u] \in Pairs /\ key[pair[u]] # NULL)
              /\ tempPair[u] = NULL \/ (tempPair[u] \in Pairs /\ key[tempPair[u]] # NULL)
          BY <1>1, <3>1, <4>1 DEF Thread, DictTypeOK
        <4>4. ASSUME pair[u] \in Linked', NEW x \in Linked', x < pair[u]
              PROVE  key'[x] # file[u]
          <5>1. x <= pair[u]
            <6>1. x \in Pairs /\ pair[u] \in Pairs
              BY <1>9, <4>4
            <6>2. x \in Nat /\ pair[u] \in Nat
              BY <6>1 DEF Pairs
            <6>3. QED
              BY <4>4, <6>2
          <5>2. pair[u] \in Linked /\ x \in Linked /\ key'[x] = key[x]
            BY <4>2, <4>3, <4>4, <5>1
          <5>3. QED
            BY <3>1, <4>1, <4>4, <5>2 DEF Passed
        <4>5. ASSUME tempPair[u] \in Linked', NEW x \in Linked', x <= tempPair[u]
              PROVE  key'[x] # file[u]
          <5>1. tempPair[u] \in Linked /\ x \in Linked /\ key'[x] = key[x]
            BY <4>2, <4>3, <4>5
          <5>2. QED
            BY <3>1, <4>1, <4>5, <5>1 DEF Passed
        <4>6. QED
          BY <4>4, <4>5
      <3>4. QED
        BY <3>2, <3>3
    <2>3. QED
      BY <2>1, <2>2
  <1>11. \E own \in Owners : Owned(own)'
    <2>1. PICK own \in Owners : Owned(own)
      BY DEF IInv
    <2>2. PICK new \in Owners : new[N] = P /\ \A n \in Nodes : n # N => new[n] = own[n]
      <3>1. [own EXCEPT ![N] = P] \in Owners
        BY <2>1 DEF Owners
      <3>2. /\ [own EXCEPT ![N] = P][N] = P
            /\ \A n \in Nodes : n # N => [own EXCEPT ![N] = P][n] = own[n]
        BY <2>1 DEF Owners
      <3>3. QED
        BY <3>1, <3>2
    <2>3. \A n \in Nodes : holder[n] # NULL => new[n] = own[n]
      BY <1>3, <2>2
    <2>4. ASSUME NEW p \in Pairs, key'[p] # NULL PROVE new[head'[p]] = p /\ new[tail'[p]] = p
      <3>1. CASE p = P
        BY <1>5, <2>2, <3>1
      <3>2. CASE p # P
        <4>1. /\ key[p] # NULL /\ head'[p] = head[p] /\ tail'[p] = tail[p]
              /\ head[p] \in Nodes /\ tail[p] \in Nodes
              /\ holder[head[p]] # NULL /\ holder[tail[p]] # NULL
          BY <1>1, <1>5, <2>4, <3>2 DEF Memory, DictTypeOK
        <4>2. QED
          BY <2>1, <2>3, <4>1 DEF Owned
      <3>3. QED
        BY <3>1, <3>2
    <2>5. ASSUME NEW n \in Nodes, holder'[n] # NULL
          PROVE  new[n] # NULL /\ key'[new[n]] # NULL /\ n <= tail'[new[n]]
      <3>1. CASE n = N
        BY <1>4, <1>5, <2>2, <3>1 DEF Nodes
      <3>2. CASE n # N
        <4>1. /\ holder[n] # NULL /\ new[n] = own[n] /\ own[n] # NULL
              /\ key[own[n]] # NULL /\ n <= tail[own[n]]
          BY <1>5, <2>1, <2>2, <2>5, <3>2 DEF Owned
        <4>2. own[n] \in Pairs /\ own[n] # P
          BY <1>2, <2>1, <4>1 DEF Owners
        <4>3. QED
          BY <1>5, <4>1, <4>2
      <3>3. QED
        BY <3>1, <3>2
    <2>6. ASSUME NEW n \in Nodes, next[n] # NULL PROVE new[next[n]] = new[n]
      <3>1. next[n] \in Nodes /\ n < next[n] /\ holder[next[n]] # NULL
        BY <1>1, <2>6 DEF Memory, DictTypeOK
      <3>2. holder[n] # NULL
        BY <1>1, <3>1 DEF Memory
      <3>3. own[next[n]] = own[n]
        BY <2>1, <2>6 DEF Owned
      <3>4. QED
        BY <2>3, <3>1, <3>2, <3>3
    <2>7. ASSUME NEW u \in Handlers PROVE OwnedThread(new, u)'
      <3>1. CASE u = t
        BY <3>1 DEF OwnedThread
      <3>2. CASE u # t
        <4>1. Thread(u) /\ OwnedThread(own, u)
          BY <2>1 DEF IInv, Owned
        <4>2. /\ pc'[u] = pc[u] /\ tempNode'[u] = tempNode[u] /\ node'[u] = node[u]
              /\ pair'[u] = pair[u]
          BY <3>2 DEF OthersStay
        <4>3. /\ pc[u] \in {"last", "end", "link"} =>
                   tempNode[u] \in Nodes /\ holder[tempNode[u]] # NULL
              /\ pc[u] \in {"end", "link"} => node[u] \in Nodes /\ holder[node[u]] # NULL
          BY <1>1, <4>1 DEF Thread, DictTypeOK
        <4>4. QED
          BY <2>3, <4>1, <4>2, <4>3 DEF OwnedThread
      <3>3. QED
        BY <3>1, <3>2
    <2>8. Owned(new)'
      BY <2>4, <2>5, <2>6, <2>7 DEF Owned
    <2>9. QED
      BY <2>2, <2>8
  <1>12. ASSUME settled # {}, NEW p \in Pairs, NEW n \in Nodes, Kept(p, n)
         PROVE  Kept(p, n)'
    <2>1. p \in Linked' /\ p \in Linked /\ p # P
      BY <1>2, <1>9, <1>12 DEF Kept
    <2>2. List(p)' = List(p)
      BY <1>5, <2>1, ListSame
    <2>3. ASSUME NEW u \in Handlers PROVE Spared(p, n, u)'
      <3>1. CASE u = t
        BY <3>1 DEF Spared
      <3>2. CASE u # t
        <4>1. Thread(u) /\ Spared(p, n, u)
          BY <1>12 DEF IInv, Kept
        <4>2. /\ pc'[u] = pc[u] /\ tempNode'[u] = tempNode[u] /\ pair'[u] = pair[u]
              /\ tempPair'[u] = tempPair[u]
          BY <3>2 DEF OthersStay
        <4>3. pc[u] = "walk" /\ pair[u] = NULL =>
                tempPair[u] \in Pairs /\ key[tempPair[u]] # NULL
          BY <1>1, <4>1 DEF Thread, DictTypeOK
        <4>4. pc[u] = "walk" /\ pair[u] = NULL /\ tempPair[u] \in Linked' => tempPair[u] \in Linked
          BY <1>2, <4>3
        <4>5. QED
          BY <4>1, <4>2, <4>4 DEF Spared
      <3>3. QED
        BY <3>1, <3>2
    <2>4. QED
      BY <1>12, <2>1, <2>2, <2>3 DEF Kept
  <1>13. SettledKept'
    <2>1. \A p \in Linked : key[p] # NULL /\ \A n \in List(p) : holder[n] # NULL
      BY <1>1, LinkedIs, ListIs
    <2>2. SettledKept
      BY DEF IInv
    <2>3. settled # {} => pc'[t] # "create"
      OBVIOUS
    <2>4. CASE settled = {}
      BY <2>4 DEF SettledKept
    <2>5. CASE settled # {}
      BY <1>6, <1>7, <1>12, <2>1, <2>2, <2>3, <2>5, SettledStep
    <2>6. QED
      BY <2>4, <2>5
  <1>14. QED
    BY <1>7, <1>8, <1>10, <1>11, <1>13 DEF IInv

\* What NewPair and the two steps do to the types and to the others.
LEMMA NewPairFrame ==
  ASSUME DictTypeOK, NEW t \in Handlers, NEW P \in Pairs, NEW N \in Nodes, NewPair(t, P, N),
         NEW from, Goes(t, from, "grow"), first' \in Pairs \cup {NULL},
         succ' \in [Pairs -> Pairs \cup {NULL}],
         UNCHANGED <<filled, next, file, peer, pair, tempPair, node, tempNode, settled>>
  PROVE  DictTypeOK' /\ OthersStay(t) /\ pc'[t] = "grow"
  <1>1. /\ key' \in [Pairs -> Files \cup {NULL}] /\ head' \in [Pairs -> Nodes \cup {NULL}]
        /\ tail' \in [Pairs -> Nodes \cup {NULL}] /\ holder' \in [Nodes -> Peers \cup {NULL}]
    BY DEF NewPair, DictTypeOK
  <1>2. pc' \in [Handlers -> {"idle", "size", "create", "first", "walk", "grow",
                              "holders", "last", "end", "link"}]
    BY DEF Goes, DictTypeOK
  <1>3. DictTypeOK'
    BY <1>1, <1>2 DEF DictTypeOK
  <1>4. OthersStay(t) /\ pc'[t] = "grow"
    BY DEF OthersStay, Goes, DictTypeOK
  <1>5. QED
    BY <1>3, <1>4

LEMMA CreateStep ==
  ASSUME IInv, NEW t \in Handlers, Create(t)
  PROVE  IInv'
  <1>1. DictTypeOK /\ Thread(t) /\ HasRoom /\ Memory /\ SettledKept
    BY DEF IInv
  <1>2. pc[t] = "create" /\ t \in PairWanted /\ t \in NodeWanted
    BY DEF Create, Goes, PairWanted, NodeWanted
  <1>3. /\ FreePair \in Pairs /\ key[FreePair] = NULL
        /\ FreeNode \in Nodes /\ holder[FreeNode] = NULL
    BY <1>1, <1>2, FreePairIs, FreeNodeIs
  <1>4. PICK P \in Pairs, N \in Nodes : P = FreePair /\ N = FreeNode
    BY <1>3
  <1>5. /\ NewPair(t, P, N) /\ first' = P /\ succ' = succ /\ filled' = filled /\ next' = next
        /\ settled' = settled /\ file' = file /\ peer' = peer /\ Goes(t, "create", "grow")
        /\ UNCHANGED <<pair, tempPair, node, tempNode>>
    BY <1>4 DEF Create
  <1>6. DictTypeOK' /\ OthersStay(t) /\ pc'[t] = "grow"
    <2>1. succ' \in [Pairs -> Pairs \cup {NULL}] /\ first' \in Pairs \cup {NULL}
      BY <1>1, <1>5 DEF DictTypeOK
    <2>2. QED
      BY <1>1, <1>5, <2>1, NewPairFrame
  <1>7. /\ key[P] = NULL /\ P # NULL /\ file[t] # NULL
        /\ key'[P] = file[t] /\ \A p \in Pairs : p # P => key'[p] = key[p]
    BY <1>1, <1>2, <1>3, <1>4, <1>5 DEF NewPair, Thread, DictTypeOK, Pairs, NULL
  <1>8. \A p \in Pairs : succ[p] # NULL =>
          succ[p] \in Pairs /\ p < succ[p] /\ key[succ[p]] # NULL
    BY <1>1 DEF Memory, DictTypeOK
  <1>9. /\ \A p \in Pairs : key'[p] = NULL => succ'[p] = NULL
        /\ \A p \in Pairs : succ'[p] # NULL =>
             p < succ'[p] /\ key'[succ'[p]] # NULL /\ succ'[p] # first'
    BY <1>1, <1>5, <1>7, <1>8 DEF Memory
  <1>10. \A p, q \in Pairs : succ'[p] # NULL /\ succ'[p] = succ'[q] => p = q
    BY <1>1, <1>5 DEF Memory
  <1>11. Linked' = {P}
    <2>1. succ[P] = NULL
      BY <1>1, <1>7 DEF Memory
    <2>2. Chain(P, succ) = {P}
      BY <1>1, <2>1, Rises, ChainAlone
    <2>3. QED
      BY <1>5, <2>2 DEF Linked
  <1>12. KeysUnique'
    BY <1>11 DEF KeysUnique
  <1>13. settled = {}
    BY <1>1, <1>2 DEF SettledKept
  <1>14. first' # NULL /\ key'[first'] # NULL /\ Linked' \subseteq Linked \cup {P}
    BY <1>5, <1>7, <1>11
  <1>15. QED
    BY <1>2, <1>4, <1>5, <1>6, <1>9, <1>10, <1>12, <1>13, <1>14, NewPairStep

LEMMA AppendPairStep ==
  ASSUME IInv, NEW t \in Handlers, AppendPair(t)
  PROVE  IInv'
  <1>1. DictTypeOK /\ Thread(t) /\ HasRoom /\ Memory /\ Passed(t) /\ KeysUnique
    BY DEF IInv
  <1>2. pc[t] = "walk" /\ pair[t] = NULL /\ t \in PairWanted /\ t \in NodeWanted
    BY DEF AppendPair, Goes, PairWanted, NodeWanted
  <1>3. /\ FreePair \in Pairs /\ key[FreePair] = NULL
        /\ \A p \in Pairs : key[p] # NULL <=> p < FreePair
        /\ FreeNode \in Nodes /\ holder[FreeNode] = NULL
    BY <1>1, <1>2, FreePairIs, FreeNodeIs
  <1>4. PICK P \in Pairs, N \in Nodes : P = FreePair /\ N = FreeNode
    BY <1>3
  <1>5. tempPair[t] # NULL /\ tempPair[t] \in Pairs /\ key[tempPair[t]] # NULL
    BY <1>1, <1>2 DEF Thread, DictTypeOK
  <1>6. PICK z \in Pairs : z = tempPair[t]
    BY <1>5
  <1>7. /\ NewPair(t, P, N) /\ first' = first /\ succ' = [succ EXCEPT ![z] = P]
        /\ filled' = filled /\ next' = next /\ settled' = settled
        /\ file' = file /\ peer' = peer /\ Goes(t, "walk", "grow")
        /\ UNCHANGED <<pair, tempPair, node, tempNode>>
    BY <1>4, <1>6 DEF AppendPair
  <1>8. DictTypeOK' /\ OthersStay(t) /\ pc'[t] = "grow"
    <2>1. succ' \in [Pairs -> Pairs \cup {NULL}] /\ first' \in Pairs \cup {NULL}
      BY <1>1, <1>7 DEF DictTypeOK
    <2>2. QED
      BY <1>1, <1>7, <2>1, NewPairFrame
  <1>9. /\ key[P] = NULL /\ P # NULL /\ file[t] # NULL
        /\ key'[P] = file[t] /\ \A p \in Pairs : p # P => key'[p] = key[p]
    BY <1>1, <1>2, <1>3, <1>4, <1>7 DEF NewPair, Thread, DictTypeOK, Pairs, NULL
  <1>10. z < P /\ key[z] # NULL /\ z # P /\ succ[P] = NULL
    BY <1>1, <1>3, <1>4, <1>5, <1>6, <1>9 DEF Memory
  <1>11. succ'[z] = P /\ \A p \in Pairs : p # z => succ'[p] = succ[p]
    BY <1>1, <1>7 DEF DictTypeOK
  <1>12. first # NULL /\ key[first] # NULL /\ first \in Pairs /\ first # P
    BY <1>1, <1>2, <1>9 DEF Thread, Memory, DictTypeOK
  <1>13. \A p \in Pairs : succ[p] # NULL =>
           /\ succ[p] \in Pairs /\ p < succ[p] /\ key[succ[p]] # NULL
           /\ succ[p] # first /\ succ[p] # P
    BY <1>1, <1>9 DEF Memory, DictTypeOK
  <1>14. /\ \A p \in Pairs : key'[p] = NULL => succ'[p] = NULL
         /\ \A p \in Pairs : succ'[p] # NULL =>
              p < succ'[p] /\ key'[succ'[p]] # NULL /\ succ'[p] # first'
    <2>1. ASSUME NEW p \in Pairs, key'[p] = NULL PROVE succ'[p] = NULL
      <3>1. p # P /\ key[p] = NULL /\ p # z
        BY <1>9, <1>10, <2>1
      <3>2. QED
        BY <1>1, <1>11, <3>1 DEF Memory
    <2>2. ASSUME NEW p \in Pairs, succ'[p] # NULL
          PROVE  p < succ'[p] /\ key'[succ'[p]] # NULL /\ succ'[p] # first'
      <3>1. CASE p = z
        BY <1>7, <1>9, <1>10, <1>11, <1>12, <3>1
      <3>2. CASE p # z
        BY <1>7, <1>9, <1>11, <1>13, <2>2, <3>2
      <3>3. QED
        BY <3>1, <3>2
    <2>3. QED
      BY <2>1, <2>2
  <1>15. ASSUME NEW p \in Pairs, NEW q \in Pairs, succ'[p] # NULL, succ'[p] = succ'[q]
         PROVE  p = q
    <2>1. CASE p # z /\ q # z
      BY <1>1, <1>11, <1>15, <2>1 DEF Memory
    <2>2. CASE p = z \/ q = z
      BY <1>9, <1>11, <1>13, <1>15, <2>2
    <2>3. QED
      BY <2>1, <2>2
  <1>16. /\ MaxPairs \in Nat /\ Rising(MaxPairs, succ) /\ first \in 0..MaxPairs
         /\ Pairs = 1..MaxPairs
    BY <1>1, Rises
  <1>17. /\ Rising(MaxPairs, succ')
         /\ z \in Linked => \A x \in Linked' : (x \in Linked /\ x <= z) \/ x = P
         /\ z \notin Linked => Linked' = Linked
    <2> DEFINE f == [succ EXCEPT ![z] = P]
    <2>1. z \in 1..MaxPairs /\ P \in 1..MaxPairs
      BY <1>16
    <2>2. /\ Rising(MaxPairs, f)
          /\ z \in Chain(first, succ) =>
               \A x \in Chain(first, f) : (x \in Chain(first, succ) /\ x <= z) \/ x = P
          /\ z \notin Chain(first, succ) => Chain(first, f) = Chain(first, succ)
      <3> HIDE DEF f
      <3>1. MaxPairs \in Nat /\ Rising(MaxPairs, succ) /\ first \in 0..MaxPairs
        BY <1>16
      <3>2. z < P /\ succ[P] = NULL
        BY <1>10
      <3>3. /\ f \in [1..MaxPairs -> 0..MaxPairs] /\ f[z] = P
            /\ \A x \in 1..MaxPairs : x # z => f[x] = succ[x]
        BY <1>16, <2>1 DEF f, Rising
      <3>4. Extension(MaxPairs, succ, z, P, f)
        BY <2>1, <3>1, <3>2, <3>3 DEF Extension
      <3>5. QED
        BY <3>1, <3>4, ChainExtended
    <2>3. succ' = f /\ Linked' = Chain(first, f) /\ Linked = Chain(first, succ)
      BY <1>7 DEF Linked
    <2> HIDE DEF f
    <2>4. QED
      BY <2>2, <2>3
  <1>18. Linked' \subseteq Linked \cup {P}
    BY <1>17
  <1>19. Linked \subseteq Pairs /\ \A x \in Linked : key[x] # NULL /\ x # P
    BY <1>1, <1>9, LinkedIs
  <1>20. KeysUnique'
    <2>1. ASSUME NEW p \in Linked', NEW q \in Linked', key'[p] = key'[q] PROVE p = q
      <3>1. CASE p # P /\ q # P
        <4>1. p \in Linked /\ q \in Linked /\ key'[p] = key[p] /\ key'[q] = key[q]
          BY <1>9, <1>18, <1>19, <3>1
        <4>2. QED
          BY <1>1, <2>1, <4>1 DEF KeysUnique
      <3>2. CASE p = P \/ q = P
        <4>1. z \in Linked
          BY <1>17, <1>19, <3>2
        <4>2. \A x \in Linked' : x # P => key'[x] # file[t]
          <5>1. ASSUME NEW x \in Linked', x # P PROVE key'[x] # file[t]
            <6>1. x \in Linked /\ x <= z
              BY <1>17, <4>1, <5>1
            <6>2. key[x] # file[t] /\ key'[x] = key[x]
              BY <1>1, <1>2, <1>6, <1>9, <1>19, <4>1, <5>1, <6>1 DEF Passed
            <6>3. QED
              BY <6>2
          <5>2. QED
            BY <5>1
        <4>3. QED
          BY <1>9, <2>1, <3>2, <4>2
      <3>3. QED
        BY <3>1, <3>2
    <2>2. QED
      BY <2>1 DEF KeysUnique
  <1>21. ASSUME NEW p \in Pairs, NEW n \in Nodes, Kept(p, n) PROVE p \in Linked'
    <2>1. p \in Linked /\ (z \in Linked => p <= z)
      BY <1>2, <1>6, <1>21 DEF Kept, Spared
    <2>2. Rising(MaxPairs, [succ EXCEPT ![z] = P])
      BY <1>7, <1>17
    <2>3. p \in Chain(first, [succ EXCEPT ![z] = P])
      BY <1>16, <2>1, <2>2, ChainKeeps DEF Linked
    <2>4. QED
      BY <1>7, <2>3 DEF Linked
  <1>22. first' # NULL /\ key'[first'] # NULL
    BY <1>7, <1>9, <1>12
  <1>23. QED
    BY <1>2, <1>4, <1>7, <1>8, <1>14, <1>15, <1>18, <1>20, <1>21, <1>22, NewPairStep

-----------------------------------------------------------------------------
(* The invariant                                                           *)

LEMMA InitIInv == DictInit => IInv
  <1> SUFFICES ASSUME DictInit PROVE IInv
    OBVIOUS
  <1>1. DictTypeOK
    BY DEF DictInit, DictTypeOK
  <1>2. Memory
    BY DEF DictInit, Memory
  <1>3. HasRoom
    <2>1. UsedPairs = {} /\ UsedNodes = {} /\ PairWanted = {} /\ NodeWanted = {}
      BY DEF DictInit, UsedPairs, UsedNodes, PairWanted, NodeWanted
    <2>2. QED
      BY <2>1, DictionaryAssumption, FS_EmptySet DEF HasRoom
  <1>4. KeysUnique
    <2>1. \A p \in Linked : p \in Pairs /\ key[p] # NULL
      BY <1>1, <1>2, LinkedIs
    <2>2. QED
      BY <2>1 DEF DictInit, KeysUnique
  <1>5. \A t \in Handlers : Thread(t) /\ Passed(t)
    BY DEF DictInit, Thread, Passed
  <1>6. \E own \in Owners : Owned(own)
    <2>1. [n \in Nodes |-> NULL] \in Owners
      BY DEF Owners
    <2>2. Owned([n \in Nodes |-> NULL])
      BY DEF DictInit, Owned, OwnedThread
    <2>3. QED
      BY <2>1, <2>2
  <1>7. SettledKept
    BY DEF DictInit, SettledKept
  <1>8. QED
    BY <1>1, <1>2, <1>3, <1>4, <1>5, <1>6, <1>7 DEF IInv

LEMMA StutterIInv ==
  ASSUME IInv, UNCHANGED dictVars
  PROVE  IInv'
  <1>1. /\ first' = first /\ key' = key /\ succ' = succ /\ head' = head /\ tail' = tail
        /\ holder' = holder /\ next' = next /\ filled' = filled /\ settled' = settled
        /\ pc' = pc /\ file' = file /\ peer' = peer /\ pair' = pair
        /\ tempPair' = tempPair /\ node' = node /\ tempNode' = tempNode
    BY DEF dictVars, memory, locals
  <1>2. Linked' = Linked /\ \A p : List(p)' = List(p)
    BY <1>1, LinkedSame, ListSame
  <1>3. DictTypeOK' /\ Memory' /\ KeysUnique'
    BY <1>1, <1>2 DEF IInv, DictTypeOK, Memory, KeysUnique
  <1>4. HasRoom'
    <2>1. /\ UsedPairs' = UsedPairs /\ UsedNodes' = UsedNodes
          /\ PairWanted' = PairWanted /\ NodeWanted' = NodeWanted
      BY <1>1 DEF UsedPairs, UsedNodes, PairWanted, NodeWanted
    <2>2. QED
      BY <2>1 DEF IInv, HasRoom
  <1>5. \A t \in Handlers : Thread(t)' /\ Passed(t)'
    BY <1>1, <1>2 DEF IInv, Thread, Passed
  <1>6. \E own \in Owners : Owned(own)'
    <2>1. PICK own \in Owners : Owned(own)
      BY DEF IInv
    <2>2. Owned(own)'
      BY <1>1, <2>1 DEF Owned, OwnedThread
    <2>3. QED
      BY <2>2
  <1>7. SettledKept'
    <2>1. \A p \in Pairs, n \in Nodes : Kept(p, n) => Kept(p, n)'
      BY <1>1, <1>2 DEF Kept, Spared
    <2>2. QED
      BY <1>1, <2>1 DEF IInv, SettledKept
  <1>8. QED
    BY <1>3, <1>4, <1>5, <1>6, <1>7 DEF IInv

LEMMA NextIInv == IInv /\ [DictNext]_dictVars => IInv'
  <1> SUFFICES ASSUME IInv, [DictNext]_dictVars PROVE IInv'
    OBVIOUS
  <1>1. ASSUME NEW t \in Handlers, Begin(t) PROVE IInv'
    BY <1>1, BeginStep
  <1>2. ASSUME NEW t \in Handlers, Step(t) PROVE IInv'
    <2>1. CASE ReadSize(t)
      BY <2>1, ReadSizeStep
    <2>2. CASE Create(t)
      BY <2>2, CreateStep
    <2>3. CASE ReadFirst(t)
      BY <2>3, ReadFirstStep
    <2>4. CASE Walk(t)
      BY <2>4, WalkStep
    <2>5. CASE AppendPair(t)
      BY <2>5, AppendPairStep
    <2>6. CASE Grow(t)
      BY <2>6, GrowStep
    <2>7. CASE Found(t)
      BY <2>7, FoundStep
    <2>8. CASE NextHolder(t)
      BY <2>8, NextHolderStep
    <2>9. CASE IsHolder(t)
      BY <2>9, IsHolderStep
    <2>10. CASE ReadLast(t)
      BY <2>10, ReadLastStep
    <2>11. CASE SetLast(t)
      BY <2>11, SetLastStep
    <2>12. CASE EndSucc(t)
      BY <2>12, EndSuccStep
    <2>13. CASE LinkNode(t)
      BY <2>13, LinkNodeStep
    <2>14. QED
      BY <1>2, <2>1, <2>2, <2>3, <2>4, <2>5, <2>6, <2>7, <2>8, <2>9, <2>10, <2>11,
         <2>12, <2>13 DEF Step
  <1>3. CASE UNCHANGED dictVars
    BY <1>3, StutterIInv
  <1>4. QED
    BY <1>1, <1>2, <1>3 DEF DictNext

LEMMA SpecIInv == DictSpec => []IInv
  BY InitIInv, NextIInv, PTL DEF DictSpec

-----------------------------------------------------------------------------
\* However many handlers insert at the same time without a lock, pointers go
\* only to younger pairs and nodes, so a walk ends; what it finds has a key and
\* a holder; and no handler follows or writes through NULL
\* (dictionary.c:59-104, linked_list.c:53-76).
THEOREM AlwaysReadable == DictSpec => []Inv
  <1>1. IInv => Inv
    <2> SUFFICES ASSUME IInv PROVE Inv
      OBVIOUS
    <2>1. DictTypeOK /\ Memory
      BY DEF IInv
    <2>2. Readable
      <3>1. \A p \in Linked : p \in Pairs /\ key[p] # NULL
        BY <2>1, LinkedIs
      <3>2. QED
        BY <2>1, <3>1 DEF Memory, Readable
    <2>3. NoNull
      BY DEF IInv, Thread, NoNull
    <2>4. QED
      BY <2>1, <2>2, <2>3 DEF Inv
  <1>2. QED
    BY <1>1, SpecIInv, PTL

\* No file ever has two linked pairs: a pair that was appended behind the same
\* one, for the same file or another, is cut off by the one that comes later
\* (dictionary.c:70-86).
THEOREM NoDoubleFile == DictSpec => []KeysUnique
  <1>1. IInv => KeysUnique
    BY DEF IInv
  <1>2. QED
    BY <1>1, SpecIInv, PTL

\* What is found when nobody inserts is never lost again: the insertions that
\* run into one another cut off only what one of them has just put in
\* (dictionary.c:59-104, linked_list.c:62-71).
THEOREM SettledIsKept == DictSpec => []SettledStays
  <1>1. IInv => SettledStays
    <2> SUFFICES ASSUME IInv, NEW e \in settled PROVE e \in Entries
      BY DEF SettledStays
    <2>1. PICK p \in Pairs, n \in Nodes :
            key[p] = e[1] /\ holder[n] = e[2] /\ Kept(p, n)
      BY DEF IInv, SettledKept
    <2>2. p \in Linked /\ n \in List(p)
      BY <2>1 DEF Kept
    <2>3. holder[n] \in Holders(p)
      BY <2>2 DEF Holders, List
    <2>4. e = <<e[1], e[2]>>
      BY DEF IInv, DictTypeOK
    <2>5. e \in {key[p]} \X Holders(p)
      BY <2>1, <2>3, <2>4
    <2>6. QED
      BY <2>2, <2>5 DEF Entries
  <1>2. QED
    BY <1>1, SpecIInv, PTL
-----------------------------------------------------------------------------
(***************************************************************************)
(* FileTransfer, whose request threads look the files up in                *)
(* available_files: for any peers, files of any length, request threads    *)
(* and restarts.  The theorems about its invariants need an invariant of   *)
(* every thread and its connection.                                        *)
(***************************************************************************)
Texts == UNION {Text(f) : f \in Files}

\* The shapes of a request thread's and of a handler's state.
RequestStates ==
  [at : {"idle", "born"}]
  \cup [at : {"check", "refused", "lookup"}, file : Names]
  \cup [at : {"connect", "count"}, file : Files, src : Holder]
  \cup [at : {"words", "list"}, file : Files, src : Holder,
        left : 0 .. UINT_RANGE - 1, got : Texts, flushed : Nat]

ConnStates ==
  [at : {"none", "closed", "reset"}]
  \cup [at : {"name"}, peer : Peers, file : Files]
  \cup [at : {"rewind", "send"}, peer : Peers, file : Files, text : Texts]

Consoles ==
  /\ up \in [Peers -> BOOLEAN] /\ port \in [Peers -> Nat]
  /\ line \in [Peers -> Names] /\ filename \in [Peers -> Names]

Shapes ==
  /\ Consoles
  /\ req \in [Requests -> RequestStates] /\ conn \in [Requests -> ConnStates]
  /\ wire \in [Requests -> Seq(Nat)]

\* Whoever is said to have a file lists it, and what is listed is there.
Known ==
  /\ disk \in [Peers -> [Files -> Texts \cup {Absent}]]
  /\ \A p \in Peers, f \in Files :
       disk[p][f] # Absent => disk[p][f] \in Text(f)
  /\ listed \in [Peers -> SUBSET Files]
  /\ \A p \in Peers : \A f \in listed[p] : disk[p][f] # Absent
  /\ holders \in [Peers -> [Files -> Seq(Holder)]]
  /\ \A q \in Peers, f \in Files : \A i \in DOMAIN holders[q][f] :
       f \in listed[holders[q][f][i].peer]

\* What the handler has yet to send.
Rest(c) == IF c.at = "send" THEN Len(c.text) ELSE 0

Working(c) == c.at \in {"name", "rewind", "send"}

\* The connection is there as long as thread r needs it, and never carries more
\* words than the file has.
Session(r, q, c, w) ==
  /\ q.at = "idle" => c.at \notin {"closed", "reset"}
  /\ q.at \in {"born", "check", "refused", "lookup", "connect"} => c.at = "none"
  /\ q.at \in {"count", "words"} => c.at # "none"
  /\ q.at \notin {"count", "words", "list"} => w = << >>
  /\ q.at = "connect" => q.file \in listed[q.src.peer]
  /\ q.at \in {"words", "list"} =>
       q.got \in Text(q.file) /\ disk[Owner[r]][q.file] # Absent
  /\ Working(c) => c.file \in listed[c.peer]
  /\ c.at \in {"rewind", "send"} => c.text \in Text(c.file)
  /\ q.at \in {"count", "words"} =>
       /\ Working(c) => c.file = q.file
       /\ w \in Seq(0..Size[q.file])
  /\ q.at = "count" =>
       /\ c.at = "name" => w = << >>
       /\ c.at = "rewind" => Len(w) = 1
       /\ c.at = "send" => w # << >>
       /\ Len(w) + Rest(c) <= Size[q.file] + 1
  /\ q.at = "words" =>
       /\ c.at # "name"
       /\ c.at = "rewind" => w = << >> /\ q.got = << >>
       /\ Len(q.got) + Len(w) + Rest(c) <= Size[q.file]

Sessions == \A r \in Requests : Session(r, req[r], conn[r], wire[r])

TransferInv == Shapes /\ Known /\ Sessions

-----------------------------------------------------------------------------
(* Texts and words                                                         *)

LEMMA SizeIs ==
  ASSUME NEW f \in Files
  PROVE  /\ Size[f] \in Nat /\ Size[f] < UINT_RANGE /\ Size[f] \in 0..Size[f]
         /\ UINT_RANGE \in Nat \ {0}
  <1>1. UINT_RANGE \in Nat /\ UINT_RANGE # 0 /\ Size[f] \in 0 .. UINT_RANGE - 1
    BY FileTransferAssumption
  <1>2. QED
    BY <1>1

LEMMA TextIs ==
  ASSUME NEW f \in Files, NEW t
  PROVE  t \in Text(f) <=> t \in Seq(0..Size[f]) /\ Len(t) <= Size[f]
  <1>1. Size[f] \in Nat
    BY SizeIs
  <1>2. ASSUME t \in Text(f) PROVE t \in Seq(0..Size[f]) /\ Len(t) <= Size[f]
    <2>1. PICK n \in 0..Size[f] : t \in [1..n -> 0..Size[f]]
      BY <1>2 DEF Text
    <2>2. n \in Nat /\ n <= Size[f]
      BY <1>1, <2>1
    <2>3. t \in Seq(0..Size[f])
      BY <2>1, <2>2, SeqDef
    <2>4. Len(t) = n
      BY <2>1, <2>2
    <2>5. QED
      BY <2>2, <2>3, <2>4
  <1>3. ASSUME t \in Seq(0..Size[f]), Len(t) <= Size[f] PROVE t \in Text(f)
    <2>1. Len(t) \in Nat /\ t \in [1..Len(t) -> 0..Size[f]]
      BY <1>3, LenProperties
    <2>2. Len(t) \in 0..Size[f]
      BY <1>1, <1>3, <2>1
    <2>3. QED
      BY <2>1, <2>2 DEF Text
  <1>4. QED
    BY <1>2, <1>3

LEMMA EmptyText ==
  ASSUME NEW f \in Files
  PROVE  << >> \in Text(f)
  <1>1. << >> \in Seq(0..Size[f]) /\ Len(<< >>) = 0
    BY EmptySeq
  <1>2. Size[f] \in Nat
    BY SizeIs
  <1>3. Len(<< >>) <= Size[f]
    BY <1>1, <1>2
  <1>4. QED
    BY <1>1, <1>3, TextIs

\* What the handler has read when it has come to place n.
NextWords(text, n, words) ==
  IF text[n] = Hole THEN words
  ELSE Append(words, IF n > 1 /\ text[n - 1] = Hole THEN Hole ELSE text[n])

ReadTo(text, u, n) ==
  u = [k \in 0..n |-> IF k = 0 THEN << >> ELSE NextWords(text, k, u[k - 1])]

\* The recursion that defines Words has a solution.
LEMMA ReadToExists ==
  ASSUME NEW text, NEW n \in Nat
  PROVE  \E u : ReadTo(text, u, n)
  <1> DEFINE S == {k \in Nat : \E u : ReadTo(text, u, k)}
  <1>1. 0 \in S
    <2>1. ReadTo(text, [k \in 0..0 |-> << >>], 0)
      BY DEF ReadTo
    <2>2. QED
      BY <2>1
  <1>2. ASSUME NEW k \in Nat, k \in S PROVE k + 1 \in S
    <2>1. PICK u : ReadTo(text, u, k)
      BY <1>2
    <2>2. u = [i \in 0..k |-> IF i = 0 THEN << >> ELSE NextWords(text, i, u[i - 1])]
      BY <2>1 DEF ReadTo
    <2> DEFINE v == [i \in 0 .. k + 1 |->
                       IF i <= k THEN u[i] ELSE NextWords(text, k + 1, u[k])]
    <2>3. ASSUME NEW i \in 0 .. k + 1
          PROVE  v[i] = IF i = 0 THEN << >> ELSE NextWords(text, i, v[i - 1])
      <3>1. CASE i <= k
        <4>1. v[i] = u[i] /\ i \in 0..k
          BY <1>2, <3>1
        <4>2. i # 0 => i - 1 \in 0 .. k + 1 /\ i - 1 <= k
          BY <1>2, <3>1
        <4>3. i # 0 => v[i - 1] = u[i - 1]
          BY <4>2
        <4>4. u[i] = IF i = 0 THEN << >> ELSE NextWords(text, i, u[i - 1])
          BY <2>2, <4>1
        <4>5. QED
          BY <4>1, <4>3, <4>4
      <3>2. CASE i = k + 1
        BY <1>2, <2>2, <3>2
      <3>3. QED
        BY <1>2, <3>1, <3>2
    <2> HIDE DEF v
    <2>4. v = [i \in 0 .. k + 1 |-> v[i]]
      BY DEF v
    <2>5. ReadTo(text, v, k + 1)
      BY <2>3, <2>4 DEF ReadTo
    <2>6. QED
      BY <1>2, <2>5
  <1> HIDE DEF S
  <1>3. Nat \subseteq S
    BY <1>1, <1>2, SetInduction
  <1>4. QED
    BY <1>3 DEF S

LEMMA WordsRead ==
  ASSUME NEW text, Len(text) \in Nat
  PROVE  \E u : /\ Words(text) = u[Len(text)] /\ u[0] = << >>
                /\ \A k \in 0..Len(text) :
                     k # 0 => u[k] = NextWords(text, k, u[k - 1])
  <1> DEFINE U == CHOOSE u : ReadTo(text, u, Len(text))
  <1>1. ReadTo(text, U, Len(text))
    BY ReadToExists
  <1>2. Words(text) = U[Len(text)]
    BY DEF Words, ReadTo, NextWords
  <1> HIDE DEF U
  <1>3. U = [k \in 0..Len(text) |-> IF k = 0 THEN << >> ELSE NextWords(text, k, U[k - 1])]
    BY <1>1 DEF ReadTo
  <1>4. ASSUME NEW k \in 0..Len(text)
        PROVE  U[k] = IF k = 0 THEN << >> ELSE NextWords(text, k, U[k - 1])
    BY <1>3
  <1>5. U[0] = << >> /\ \A k \in 0..Len(text) : k # 0 => U[k] = NextWords(text, k, U[k - 1])
    BY <1>4
  <1>6. QED
    BY <1>2, <1>5

\* The words of a text are a text.
LEMMA WordsText ==
  ASSUME NEW f \in Files, NEW t \in Text(f)
  PROVE  Words(t) \in Text(f)
  <1> DEFINE V == 0..Size[f]
  <1>1. t \in Seq(V) /\ Len(t) <= Size[f] /\ Size[f] \in Nat
    BY TextIs, SizeIs
  <1>2. Len(t) \in Nat /\ t \in [1..Len(t) -> V]
    BY <1>1, LenProperties
  <1>3. Hole \in V
    BY <1>1 DEF Hole
  <1> HIDE DEF V
  <1>4. PICK u : /\ Words(t) = u[Len(t)] /\ u[0] = << >>
                 /\ \A k \in 0..Len(t) : k # 0 => u[k] = NextWords(t, k, u[k - 1])
    BY <1>2, WordsRead
  <1> DEFINE S == {k \in Nat : k <= Len(t) => u[k] \in Seq(V) /\ Len(u[k]) <= k}
  <1>5. 0 \in S
    <2>1. << >> \in Seq(V) /\ Len(<< >>) = 0
      BY EmptySeq
    <2>2. u[0] = << >>
      BY <1>4
    <2>3. u[0] \in Seq(V) /\ Len(u[0]) <= 0
      BY <2>1, <2>2
    <2>4. QED
      BY <2>3
  <1>6. ASSUME NEW k \in Nat, k \in S PROVE k + 1 \in S
    <2>1. SUFFICES ASSUME k + 1 <= Len(t)
                   PROVE  u[k + 1] \in Seq(V) /\ Len(u[k + 1]) <= k + 1
      OBVIOUS
    <2>2. k + 1 \in 0..Len(t) /\ k + 1 # 0 /\ (k + 1) - 1 = k /\ k <= Len(t)
          /\ k + 1 \in 1..Len(t)
      BY <1>2, <2>1
    <2>3. u[k] \in Seq(V) /\ Len(u[k]) <= k /\ Len(u[k]) \in Nat
      BY <1>6, <2>2, LenProperties
    <2>4. u[k + 1] = NextWords(t, k + 1, u[k])
      BY <1>4, <2>2
    <2> DEFINE x == IF k + 1 > 1 /\ t[(k + 1) - 1] = Hole THEN Hole ELSE t[k + 1]
    <2>5. x \in V
      BY <1>2, <1>3, <2>2
    <2>6. u[k + 1] = u[k] \/ u[k + 1] = Append(u[k], x)
      BY <2>4 DEF NextWords
    <2> HIDE DEF x
    <2>7. CASE u[k + 1] = u[k]
      BY <2>3, <2>7
    <2>8. CASE u[k + 1] = Append(u[k], x)
      <3>1. Append(u[k], x) \in Seq(V) /\ Len(Append(u[k], x)) = Len(u[k]) + 1
        BY <2>3, <2>5, AppendProperties
      <3>2. QED
        BY <2>3, <2>8, <3>1
    <2>9. QED
      BY <2>6, <2>7, <2>8
  <1> HIDE DEF S
  <1>7. Nat \subseteq S
    BY <1>5, <1>6, SetInduction
  <1>8. Words(t) \in Seq(V) /\ Len(Words(t)) <= Len(t) /\ Len(Words(t)) \in Nat
    BY <1>2, <1>4, <1>7, LenProperties DEF S
  <1>9. Len(Words(t)) <= Size[f]
    BY <1>1, <1>2, <1>8
  <1>10. QED
    BY <1>8, <1>9, TextIs DEF V

\* The words of a file are found again when it is read.
Upto(n) == [i \in 1..n |-> i]

LEMMA UptoIs ==
  ASSUME NEW n \in Nat
  PROVE  Upto(n) \in Seq(Nat) /\ Len(Upto(n)) = n /\ \A i \in 1..n : Upto(n)[i] = i
  <1>1. Upto(n) \in [1..n -> Nat]
    BY DEF Upto
  <1>2. Upto(n) \in Seq(Nat)
    BY <1>1, SeqDef
  <1>3. Len(Upto(n)) = n
    BY DEF Upto
  <1>4. QED
    BY <1>2, <1>3 DEF Upto

LEMMA WordsOfUpto ==
  ASSUME NEW n \in Nat
  PROVE  Words(Upto(n)) = Upto(n)
  <1>1. Len(Upto(n)) = n
    BY UptoIs
  <1>2. PICK u : /\ Words(Upto(n)) = u[n] /\ u[0] = << >>
                 /\ \A k \in 0..n : k # 0 => u[k] = NextWords(Upto(n), k, u[k - 1])
    BY <1>1, WordsRead
  <1> DEFINE S == {k \in Nat : k <= n => u[k] = Upto(k)}
  <1>3. 0 \in S
    <2>1. Upto(0) = << >>
      BY UptoIs, EmptySeq
    <2>2. QED
      BY <1>2, <2>1
  <1>4. ASSUME NEW k \in Nat, k \in S PROVE k + 1 \in S
    <2>1. SUFFICES ASSUME k + 1 <= n PROVE u[k + 1] = Upto(k + 1)
      OBVIOUS
    <2>2. k + 1 \in 0..n /\ k + 1 # 0 /\ (k + 1) - 1 = k /\ k <= n /\ k + 1 \in 1..n
          /\ (k > 0 => k \in 1..n)
      BY <2>1
    <2>3. u[k] = Upto(k)
      BY <1>4, <2>2
    <2>4. u[k + 1] = NextWords(Upto(n), k + 1, Upto(k))
      BY <1>2, <2>2, <2>3
    <2>5. Upto(n)[k + 1] = k + 1 /\ (k > 0 => Upto(n)[k] = k)
      BY <2>2, UptoIs
    <2>6. u[k + 1] = Append(Upto(k), k + 1)
      BY <2>2, <2>4, <2>5 DEF NextWords, Hole
    <2>7. Append(Upto(k), k + 1) = Upto(k + 1)
      BY DEF Upto
    <2>8. QED
      BY <2>6, <2>7
  <1> HIDE DEF S
  <1>5. Nat \subseteq S
    BY <1>3, <1>4, SetInduction
  <1>6. QED
    BY <1>2, <1>5 DEF S

LEMMA OriginalIs ==
  ASSUME NEW f \in Files
  PROVE  /\ Original(f) = Upto(Size[f]) /\ Original(f) \in Text(f)
         /\ Words(Original(f)) = Original(f)
         /\ Len(Original(f)) = Size[f]
  <1>1. Size[f] \in Nat
    BY SizeIs
  <1>2. Original(f) = Upto(Size[f])
    BY DEF Original, Upto
  <1>3. Upto(Size[f]) \in [1..Size[f] -> 0..Size[f]] /\ Size[f] \in 0..Size[f]
    BY <1>1 DEF Upto
  <1>4. Upto(Size[f]) \in Text(f)
    BY <1>3 DEF Text
  <1>5. QED
    BY <1>1, <1>2, <1>4, WordsOfUpto, UptoIs

\* What a thread has got, with one word more.
LEMMA WrittenText ==
  ASSUME NEW f \in Files, NEW t \in Text(f),
         NEW w \in 0..Size[f], Len(t) < Size[f]
  PROVE  /\ Written(t, w) \in Text(f)
         /\ Len(Written(t, w)) \in Nat /\ Len(Written(t, w)) <= Len(t) + 1
  <1>1. t \in Seq(0..Size[f]) /\ Size[f] \in Nat
    BY TextIs, SizeIs
  <1>2. Len(t) \in Nat
    BY <1>1, LenProperties
  <1>3. CASE w = Hole
    BY <1>2, <1>3 DEF Written
  <1>4. CASE w # Hole
    <2>1. Written(t, w) = Append(t, w)
      BY <1>4 DEF Written
    <2>2. Append(t, w) \in Seq(0..Size[f]) /\ Len(Append(t, w)) = Len(t) + 1
      BY <1>1, AppendProperties
    <2>3. Len(Append(t, w)) <= Size[f]
      BY <1>1, <1>2, <2>2
    <2>4. Append(t, w) \in Text(f)
      BY <2>2, <2>3, TextIs
    <2>5. QED
      BY <1>2, <2>1, <2>2, <2>4
  <1>5. QED
    BY <1>3, <1>4

\* What is on the disk when the stream is flushed.
LEMMA FlushText ==
  ASSUME NEW f \in Files, NEW t \in Text(f),
         NEW words \in Text(f), NEW n \in Nat
  PROVE  Flush(t, n, words) \in Text(f)
  <1> DEFINE V == 0..Size[f]
             m == IF Len(words) > Len(t) /\ Len(words) > n THEN Len(words) ELSE Len(t)
  <1>1. /\ t \in Seq(V) /\ Len(t) <= Size[f] /\ words \in Seq(V)
        /\ Len(words) <= Size[f] /\ Size[f] \in Nat
    BY TextIs, SizeIs
  <1>2. /\ Len(t) \in Nat /\ t \in [1..Len(t) -> V]
        /\ Len(words) \in Nat /\ words \in [1..Len(words) -> V]
    BY <1>1, LenProperties
  <1>3. Hole \in V /\ m \in 0..Size[f]
    BY <1>1, <1>2 DEF Hole
  <1> DEFINE e(i) == IF i \in n + 1 .. Len(words) THEN words[i]
                     ELSE IF i <= Len(t) THEN t[i] ELSE Hole
  <1>4. Flush(t, n, words) = [i \in 1..m |-> e(i)]
    BY DEF Flush
  <1>5. ASSUME NEW i \in 1..m PROVE e(i) \in V
    <2>1. i \in Nat /\ 1 <= i
      BY <1>3
    <2>2. i \in n + 1 .. Len(words) => i \in 1..Len(words)
      BY <1>2, <2>1
    <2>3. i <= Len(t) => i \in 1..Len(t)
      BY <1>2, <2>1
    <2> HIDE DEF V
    <2>4. QED
      BY <1>2, <1>3, <2>2, <2>3
  <1> HIDE DEF e, m
  <1>6. [i \in 1..m |-> e(i)] \in [1..m -> V]
    BY <1>5
  <1>7. QED
    BY <1>3, <1>4, <1>6 DEF Text

-----------------------------------------------------------------------------
(* A step of one thread or of its handler                                  *)

StoreGrows ==
  /\ \A p \in Peers : listed[p] \subseteq listed'[p]
  /\ \A p \in Peers, f \in Files : disk[p][f] # Absent => disk'[p][f] # Absent

LEMMA SessionStays ==
  ASSUME StoreGrows, NEW r \in Requests,
         NEW q \in RequestStates, NEW c \in ConnStates, NEW w,
         Session(r, q, c, w)
  PROVE  Session(r, q, c, w)'
  <1>1. Owner[r] \in Peers
    BY FileTransferAssumption
  <1>2. q.at = "connect" => q.file \in Files /\ q.src.peer \in Peers
    BY DEF RequestStates, Holder
  <1>3. q.at \in {"words", "list"} => q.file \in Files
    BY DEF RequestStates
  <1>4. Working(c) => c.peer \in Peers
    BY DEF ConnStates, Working
  <1>5. q.at = "connect" => q.file \in listed'[q.src.peer]
    BY <1>2 DEF Session, StoreGrows
  <1>6. q.at \in {"words", "list"} => disk'[Owner[r]][q.file] # Absent
    BY <1>1, <1>3 DEF Session, StoreGrows
  <1>7. Working(c) => c.file \in listed'[c.peer]
    BY <1>4 DEF Session, StoreGrows
  <1>8. QED
    BY <1>5, <1>6, <1>7 DEF Session

\* Thread r, its connection or its handler has moved.
Moves(r, q, c, w) ==
  /\ req' = [req EXCEPT ![r] = q] /\ conn' = [conn EXCEPT ![r] = c]
  /\ wire' = [wire EXCEPT ![r] = w]

LEMMA MoveKeeps ==
  ASSUME TransferInv, StoreGrows, Known', Consoles',
         NEW r \in Requests, NEW q \in RequestStates, NEW c \in ConnStates,
         NEW w \in Seq(Nat), Moves(r, q, c, w), Session(r, q, c, w)'
  PROVE  TransferInv'
  <1>1. req' \in [Requests -> RequestStates] /\ req'[r] = q
        /\ \A s \in Requests : s # r => req'[s] = req[s]
    BY DEF TransferInv, Shapes, Moves
  <1>2. conn' \in [Requests -> ConnStates] /\ conn'[r] = c
        /\ \A s \in Requests : s # r => conn'[s] = conn[s]
    BY DEF TransferInv, Shapes, Moves
  <1>3. wire' \in [Requests -> Seq(Nat)] /\ wire'[r] = w
        /\ \A s \in Requests : s # r => wire'[s] = wire[s]
    BY DEF TransferInv, Shapes, Moves
  <1>4. Shapes'
    BY <1>1, <1>2, <1>3 DEF TransferInv, Shapes
  <1>5. ASSUME NEW s \in Requests
        PROVE  Session(s, req[s], conn[s], wire[s])'
    <2>1. CASE s = r
      BY <1>1, <1>2, <1>3, <2>1 DEF Session
    <2>2. CASE s # r
      <3>1. PICK a \in RequestStates, b \in ConnStates, x \in Seq(Nat) :
              a = req[s] /\ b = conn[s] /\ x = wire[s]
        BY DEF TransferInv, Shapes
      <3>2. Session(s, a, b, x)
        BY <3>1 DEF TransferInv, Sessions
      <3>3. Session(s, a, b, x)'
        BY <3>2, SessionStays
      <3>4. req'[s] = a /\ conn'[s] = b /\ wire'[s] = x
        BY <1>1, <1>2, <1>3, <2>2, <3>1
      <3>5. QED
        BY <3>3, <3>4 DEF Session
    <2>3. QED
      BY <2>1, <2>2
  <1>6. QED
    BY <1>4, <1>5 DEF TransferInv, Sessions

\* The same, when the disks and the lists stay as they are.
LEMMA MoveOnly ==
  ASSUME TransferInv,
         UNCHANGED <<up, port, holders, disk, listed, line, filename>>,
         NEW r \in Requests, NEW q \in RequestStates, NEW c \in ConnStates,
         NEW w \in Seq(Nat), Moves(r, q, c, w), Session(r, q, c, w)
  PROVE  TransferInv'
  <1>1. Known'
    BY DEF TransferInv, Known
  <1>2. StoreGrows
    BY DEF StoreGrows
  <1>3. Session(r, q, c, w)'
    BY <1>2, SessionStays
  <1>4. Consoles'
    BY DEF TransferInv, Shapes, Consoles
  <1>5. QED
    BY <1>1, <1>2, <1>3, <1>4, MoveKeeps

\* What is known of a thread when it moves.
LEMMA ThreadIs ==
  ASSUME TransferInv, NEW r \in Requests
  PROVE  /\ req[r] \in RequestStates /\ conn[r] \in ConnStates
         /\ wire[r] \in Seq(Nat) /\ Session(r, req[r], conn[r], wire[r])
         /\ Owner[r] \in Peers
         /\ [req EXCEPT ![r] = req[r]] = req /\ [conn EXCEPT ![r] = conn[r]] = conn
         /\ [wire EXCEPT ![r] = wire[r]] = wire
  BY FileTransferAssumption DEF TransferInv, Shapes, Sessions

LEMMA NoneIs ==
  /\ NoRequest \in RequestStates /\ NoRequest.at = "idle"
  /\ NoConn \in ConnStates /\ NoConn.at = "none"
  /\ << >> \in Seq(Nat)
  /\ \A q \in RequestStates : q.at = "idle" <=> q = NoRequest
  /\ \A c \in ConnStates : c.at = "none" <=> c = NoConn
  <1>1. NoRequest \in RequestStates /\ NoRequest.at = "idle"
    BY DEF NoRequest, RequestStates
  <1>2. NoConn \in ConnStates /\ NoConn.at = "none"
    BY DEF NoConn, ConnStates
  <1>3. \A q \in RequestStates : q.at = "idle" => q = NoRequest
    BY DEF NoRequest, RequestStates
  <1>4. \A c \in ConnStates : c.at = "none" => c = NoConn
    BY DEF NoConn, ConnStates
  <1>5. QED
    BY <1>1, <1>2, <1>3, <1>4, EmptySeq

LEMMA LeaveKeeps ==
  ASSUME TransferInv, NEW r \in Requests, Leave(r),
         StoreGrows, Known', UNCHANGED <<up, port, line, filename>>
  PROVE  TransferInv'
  <1> DEFINE d == IF conn[r].at \in {"closed", "reset"} THEN NoConn ELSE conn[r]
  <1>1. d \in ConnStates
    BY NoneIs, ThreadIs
  <1>2. PICK c \in ConnStates : c = d
    BY <1>1
  <1>3. Moves(r, NoRequest, c, << >>)
    BY <1>2 DEF Leave, Moves
  <1>4. c.at \notin {"closed", "reset"}
    BY <1>2, NoneIs
  <1>5. /\ Working(c) => c.file \in listed[c.peer]
        /\ c.at \in {"rewind", "send"} => c.text \in Text(c.file)
    <2>1. CASE c = conn[r]
      BY <2>1, ThreadIs DEF Session
    <2>2. CASE c = NoConn
      BY <2>2, NoneIs DEF Working
    <2>3. QED
      BY <1>2, <2>1, <2>2
  <1>6. Session(r, NoRequest, c, << >>)
    BY <1>4, <1>5, NoneIs DEF Session
  <1>7. PICK q \in RequestStates, w \in Seq(Nat) : q = NoRequest /\ w = << >>
    BY NoneIs
  <1>8. Session(r, q, c, w)'
    BY <1>6, <1>7, SessionStays
  <1>9. Consoles'
    BY DEF TransferInv, Shapes, Consoles
  <1>10. QED
    BY <1>3, <1>7, <1>8, <1>9, MoveKeeps

LEMMA AskKeeps ==
  ASSUME TransferInv, NEW r \in Requests,
         CopyName(r) \/ Check(r) \/ Lookup(r) \/ Connect(r)
  PROVE  TransferInv'
  <1> USE DEF peerVars, storeVars, consoleVars, netVars
  <1>1. /\ req[r] \in RequestStates /\ conn[r] \in ConnStates /\ wire[r] \in Seq(Nat)
        /\ Session(r, req[r], conn[r], wire[r]) /\ Owner[r] \in Peers
        /\ [conn EXCEPT ![r] = conn[r]] = conn /\ [wire EXCEPT ![r] = wire[r]] = wire
    BY ThreadIs
  <1>2. CASE CopyName(r)
    <2> DEFINE q == [at |-> "check", file |-> filename[Owner[r]]]
    <2>1. Moves(r, q, conn[r], wire[r])
      BY <1>1, <1>2 DEF CopyName, Moves
    <2>2. q \in RequestStates
      BY <1>1 DEF RequestStates, TransferInv, Shapes, Consoles
    <2>3. Session(r, q, conn[r], wire[r])
      BY <1>1, <1>2 DEF CopyName, Session, Working
    <2>4. UNCHANGED <<up, port, holders, disk, listed, line, filename>>
      BY <1>2 DEF CopyName
    <2> HIDE DEF q
    <2>5. QED
      BY <1>1, <2>1, <2>2, <2>3, <2>4, MoveOnly
  <1>3. CASE Check(r)
    <2>1. req[r].at = "check" /\ req[r].file \in Names
          /\ req[r] = [at |-> "check", file |-> req[r].file]
      BY <1>1, <1>3 DEF Check, RequestStates
    <2>2. PICK x \in {"refused", "lookup"} : req' = [req EXCEPT ![r].at = x]
      BY <1>3 DEF Check
    <2> DEFINE q == [at |-> x, file |-> req[r].file]
    <2>3. q \in RequestStates
      BY <2>1 DEF RequestStates
    <2>4. [req[r] EXCEPT !.at = x] = q
      BY <2>1
    <2>5. Moves(r, q, conn[r], wire[r])
      BY <1>1, <1>3, <2>2, <2>4 DEF Check, Moves
    <2>6. Session(r, q, conn[r], wire[r])
      BY <1>1, <2>1 DEF Session, Working
    <2>7. UNCHANGED <<up, port, holders, disk, listed, line, filename>>
      BY <1>3 DEF Check
    <2> HIDE DEF q
    <2>8. QED
      BY <1>1, <2>3, <2>5, <2>6, <2>7, MoveOnly
  <1>4. CASE Lookup(r)
    <2> DEFINE f == req[r].file
               hs == HoldersOf(Owner[r], f)
    <2>1. req[r].at = "lookup" /\ f \in Names /\ hs # << >>
      BY <1>1, <1>4 DEF Lookup, RequestStates
    <2>3. f \in Files /\ hs = holders[Owner[r]][f]
      BY <2>1 DEF HoldersOf, Names
    <2>4. hs \in Seq(Holder)
      BY <1>1, <2>3 DEF TransferInv, Known
    <2>5. Head(hs) \in Holder /\ Head(hs) = hs[1] /\ 1 \in DOMAIN hs
      BY <2>1, <2>4
    <2>6. f \in listed[Head(hs).peer]
      BY <1>1, <2>3, <2>5 DEF TransferInv, Known
    <2> DEFINE q == [at |-> "connect", file |-> f, src |-> Head(hs)]
    <2>7. q \in RequestStates
      BY <2>3, <2>5 DEF RequestStates
    <2>8. Moves(r, q, conn[r], wire[r])
      BY <1>1, <1>4 DEF Lookup, Moves
    <2>9. Session(r, q, conn[r], wire[r])
      BY <1>1, <2>1, <2>6 DEF Session, Working
    <2>10. UNCHANGED <<up, port, holders, disk, listed, line, filename>>
      BY <1>4 DEF Lookup
    <2> HIDE DEF q
    <2>11. QED
      BY <1>1, <2>7, <2>8, <2>9, <2>10, MoveOnly
  <1>5. CASE Connect(r)
    <2> DEFINE s == req[r].src
               f == req[r].file
    <2>1. req[r].at = "connect" /\ s \in Holder /\ f \in Files
          /\ req[r] = [at |-> "connect", file |-> f, src |-> s]
      BY <1>1, <1>5 DEF Connect, RequestStates
    <2>2. s.peer \in Peers
      BY <2>1 DEF Holder
    <2> DEFINE q == [at |-> "count", file |-> f, src |-> s]
               c == [at |-> "name", peer |-> s.peer, file |-> f]
    <2>3. q \in RequestStates /\ c \in ConnStates
      BY <2>1, <2>2 DEF RequestStates, ConnStates
    <2>4. [req[r] EXCEPT !.at = "count"] = q
      BY <2>1
    <2>5. Moves(r, q, c, wire[r])
      BY <1>1, <1>5, <2>4 DEF Connect, Moves
    <2>6. wire[r] = << >> /\ f \in listed[s.peer]
      BY <1>1, <2>1 DEF Session
    <2>7. Size[f] \in Nat /\ Len(<< >>) = 0 /\ << >> \in Seq(0..Size[f])
      BY <2>1, SizeIs, EmptySeq
    <2>8. Session(r, q, c, wire[r])
      BY <2>6, <2>7 DEF Session, Working, Rest
    <2>9. UNCHANGED <<up, port, holders, disk, listed, line, filename>>
      BY <1>5 DEF Connect
    <2> HIDE DEF q, c
    <2>10. QED
      BY <1>1, <2>3, <2>5, <2>8, <2>9, MoveOnly
  <1>6. QED
    BY <1>2, <1>3, <1>4, <1>5

LEMMA LeavingKeeps ==
  ASSUME TransferInv, NEW r \in Requests,
         Refuse(r) \/ NotFound(r) \/ ConnectFails(r) \/ RecvEnd(r)
           \/ RecvFails(r)
  PROVE  TransferInv'
  <1>1. Leave(r) /\ UNCHANGED <<up, port, holders, disk, listed, line, filename>>
    BY DEF Refuse, NotFound, ConnectFails, RecvEnd, RecvFails,
           peerVars, storeVars, consoleVars
  <1>2. Known' /\ StoreGrows
    BY <1>1 DEF TransferInv, Known, StoreGrows
  <1>3. QED
    BY <1>1, <1>2, LeaveKeeps

\* What the handler sends reaches a thread that is still there.
LEMMA SendIs ==
  ASSUME NEW r \in Requests, NEW item, Send(r, item), wire = [s \in Requests |-> wire[s]]
  PROVE  wire' = [wire EXCEPT ![r] = IF Gone(r) THEN wire[r] ELSE Append(wire[r], item)]
  BY DEF Send

LEMMA EmptyLen ==
  ASSUME NEW S, NEW w \in Seq(S)
  PROVE  Len(w) \in Nat /\ (w = << >> <=> Len(w) = 0)
  <1>1. Len(w) \in Nat /\ w \in [1..Len(w) -> S]
    BY LenProperties
  <1>2. w # << >> => Len(w) # 0
    BY EmptySeq
  <1>3. ASSUME w = << >> PROVE Len(w) = 0
    BY <1>3
  <1>4. QED
    BY <1>1, <1>2, <1>3

LEMMA AppendWire ==
  ASSUME NEW N \in Nat, NEW w \in Seq(0..N), NEW item \in 0..N
  PROVE  /\ Append(w, item) \in Seq(0..N) /\ Append(w, item) \in Seq(Nat)
         /\ Len(Append(w, item)) = Len(w) + 1 /\ Len(w) \in Nat
         /\ Append(w, item) # << >>
  <1>1. Append(w, item) \in Seq(0..N)
    BY AppendProperties
  <1>2. 0..N \subseteq Nat
    OBVIOUS
  <1>3. Append(w, item) \in Seq(Nat)
    BY <1>1, <1>2, SeqMonotonic
  <1>4. QED
    BY <1>1, <1>3, AppendProperties, LenProperties

\* What thread r still waits for, when its handler is at work.
LEMMA SentTo ==
  ASSUME TransferInv, NEW r \in Requests, Working(conn[r])
  PROVE  /\ conn[r].peer \in Peers /\ conn[r].file \in Files
         /\ disk[conn[r].peer][conn[r].file] # Absent
         /\ disk[conn[r].peer][conn[r].file] \in Text(conn[r].file)
         /\ Words(disk[conn[r].peer][conn[r].file]) \in Text(conn[r].file)
         /\ req[r].at \in {"idle", "count", "words", "list"}
         /\ req[r].at \in {"count", "words"} => req[r].file = conn[r].file
         /\ req[r].at \in {"count", "words", "list"} => req[r] # NoRequest
  <1>1. /\ req[r] \in RequestStates /\ conn[r] \in ConnStates
        /\ Session(r, req[r], conn[r], wire[r])
    BY ThreadIs
  <1>2. conn[r].peer \in Peers /\ conn[r].file \in Files /\ conn[r].at # "none"
    BY <1>1 DEF ConnStates, Working
  <1>3. conn[r].file \in listed[conn[r].peer]
    BY <1>1 DEF Session
  <1>4. /\ disk[conn[r].peer][conn[r].file] # Absent
        /\ disk[conn[r].peer][conn[r].file] \in Text(conn[r].file)
    BY <1>2, <1>3 DEF TransferInv, Known
  <1>5. req[r].at \in {"idle", "count", "words", "list"}
    <2>1. req[r].at \in {"idle", "born", "check", "refused", "lookup", "connect",
                         "count", "words", "list"}
      BY <1>1 DEF RequestStates
    <2>2. QED
      BY <1>1, <1>2, <2>1 DEF Session
  <1>6. req[r].at \in {"count", "words"} => req[r].file = conn[r].file
    BY <1>1 DEF Session
  <1>7. req[r].at \in {"count", "words", "list"} => req[r] # NoRequest
    BY NoneIs
  <1>8. Words(disk[conn[r].peer][conn[r].file]) \in Text(conn[r].file)
    BY <1>2, <1>4, WordsText
  <1>9. QED
    BY <1>2, <1>4, <1>5, <1>6, <1>7, <1>8

LEMMA CountKeeps ==
  ASSUME TransferInv, NEW r \in Requests, HandlerCount(r)
  PROVE  TransferInv'
  <1> DEFINE f == conn[r].file
             text == Words(disk[conn[r].peer][f])
             c == [at |-> "rewind", peer |-> conn[r].peer, file |-> f, text |-> text]
             w == IF Gone(r) THEN wire[r] ELSE Append(wire[r], Len(text))
  <1>1. /\ req[r] \in RequestStates /\ conn[r] \in ConnStates /\ wire[r] \in Seq(Nat)
        /\ Session(r, req[r], conn[r], wire[r])
        /\ [req EXCEPT ![r] = req[r]] = req
    BY ThreadIs
  <1>2. conn[r].at = "name" /\ Working(conn[r])
    BY DEF HandlerCount, Working
  <1>3. /\ conn[r].peer \in Peers /\ f \in Files /\ text \in Text(f)
        /\ req[r].at \in {"idle", "count", "words", "list"}
        /\ req[r].at \in {"count", "words"} => req[r].file = f
        /\ req[r].at \in {"count", "words", "list"} => req[r] # NoRequest
    BY <1>2, SentTo
  <1>4. wire' = [wire EXCEPT ![r] = w]
    <2>1. Send(r, Len(text)) /\ wire = [s \in Requests |-> wire[s]]
      BY DEF HandlerCount, TransferInv, Shapes
    <2> HIDE DEF text
    <2>2. QED
      BY <2>1, SendIs
  <1>5. Moves(r, req[r], c, w)
    BY <1>1, <1>4 DEF HandlerCount, Moves
  <1>6. text \in Seq(0..Size[f]) /\ Len(text) <= Size[f] /\ Size[f] \in Nat
    <2> HIDE DEF text
    <2>1. QED
      BY <1>3, TextIs, SizeIs
  <1>7. Len(text) \in Nat /\ Len(text) \in 0..Size[f]
    <2> HIDE DEF text
    <2>1. Len(text) \in Nat
      BY <1>6, LenProperties
    <2>2. QED
      BY <1>6, <2>1
  <1>8. c \in ConnStates
    <2> HIDE DEF text
    <2>1. QED
      BY <1>3 DEF ConnStates, Texts
  <1>9. f \in listed[conn[r].peer]
    BY <1>1, <1>2 DEF Session
  <1>10. UNCHANGED <<up, port, holders, disk, listed, line, filename>>
    BY DEF HandlerCount, peerVars, storeVars, consoleVars
  <1>11. c.at = "rewind" /\ c.file = f /\ c.peer = conn[r].peer /\ c.text = text
    OBVIOUS
  <1> HIDE DEF c, text
  <1>12. w \in Seq(Nat)
    <2>1. Append(wire[r], Len(text)) \in Seq(Nat)
      BY <1>1, <1>7, AppendProperties
    <2>2. QED
      BY <1>1, <2>1
  <1>13. req[r].at = "idle" => w = << >>
    BY <1>1, NoneIs DEF Session, Gone
  <1>14. req[r].at = "count" =>
           w \in Seq(0..Size[f]) /\ Len(w) = 1
    <2>1. SUFFICES ASSUME req[r].at = "count" PROVE w \in Seq(0..Size[f]) /\ Len(w) = 1
      OBVIOUS
    <2>2. wire[r] = << >> /\ w = Append(wire[r], Len(text))
      BY <1>1, <1>2, <1>3, <2>1 DEF Session, Gone
    <2>3. << >> \in Seq(0..Size[f]) /\ Len(<< >>) = 0
      BY EmptySeq
    <2>4. wire[r] \in Seq(0..Size[f]) /\ Len(wire[r]) = 0
      BY <2>2, <2>3
    <2>5. /\ Append(wire[r], Len(text)) \in Seq(0..Size[f])
          /\ Len(Append(wire[r], Len(text))) = Len(wire[r]) + 1
      BY <1>6, <1>7, <2>4, AppendWire
    <2> HIDE DEF w
    <2>6. QED
      BY <2>2, <2>4, <2>5
  <1> HIDE DEF w
  <1>15. Session(r, req[r], c, w)
    <2>1. req[r].at # "words"
      BY <1>1, <1>2 DEF Session
    <2>2. CASE req[r].at = "idle"
      BY <1>1, <1>3, <1>9, <1>11, <1>13, <2>2 DEF Session, Working
    <2>3. CASE req[r].at = "count"
      <3>1. w \in Seq(0..Size[f]) /\ Len(w) = 1 /\ Rest(c) = 0
        BY <1>11, <1>14, <2>3 DEF Rest
      <3>2. Len(w) + Rest(c) <= Size[f] + 1
        BY <1>6, <3>1
      <3>3. QED
        BY <1>3, <1>9, <1>11, <2>3, <3>1, <3>2 DEF Session, Working
    <2>4. CASE req[r].at = "list"
      BY <1>1, <1>3, <1>9, <1>11, <2>4 DEF Session, Working
    <2>5. QED
      BY <1>3, <2>1, <2>2, <2>3, <2>4
  <1>16. QED
    BY <1>1, <1>5, <1>8, <1>10, <1>12, <1>15, MoveOnly

\* What the second pass reads is what is sent.
LEMMA RewindMoves ==
  ASSUME TransferInv, NEW r \in Requests, HandlerRewind(r)
  PROVE  LET f == conn[r].file
         IN  \E text \in {conn[r].text, Words(disk[conn[r].peer][f])} :
               Moves(r, req[r], [at |-> "send", peer |-> conn[r].peer, file |-> f,
                                 text |-> text], wire[r])
  <1> DEFINE f == conn[r].file
  <1>1. /\ conn[r] \in ConnStates /\ conn[r].at = "rewind"
        /\ [req EXCEPT ![r] = req[r]] = req /\ [wire EXCEPT ![r] = wire[r]] = wire
    BY ThreadIs DEF HandlerRewind
  <1>2. PICK text \in {conn[r].text, Words(disk[conn[r].peer][f])} :
          conn' = [conn EXCEPT ![r].at = "send", ![r].text = text]
    BY DEF HandlerRewind
  <1> DEFINE c == [at |-> "send", peer |-> conn[r].peer, file |-> f, text |-> text]
  <1>3. [conn[r] EXCEPT !.at = "send", !.text = text] = c
    <2>1. conn[r] \in [at : {"rewind", "send"}, peer : Peers, file : Files, text : Texts]
      BY <1>1 DEF ConnStates
    <2>2. PICK p \in Peers, g \in Files, t \in Texts :
            conn[r] = [at |-> "rewind", peer |-> p, file |-> g, text |-> t]
      BY <1>1, <2>1
    <2>3. [[at |-> "rewind", peer |-> p, file |-> g, text |-> t] EXCEPT !.at = "send"]
            = [at |-> "send", peer |-> p, file |-> g, text |-> t]
      OBVIOUS
    <2>4. [[at |-> "send", peer |-> p, file |-> g, text |-> t] EXCEPT !.text = text]
            = [at |-> "send", peer |-> p, file |-> g, text |-> text]
      OBVIOUS
    <2>5. p = conn[r].peer /\ g = f
      BY <2>2
    <2> HIDE DEF f
    <2>6. [[conn[r] EXCEPT !.at = "send"] EXCEPT !.text = text] = c
      BY <2>2, <2>3, <2>4, <2>5
    <2>7. QED
      BY <2>6
  <1>4. Moves(r, req[r], c, wire[r])
    BY <1>1, <1>2, <1>3 DEF HandlerRewind, Moves
  <1> HIDE DEF c
  <1>5. QED
    BY <1>2, <1>4 DEF c

LEMMA RewindKeeps ==
  ASSUME TransferInv, NEW r \in Requests, HandlerRewind(r)
  PROVE  TransferInv'
  <1> DEFINE f == conn[r].file
  <1>1. /\ req[r] \in RequestStates /\ conn[r] \in ConnStates /\ wire[r] \in Seq(Nat)
        /\ Session(r, req[r], conn[r], wire[r])
        /\ [req EXCEPT ![r] = req[r]] = req /\ [wire EXCEPT ![r] = wire[r]] = wire
    BY ThreadIs
  <1>2. conn[r].at = "rewind" /\ Working(conn[r])
    BY DEF HandlerRewind, Working
  <1>3. /\ conn[r].peer \in Peers /\ f \in Files
        /\ Words(disk[conn[r].peer][f]) \in Text(f)
        /\ req[r].at \in {"idle", "count", "words", "list"}
        /\ req[r].at \in {"count", "words"} => req[r].file = f
    BY <1>2, SentTo
  <1>4. PICK text \in {conn[r].text, Words(disk[conn[r].peer][f])} :
          Moves(r, req[r], [at |-> "send", peer |-> conn[r].peer, file |-> f,
                            text |-> text], wire[r])
    BY RewindMoves
  <1>5. text \in Text(f)
    BY <1>1, <1>2, <1>3 DEF Session
  <1> DEFINE c == [at |-> "send", peer |-> conn[r].peer, file |-> f, text |-> text]
  <1>6. c \in ConnStates
    BY <1>3, <1>5 DEF ConnStates, Texts
  <1>8. Moves(r, req[r], c, wire[r])
    BY <1>4
  <1>9. text \in Seq(0..Size[f]) /\ Len(text) <= Size[f] /\ Size[f] \in Nat
    BY <1>3, <1>5, TextIs, SizeIs
  <1>10. Len(text) \in Nat
    BY <1>9, LenProperties
  <1>11. f \in listed[conn[r].peer]
    BY <1>1, <1>2 DEF Session
  <1>12. UNCHANGED <<up, port, holders, disk, listed, line, filename>>
    BY DEF HandlerRewind, peerVars, storeVars, consoleVars
  <1>13. c.at = "send" /\ c.file = f /\ c.peer = conn[r].peer /\ c.text = text
    OBVIOUS
  <1> HIDE DEF c
  <1>14. Session(r, req[r], c, wire[r])
    <2>1. CASE req[r].at = "idle"
      BY <1>1, <1>5, <1>11, <1>13, <2>1 DEF Session, Working
    <2>2. CASE req[r].at = "count"
      <3>1. Len(wire[r]) = 1 /\ wire[r] \in Seq(0..Size[f])
        BY <1>1, <1>2, <1>3, <2>2 DEF Session
      <3>2. wire[r] = << >> <=> Len(wire[r]) = 0
        BY <1>1, EmptyLen
      <3>3. Len(wire[r]) + Len(text) <= Size[f] + 1
        BY <1>9, <1>10, <3>1
      <3>4. QED
        BY <1>3, <1>5, <1>11, <1>13, <2>2, <3>1, <3>2, <3>3
           DEF Session, Working, Rest
    <2>3. CASE req[r].at = "words"
      <3>1. /\ wire[r] = << >> /\ req[r].got = << >> /\ wire[r] \in Seq(0..Size[f])
            /\ req[r].got \in Text(req[r].file)
            /\ disk[Owner[r]][req[r].file] # Absent
        BY <1>1, <1>2, <1>3, <2>3 DEF Session
      <3>2. Len(wire[r]) = 0 /\ Len(req[r].got) = 0
        BY <3>1, EmptySeq
      <3>3. Len(req[r].got) + Len(wire[r]) + Len(text) <= Size[f]
        BY <1>9, <1>10, <3>2
      <3>4. QED
        BY <1>3, <1>5, <1>11, <1>13, <2>3, <3>1, <3>3 DEF Session, Working, Rest
    <2>4. CASE req[r].at = "list"
      BY <1>1, <1>5, <1>11, <1>13, <2>4 DEF Session, Working
    <2>5. QED
      BY <1>3, <2>1, <2>2, <2>3, <2>4
  <1>15. QED
    BY <1>1, <1>6, <1>8, <1>12, <1>14, MoveOnly

LEMMA TailWire ==
  ASSUME NEW S, NEW w \in Seq(S), w # << >>
  PROVE  /\ Head(w) \in S /\ Head(w) = w[1] /\ Tail(w) \in Seq(S)
         /\ Len(Tail(w)) \in Nat /\ Len(w) = Len(Tail(w)) + 1
         /\ \A i \in 1..Len(Tail(w)) : Tail(w)[i] = w[i + 1]
  <1>1. Len(w) \in Nat \ {0}
    BY EmptySeq
  <1>2. /\ Tail(w) \in Seq(S) /\ Len(Tail(w)) = Len(w) - 1
        /\ \A i \in 1..Len(Tail(w)) : Tail(w)[i] = w[i + 1]
    BY HeadTailProperties
  <1>3. Head(w) = w[1] /\ Head(w) \in S
    BY HeadTailProperties
  <1>4. QED
    BY <1>1, <1>2, <1>3

\* The next word goes to the thread that waits for it.
LEMMA SendMoves ==
  ASSUME TransferInv, NEW r \in Requests, HandlerSend(r)
  PROVE  \E p \in Peers, f \in Files, text \in Texts :
           /\ conn[r] = [at |-> "send", peer |-> p, file |-> f, text |-> text]
           /\ Moves(r, req[r],
                    [at |-> "send", peer |-> p, file |-> f, text |-> Tail(text)],
                    IF Gone(r) THEN wire[r] ELSE Append(wire[r], Head(text)))
  <1>1. /\ conn[r] \in ConnStates /\ conn[r].at = "send"
        /\ [req EXCEPT ![r] = req[r]] = req
    BY ThreadIs DEF HandlerSend
  <1>2. PICK p \in Peers, f \in Files, text \in Texts :
          conn[r] = [at |-> "send", peer |-> p, file |-> f, text |-> text]
    <2>1. conn[r] \in [at : {"rewind", "send"}, peer : Peers, file : Files, text : Texts]
      BY <1>1 DEF ConnStates
    <2>2. QED
      BY <1>1, <2>1
  <1>3. conn[r].text = text
    BY <1>2
  <1> DEFINE rest == Tail(text)
             item == Head(text)
             c == [at |-> "send", peer |-> p, file |-> f, text |-> rest]
             w == IF Gone(r) THEN wire[r] ELSE Append(wire[r], item)
  <1>4. [conn[r] EXCEPT !.text = Tail(@)] = c
    <2>1. rest = Tail(conn[r].text)
      BY <1>3
    <2> HIDE DEF rest
    <2>2. [[at |-> "send", peer |-> p, file |-> f, text |-> text] EXCEPT !.text = rest] = c
      OBVIOUS
    <2> HIDE DEF c
    <2>3. QED
      BY <1>2, <2>1, <2>2
  <1>5. conn' = [conn EXCEPT ![r] = c]
    BY <1>4 DEF HandlerSend
  <1>6. wire' = [wire EXCEPT ![r] = w]
    <2>1. Send(r, item) /\ wire = [s \in Requests |-> wire[s]]
      BY <1>3 DEF HandlerSend, TransferInv, Shapes
    <2> HIDE DEF item
    <2>2. QED
      BY <2>1, SendIs
  <1>7. Moves(r, req[r], c, w)
    BY <1>1, <1>5, <1>6 DEF HandlerSend, Moves
  <1>8. QED
    BY <1>2, <1>7

LEMMA SendKeeps ==
  ASSUME TransferInv, NEW r \in Requests, HandlerSend(r)
  PROVE  TransferInv'
  <1>1. /\ req[r] \in RequestStates /\ conn[r] \in ConnStates /\ wire[r] \in Seq(Nat)
        /\ Session(r, req[r], conn[r], wire[r])
        /\ [req EXCEPT ![r] = req[r]] = req
    BY ThreadIs
  <1>2. conn[r].at = "send" /\ Working(conn[r]) /\ conn[r].text # << >>
    BY DEF HandlerSend, Working
  <1>3. PICK p \in Peers, f \in Files, text \in Texts :
          /\ conn[r] = [at |-> "send", peer |-> p, file |-> f, text |-> text]
          /\ Moves(r, req[r],
                   [at |-> "send", peer |-> p, file |-> f, text |-> Tail(text)],
                   IF Gone(r) THEN wire[r] ELSE Append(wire[r], Head(text)))
    BY SendMoves
  <1>4. conn[r].file = f /\ conn[r].peer = p /\ conn[r].text = text
    BY <1>3
  <1>5. /\ req[r].at \in {"idle", "count", "words", "list"}
        /\ req[r].at \in {"count", "words"} => req[r].file = f
        /\ req[r].at \in {"count", "words", "list"} => req[r] # NoRequest
    BY <1>2, <1>4, SentTo
  <1>6. text \in Text(f) /\ f \in listed[p] /\ text # << >>
    BY <1>1, <1>2, <1>4 DEF Session
  <1>7. text \in Seq(0..Size[f]) /\ Len(text) <= Size[f] /\ Size[f] \in Nat
    BY <1>6, TextIs, SizeIs
  <1> DEFINE rest == Tail(text)
             item == Head(text)
             c == [at |-> "send", peer |-> p, file |-> f, text |-> rest]
             w == IF Gone(r) THEN wire[r] ELSE Append(wire[r], item)
  <1>8. /\ item \in 0..Size[f] /\ rest \in Seq(0..Size[f])
        /\ Len(rest) \in Nat /\ Len(text) = Len(rest) + 1
    BY <1>6, <1>7, TailWire
  <1>9. rest \in Text(f)
    <2> HIDE DEF rest, item
    <2>1. Len(rest) <= Size[f]
      BY <1>7, <1>8
    <2>2. QED
      BY <1>8, <2>1, TextIs
  <1>13. Moves(r, req[r], c, w)
    BY <1>3
  <1> HIDE DEF rest, item
  <1>14. c \in ConnStates
    BY <1>9 DEF ConnStates, Texts
  <1>15. UNCHANGED <<up, port, holders, disk, listed, line, filename>>
    BY DEF HandlerSend, peerVars, storeVars, consoleVars
  <1>16. /\ c.at = "send" /\ c.file = f /\ c.peer = p /\ c.text = rest
         /\ c.file \in listed[c.peer] /\ c.text \in Text(c.file)
    BY <1>6, <1>9
  <1> HIDE DEF c
  <1>17. req[r].at = "idle" => w = wire[r] /\ wire[r] = << >>
    BY <1>1, NoneIs DEF Session, Gone
  <1>18. req[r].at \in {"count", "words", "list"} => w = Append(wire[r], item)
    BY <1>5 DEF Gone
  <1> HIDE DEF w
  <1>19. req[r].at \in {"count", "words"} => wire[r] \in Seq(0..Size[f])
    BY <1>1, <1>5 DEF Session
  <1>20. req[r].at \in {"count", "words"} =>
           w \in Seq(0..Size[f]) /\ Len(w) = Len(wire[r]) + 1 /\ Len(wire[r]) \in Nat
           /\ w # << >>
    <2>1. SUFFICES ASSUME req[r].at \in {"count", "words"}
                   PROVE  /\ w \in Seq(0..Size[f]) /\ Len(w) = Len(wire[r]) + 1
                          /\ Len(wire[r]) \in Nat /\ w # << >>
      OBVIOUS
    <2>2. PICK n \in Nat : n = Size[f]
      BY <1>7
    <2>3. PICK v \in Seq(0..n) : v = wire[r]
      BY <1>19, <2>1, <2>2
    <2>4. item \in 0..n
      BY <1>8, <2>2
    <2>5. /\ Append(v, item) \in Seq(0..n) /\ Len(Append(v, item)) = Len(v) + 1
          /\ Len(v) \in Nat /\ Append(v, item) # << >>
      BY <2>4, AppendWire
    <2>6. w = Append(v, item)
      BY <1>18, <2>1, <2>3
    <2>7. QED
      BY <2>2, <2>3, <2>5, <2>6
  <1>21. w \in Seq(Nat)
    <2>1. item \in Nat
      BY <1>7, <1>8
    <2>2. Append(wire[r], item) \in Seq(Nat)
      BY <1>1, <2>1, AppendProperties
    <2>3. QED
      BY <1>1, <1>5, <1>17, <1>18, <2>2
  <1>22. Session(r, req[r], c, w)
    <2>1. CASE req[r].at = "idle"
      BY <1>1, <1>16, <1>17, <2>1 DEF Session, Working
    <2>2. CASE req[r].at = "count"
      <3>1. Len(wire[r]) + Len(text) <= Size[f] + 1
        BY <1>1, <1>2, <1>4, <1>5, <2>2 DEF Session, Rest
      <3>2. Len(w) + Len(rest) <= Size[f] + 1
        <4>1. /\ Len(rest) \in Nat /\ Len(text) = Len(rest) + 1 /\ Len(text) \in Nat
              /\ Size[f] \in Nat
          BY <1>7, <1>8
        <4>2. Len(w) = Len(wire[r]) + 1 /\ Len(wire[r]) \in Nat /\ Len(w) \in Nat
          BY <1>20, <2>2
        <4>3. PICK a \in Nat, b \in Nat, c1 \in Nat, d \in Nat, N \in Nat :
                a = Len(w) /\ b = Len(wire[r]) /\ c1 = Len(text) /\ d = Len(rest)
                /\ N = Size[f]
          BY <4>1, <4>2
        <4>4. b + c1 <= N + 1 /\ c1 = d + 1 /\ a = b + 1
          BY <3>1, <4>1, <4>2, <4>3
        <4>5. a + d <= N + 1
          BY <4>4
        <4>6. QED
          BY <4>3, <4>5
      <3>3. QED
        BY <1>5, <1>16, <1>20, <2>2, <3>2 DEF Session, Working, Rest
    <2>3. CASE req[r].at = "words"
      <3>1. /\ req[r].got \in Text(req[r].file)
            /\ disk[Owner[r]][req[r].file] # Absent
            /\ Len(req[r].got) + Len(wire[r]) + Len(text) <= Size[f]
        BY <1>1, <1>2, <1>4, <1>5, <2>3 DEF Session, Rest
      <3>2. Len(req[r].got) \in Nat
        <4>1. req[r].file \in Files
          BY <1>5, <2>3
        <4>2. req[r].got \in Seq(0..Size[req[r].file])
          BY <3>1, <4>1, TextIs
        <4>3. QED
          BY <4>2, LenProperties
      <3>3. Len(req[r].got) + Len(w) + Len(rest) <= Size[f]
        <4>1. /\ Len(rest) \in Nat /\ Len(text) = Len(rest) + 1 /\ Len(text) \in Nat
              /\ Size[f] \in Nat
          BY <1>7, <1>8
        <4>2. Len(w) = Len(wire[r]) + 1 /\ Len(wire[r]) \in Nat /\ Len(w) \in Nat
          BY <1>20, <2>3
        <4>3. Len(req[r].got) + Len(wire[r]) + Len(text) <= Size[f]
          BY <3>1
        <4>4. PICK a \in Nat, b \in Nat, c1 \in Nat, d \in Nat, g \in Nat, N \in Nat :
                a = Len(w) /\ b = Len(wire[r]) /\ c1 = Len(text) /\ d = Len(rest)
                /\ g = Len(req[r].got) /\ N = Size[f]
          BY <3>2, <4>1, <4>2
        <4>5. g + b + c1 <= N /\ c1 = d + 1 /\ a = b + 1
          BY <4>1, <4>2, <4>3, <4>4
        <4>6. g + a + d <= N
          BY <4>5
        <4>7. QED
          BY <4>4, <4>6
      <3>4. QED
        BY <1>5, <1>16, <1>20, <2>3, <3>1, <3>3 DEF Session, Working, Rest
    <2>4. CASE req[r].at = "list"
      BY <1>1, <1>16, <2>4 DEF Session, Working
    <2>5. QED
      BY <1>5, <2>1, <2>2, <2>3, <2>4
  <1>23. QED
    BY <1>1, <1>13, <1>14, <1>15, <1>21, <1>22, MoveOnly

LEMMA CloseKeeps ==
  ASSUME TransferInv, NEW r \in Requests,
         HandlerClose(r) \/ HandlerFails(r)
  PROVE  TransferInv'
  <1>1. /\ req[r] \in RequestStates /\ conn[r] \in ConnStates /\ wire[r] \in Seq(Nat)
        /\ Session(r, req[r], conn[r], wire[r])
        /\ [req EXCEPT ![r] = req[r]] = req /\ [wire EXCEPT ![r] = wire[r]] = wire
    BY ThreadIs
  <1>2. UNCHANGED <<up, port, holders, disk, listed, line, filename>>
    BY DEF HandlerClose, HandlerFails, peerVars, storeVars, consoleVars
  <1>3. conn[r].at \in {"name", "send"} /\ Working(conn[r])
    BY DEF HandlerClose, HandlerFails, Working
  <1>4. CASE Gone(r) /\ conn' = [conn EXCEPT ![r] = NoConn]
    <2>1. Moves(r, req[r], NoConn, wire[r])
      BY <1>1, <1>4 DEF HandlerClose, HandlerFails, Moves
    <2>2. req[r].at = "idle" /\ wire[r] = << >>
      BY <1>1, <1>4, NoneIs DEF Gone, Session
    <2>3. Session(r, req[r], NoConn, wire[r])
      BY <2>2, NoneIs DEF Session, Working
    <2>4. QED
      BY <1>1, <1>2, <2>1, <2>3, NoneIs, MoveOnly
  <1>5. CASE ~Gone(r) /\ HandlerClose(r)
    <2> DEFINE c == [at |-> "closed"]
    <2>1. Moves(r, req[r], c, wire[r]) /\ conn[r].at = "send"
      BY <1>1, <1>5 DEF HandlerClose, Moves
    <2>2. c \in ConnStates /\ c.at = "closed"
      BY DEF ConnStates
    <2> HIDE DEF c
    <2>3. /\ req[r].at \in {"idle", "count", "words", "list"}
          /\ conn[r].file \in Files /\ conn[r].text \in Text(conn[r].file)
          /\ req[r].at \in {"count", "words"} => req[r].file = conn[r].file
      BY <1>1, <1>3, <2>1, SentTo DEF Session
    <2>4. req[r].at # "idle"
      BY <1>1, <1>5, NoneIs DEF Gone
    <2>5. Rest(conn[r]) = 0 /\ Rest(c) = 0
      BY <1>5, <2>1, <2>2 DEF HandlerClose, Rest
    <2>6. Session(r, req[r], c, wire[r])
      BY <1>1, <2>1, <2>2, <2>3, <2>4, <2>5 DEF Session, Working
    <2>7. QED
      BY <1>1, <1>2, <2>1, <2>2, <2>6, MoveOnly
  <1>6. QED
    BY <1>4, <1>5 DEF HandlerClose, HandlerFails

\* A file that is not listed, or is there, is written.
LEMMA WriteKeeps ==
  ASSUME TransferInv, NEW p \in Peers, NEW f \in Files,
         NEW t \in Text(f), disk' = [disk EXCEPT ![p][f] = t],
         UNCHANGED <<listed, holders>>
  PROVE  /\ Known' /\ StoreGrows
         /\ disk'[p][f] = t /\ disk'[p][f] # Absent
         /\ \A q \in Peers, g \in Files :
              q # p \/ g # f => disk'[q][g] = disk[q][g]
  <1>1. t \in Texts /\ t # Absent
    BY FileTransferAssumption DEF Texts
  <1>2. /\ disk \in [Peers -> [Files -> Texts \cup {Absent}]]
        /\ \A q \in Peers, g \in Files :
             disk[q][g] # Absent => disk[q][g] \in Text(g)
        /\ \A q \in Peers : \A g \in listed[q] : disk[q][g] # Absent
    BY DEF TransferInv, Known
  <1>3. disk' \in [Peers -> [Files -> Texts \cup {Absent}]]
    BY <1>1, <1>2
  <1>4. disk'[p][f] = t
    BY <1>2
  <1>5. \A q \in Peers, g \in Files : q # p \/ g # f => disk'[q][g] = disk[q][g]
    BY <1>2
  <1>6. \A q \in Peers, g \in Files : disk'[q][g] # Absent => disk'[q][g] \in Text(g)
    BY <1>2, <1>4, <1>5
  <1>7. listed \in [Peers -> SUBSET Files]
    BY DEF TransferInv, Known
  <1>8. \A q \in Peers : \A g \in listed[q] : disk'[q][g] # Absent
    BY <1>1, <1>2, <1>4, <1>5, <1>7
  <1>9. Known'
    BY <1>3, <1>6, <1>8 DEF TransferInv, Known
  <1>10. StoreGrows
    BY <1>1, <1>4, <1>5 DEF StoreGrows
  <1>11. QED
    BY <1>1, <1>4, <1>5, <1>9, <1>10

\* A thread that receives, and its connection.
LEMMA Receiver ==
  ASSUME TransferInv, NEW r \in Requests,
         req[r].at \in {"count", "words"}, wire[r] # << >>
  PROVE  /\ req[r].file \in Files /\ req[r].src \in Holder /\ Owner[r] \in Peers
         /\ Head(wire[r]) \in 0..Size[req[r].file]
         /\ Tail(wire[r]) \in Seq(0..Size[req[r].file]) /\ Tail(wire[r]) \in Seq(Nat)
         /\ Len(Tail(wire[r])) \in Nat /\ Len(wire[r]) = Len(Tail(wire[r])) + 1
         /\ Size[req[r].file] \in Nat /\ Rest(conn[r]) \in Nat
         /\ conn[r].at \notin {"none", "name"}
         /\ Working(conn[r]) => conn[r].file = req[r].file
         /\ Working(conn[r]) => conn[r].file \in listed[conn[r].peer]
         /\ conn[r].at \in {"rewind", "send"} => conn[r].text \in Text(conn[r].file)
  <1> DEFINE f == req[r].file
  <1>1. /\ req[r] \in RequestStates /\ conn[r] \in ConnStates /\ wire[r] \in Seq(Nat)
        /\ Session(r, req[r], conn[r], wire[r]) /\ Owner[r] \in Peers
    BY ThreadIs
  <1>2. f \in Files /\ req[r].src \in Holder
    BY <1>1 DEF RequestStates
  <1>3. wire[r] \in Seq(0..Size[f]) /\ Size[f] \in Nat
    BY <1>1, <1>2, SizeIs DEF Session
  <1>4. /\ Head(wire[r]) \in 0..Size[f] /\ Tail(wire[r]) \in Seq(0..Size[f])
        /\ Len(Tail(wire[r])) \in Nat /\ Len(wire[r]) = Len(Tail(wire[r])) + 1
    BY <1>3, TailWire
  <1>5. Tail(wire[r]) \in Seq(Nat)
    BY <1>1, TailWire
  <1>6. conn[r].at = "send" => conn[r].text \in Texts
    BY <1>1 DEF ConnStates
  <1>7. Rest(conn[r]) \in Nat
    <2>1. ASSUME NEW t \in Texts PROVE Len(t) \in Nat
      <3>1. PICK g \in Files : t \in Text(g)
        BY DEF Texts
      <3>2. t \in Seq(0..Size[g])
        BY <3>1, TextIs
      <3>3. QED
        BY <3>2, LenProperties
    <2>2. QED
      BY <1>6, <2>1 DEF Rest
  <1>8. conn[r].at \notin {"none", "name"}
    BY <1>1 DEF Session
  <1>9. QED
    BY <1>1, <1>2, <1>3, <1>4, <1>5, <1>7, <1>8 DEF Session

LEMMA ReceiveKeeps ==
  ASSUME TransferInv, NEW r \in Requests,
         req[r].at \in {"count", "words"}, wire[r] # << >>,
         NEW q \in RequestStates, q.at \in {"words", "list"}, q.file = req[r].file,
         q.got \in Text(q.file), Moves(r, q, conn[r], Tail(wire[r])),
         q.at = "words" =>
           /\ conn[r].at = "rewind" => Tail(wire[r]) = << >> /\ q.got = << >>
           /\ Len(q.got) + Len(Tail(wire[r])) + Rest(conn[r]) <= Size[q.file],
         Known', StoreGrows, disk'[Owner[r]][q.file] # Absent,
         UNCHANGED <<up, port, line, filename, listed>>
  PROVE  TransferInv'
  <1>1. conn[r] \in ConnStates /\ Tail(wire[r]) \in Seq(Nat)
    BY ThreadIs, Receiver
  <1>2. PICK c \in ConnStates, w \in Seq(Nat) : c = conn[r] /\ w = Tail(wire[r])
    BY <1>1
  <1>3. /\ w \in Seq(0..Size[q.file]) /\ c.at \notin {"none", "name"}
        /\ Working(c) => c.file = q.file
        /\ Working(c) => c.file \in listed'[c.peer]
        /\ c.at \in {"rewind", "send"} => c.text \in Text(c.file)
    BY <1>2, Receiver
  <1>4. q.at = "words" =>
          /\ c.at = "rewind" => w = << >> /\ q.got = << >>
          /\ Len(q.got) + Len(w) + Rest(c) <= Size[q.file]
    BY <1>2
  <1>5. Session(r, q, c, w)'
    BY <1>3, <1>4 DEF Session
  <1>6. Moves(r, q, c, w)
    BY <1>2
  <1>7. Consoles'
    BY DEF TransferInv, Shapes, Consoles
  <1>8. QED
    BY <1>5, <1>6, <1>7, MoveKeeps

LEMMA RecvCountKeeps ==
  ASSUME TransferInv, NEW r \in Requests, RecvCount(r)
  PROVE  TransferInv'
  <1> DEFINE p == Owner[r]
             f == req[r].file
             left == (Head(wire[r]) - 1) % UINT_RANGE
             q == [at |-> "words", file |-> f, src |-> req[r].src, left |-> left,
                   got |-> << >>, flushed |-> 0]
  <1>1. req[r].at = "count" /\ wire[r] # << >>
    BY DEF RecvCount
  <1>2. /\ f \in Files /\ req[r].src \in Holder /\ p \in Peers
        /\ Head(wire[r]) \in 0..Size[f]
        /\ Tail(wire[r]) \in Seq(0..Size[f]) /\ Tail(wire[r]) \in Seq(Nat)
        /\ Len(Tail(wire[r])) \in Nat /\ Len(wire[r]) = Len(Tail(wire[r])) + 1
        /\ Size[f] \in Nat /\ Rest(conn[r]) \in Nat
        /\ conn[r].at \notin {"none", "name"}
        /\ Working(conn[r]) => conn[r].file = f
        /\ Working(conn[r]) => conn[r].file \in listed[conn[r].peer]
        /\ conn[r].at \in {"rewind", "send"} => conn[r].text \in Text(conn[r].file)
    BY <1>1, Receiver
  <1>3. /\ conn[r] \in ConnStates /\ Session(r, req[r], conn[r], wire[r])
        /\ [conn EXCEPT ![r] = conn[r]] = conn
    BY ThreadIs
  <1>4. << >> \in Text(f) /\ << >> \in Texts
    BY <1>2, EmptyText DEF Texts
  <1>5. /\ Known' /\ StoreGrows /\ disk'[p][f] # Absent
    <2>1. disk' = [disk EXCEPT ![p][f] = << >>] /\ UNCHANGED <<listed, holders>>
      BY DEF RecvCount, peerVars
    <2> HIDE DEF p, f
    <2>2. QED
      BY <1>2, <1>4, <2>1, WriteKeeps
  <1>6. left \in 0 .. UINT_RANGE - 1
    <2>1. Head(wire[r]) - 1 \in Int /\ UINT_RANGE \in Nat \ {0}
      BY <1>2, SizeIs
    <2>2. QED
      BY <2>1
  <1>7. Moves(r, q, conn[r], Tail(wire[r]))
    BY <1>3 DEF RecvCount, Moves
  <1>8. UNCHANGED <<up, port, line, filename>>
    BY DEF RecvCount, peerVars, consoleVars
  <1> HIDE DEF left
  <1>9. q \in RequestStates
    BY <1>2, <1>4, <1>6 DEF RequestStates
  <1>10. q.at = "words" /\ q.file = f /\ q.got = << >>
    OBVIOUS
  <1> HIDE DEF q
  <1>11. Len(q.got) = 0
    BY <1>10
  <1>12. Len(wire[r]) + Rest(conn[r]) <= Size[f] + 1
    BY <1>1, <1>3 DEF Session
  <1>13. Len(q.got) + Len(Tail(wire[r])) + Rest(conn[r]) <= Size[f]
    <2>1. PICK a \in Nat, b \in Nat, n \in Nat :
            a = Len(Tail(wire[r])) /\ b = Rest(conn[r]) /\ n = Size[f]
      BY <1>2
    <2>2. a + 1 + b <= n + 1
      BY <1>2, <1>12, <2>1
    <2>3. 0 + a + b <= n
      BY <2>2
    <2>4. QED
      BY <1>11, <2>1, <2>3
  <1>14. conn[r].at = "rewind" => Tail(wire[r]) = << >>
    <2>1. SUFFICES ASSUME conn[r].at = "rewind" PROVE Tail(wire[r]) = << >>
      OBVIOUS
    <2>2. Len(wire[r]) = 1
      BY <1>1, <1>3, <2>1 DEF Session
    <2>3. Len(Tail(wire[r])) = 0
      BY <1>2, <2>2
    <2>4. QED
      BY <1>2, <2>3, EmptyLen
  <1>15. UNCHANGED listed
    BY DEF RecvCount
  <1>16. QED
    BY <1>1, <1>4, <1>5, <1>7, <1>8, <1>9, <1>10, <1>13, <1>14, <1>15, ReceiveKeeps

\* The next word of a thread in its loop, or behind it.
LEMMA NextWord ==
  ASSUME TransferInv, NEW r \in Requests,
         req[r].at = "words", wire[r] # << >>
  PROVE  LET f == req[r].file
             words == Written(req[r].got, Head(wire[r]))
         IN  /\ f \in Files /\ Owner[r] \in Peers
             /\ words \in Text(f) /\ words \in Texts /\ Len(words) \in Nat
             /\ Len(words) + Len(Tail(wire[r])) + Rest(conn[r]) <= Size[f]
             /\ conn[r].at # "rewind"
             /\ disk[Owner[r]][f] # Absent /\ disk[Owner[r]][f] \in Text(f)
             /\ \E s \in Holder, k \in 0 .. UINT_RANGE - 1, t \in Texts, n \in Nat :
                  req[r] = [at |-> "words", file |-> f, src |-> s, left |-> k,
                            got |-> t, flushed |-> n]
  <1> DEFINE f == req[r].file
             got == req[r].got
             words == Written(got, Head(wire[r]))
  <1>1. /\ req[r] \in RequestStates /\ wire[r] \in Seq(Nat)
        /\ Session(r, req[r], conn[r], wire[r])
    BY ThreadIs
  <1>2. /\ f \in Files /\ Owner[r] \in Peers /\ Head(wire[r]) \in 0..Size[f]
        /\ Len(Tail(wire[r])) \in Nat /\ Len(wire[r]) = Len(Tail(wire[r])) + 1
        /\ Size[f] \in Nat /\ Rest(conn[r]) \in Nat
    BY Receiver
  <1>3. got \in Text(f) /\ disk[Owner[r]][f] # Absent
    BY <1>1 DEF Session
  <1>4. Len(got) \in Nat
    <2>1. got \in Seq(0..Size[f])
      BY <1>2, <1>3, TextIs
    <2>2. QED
      BY <2>1, LenProperties
  <1>5. Len(got) + Len(wire[r]) + Rest(conn[r]) <= Size[f]
    BY <1>1 DEF Session
  <1>6. PICK g \in Nat, a \in Nat, b \in Nat, N \in Nat :
          g = Len(got) /\ a = Len(Tail(wire[r])) /\ b = Rest(conn[r]) /\ N = Size[f]
    BY <1>2, <1>4
  <1>7. g + (a + 1) + b <= N
    BY <1>2, <1>5, <1>6
  <1>8. g < N
    BY <1>7
  <1>9. words \in Text(f) /\ Len(words) \in Nat /\ Len(words) <= Len(got) + 1
    BY <1>2, <1>3, <1>6, <1>8, WrittenText
  <1>10. Len(words) + Len(Tail(wire[r])) + Rest(conn[r]) <= Size[f]
    <2>1. PICK k \in Nat : k = Len(words)
      BY <1>9
    <2>2. k <= g + 1
      BY <1>6, <1>9, <2>1
    <2>3. k + a + b <= N
      BY <1>7, <2>2
    <2>4. QED
      BY <1>6, <2>1, <2>3
  <1>11. conn[r].at # "rewind"
    BY <1>1 DEF Session
  <1>12. disk[Owner[r]][f] \in Text(f)
    BY <1>2, <1>3 DEF TransferInv, Known
  <1>13. \E s \in Holder, k \in 0 .. UINT_RANGE - 1, t \in Texts, n \in Nat :
           req[r] = [at |-> "words", file |-> f, src |-> s, left |-> k,
                     got |-> t, flushed |-> n]
    <2>1. req[r] \in [at : {"words", "list"}, file : Files, src : Holder,
                      left : 0 .. UINT_RANGE - 1, got : Texts, flushed : Nat]
      BY <1>1 DEF RequestStates
    <2>2. QED
      BY <2>1
  <1>14. words \in Texts
    BY <1>2, <1>9 DEF Texts
  <1>15. QED
    BY <1>2, <1>3, <1>9, <1>10, <1>11, <1>12, <1>13, <1>14

\* A word of the loop.
LEMMA WordMoves ==
  ASSUME TransferInv, NEW r \in Requests, RecvWord(r)
  PROVE  LET p == Owner[r]
             words == Written(req[r].got, Head(wire[r]))
         IN  \E s \in Holder, k \in 0 .. UINT_RANGE - 1, t \in Texts, m \in Nat,
                f \in Files : \E n \in {m, Len(words)} :
               /\ req[r] = [at |-> "words", file |-> f, src |-> s, left |-> k,
                            got |-> t, flushed |-> m]
               /\ Moves(r, [at |-> "words", file |-> f, src |-> s, left |-> k - 1,
                            got |-> words, flushed |-> n], conn[r], Tail(wire[r]))
               /\ disk' = IF n = m THEN disk
                          ELSE [disk EXCEPT ![p][f] = Flush(disk[p][f], m, words)]
  <1> DEFINE p == Owner[r]
             words == Written(req[r].got, Head(wire[r]))
  <1>1. req[r].at = "words" /\ wire[r] # << >>
    BY DEF RecvWord
  <1>2. req[r].file \in Files
    BY <1>1, NextWord
  <1>3. PICK s \in Holder, k \in 0 .. UINT_RANGE - 1, t \in Texts, m \in Nat :
          req[r] = [at |-> "words", file |-> req[r].file, src |-> s, left |-> k,
                    got |-> t, flushed |-> m]
    BY <1>1, NextWord
  <1>4. PICK f \in Files : f = req[r].file
    BY <1>2
  <1>5. PICK n \in {m, Len(words)} :
          /\ req' = [req EXCEPT ![r].left = @ - 1, ![r].got = words, ![r].flushed = n]
          /\ disk' = IF n = m THEN disk
                     ELSE [disk EXCEPT ![p][f] = Flush(disk[p][f], m, words)]
    <2>1. req[r].flushed = m /\ req[r].file = f
      BY <1>3, <1>4
    <2>2. QED
      BY <2>1 DEF RecvWord
  <1> DEFINE q == [at |-> "words", file |-> f, src |-> s, left |-> k - 1,
                   got |-> words, flushed |-> n]
  <1>6. req' = [req EXCEPT ![r] = q]
    <2> HIDE DEF words
    <2>1. req' = [req EXCEPT ![r] =
            [[[req[r] EXCEPT !.left = req[r].left - 1] EXCEPT !.got = words]
               EXCEPT !.flushed = n]]
      BY <1>5
    <2>2. req[r] = [at |-> "words", file |-> f, src |-> s, left |-> k, got |-> t,
                    flushed |-> m]
      BY <1>3, <1>4
    <2>3. [req[r] EXCEPT !.left = req[r].left - 1]
            = [at |-> "words", file |-> f, src |-> s, left |-> k - 1, got |-> t,
               flushed |-> m]
      BY <2>2
    <2>4. [[at |-> "words", file |-> f, src |-> s, left |-> k - 1, got |-> t,
            flushed |-> m] EXCEPT !.got = words]
            = [at |-> "words", file |-> f, src |-> s, left |-> k - 1, got |-> words,
               flushed |-> m]
      OBVIOUS
    <2>5. [[at |-> "words", file |-> f, src |-> s, left |-> k - 1, got |-> words,
            flushed |-> m] EXCEPT !.flushed = n] = q
      OBVIOUS
    <2> HIDE DEF q
    <2>6. QED
      BY <2>1, <2>3, <2>4, <2>5
  <1>7. wire' = [wire EXCEPT ![r] = Tail(wire[r])] /\ conn' = conn
    BY DEF RecvWord
  <1>8. Moves(r, q, conn[r], Tail(wire[r]))
    <2> HIDE DEF q
    <2>1. [conn EXCEPT ![r] = conn[r]] = conn
      BY ThreadIs
    <2>2. QED
      BY <1>6, <1>7, <2>1 DEF Moves
  <1>9. req[r] = [at |-> "words", file |-> f, src |-> s, left |-> k, got |-> t,
                  flushed |-> m]
    BY <1>3, <1>4
  <1> HIDE DEF words
  <1>10. QED
    BY <1>5, <1>8, <1>9 DEF words

LEMMA RecvWordKeeps ==
  ASSUME TransferInv, NEW r \in Requests, RecvWord(r)
  PROVE  TransferInv'
  <1> DEFINE p == Owner[r]
             words == Written(req[r].got, Head(wire[r]))
  <1>1. req[r].at = "words" /\ req[r].left > 0 /\ wire[r] # << >>
    BY DEF RecvWord
  <1>2. /\ req[r].file \in Files /\ p \in Peers
        /\ words \in Text(req[r].file) /\ words \in Texts /\ Len(words) \in Nat
        /\ Len(words) + Len(Tail(wire[r])) + Rest(conn[r]) <= Size[req[r].file]
        /\ conn[r].at # "rewind"
        /\ disk[p][req[r].file] # Absent
        /\ disk[p][req[r].file] \in Text(req[r].file)
    BY <1>1, NextWord
  <1>3. PICK s \in Holder, k \in 0 .. UINT_RANGE - 1, t \in Texts, m \in Nat, f \in Files :
         \E n \in {m, Len(words)} :
          /\ req[r] = [at |-> "words", file |-> f, src |-> s, left |-> k,
                       got |-> t, flushed |-> m]
          /\ Moves(r, [at |-> "words", file |-> f, src |-> s, left |-> k - 1,
                       got |-> words, flushed |-> n], conn[r], Tail(wire[r]))
          /\ disk' = IF n = m THEN disk
                     ELSE [disk EXCEPT ![p][f] = Flush(disk[p][f], m, words)]
    BY WordMoves
  <1>5. PICK n \in {m, Len(words)} :
          /\ req[r] = [at |-> "words", file |-> f, src |-> s, left |-> k,
                       got |-> t, flushed |-> m]
          /\ Moves(r, [at |-> "words", file |-> f, src |-> s, left |-> k - 1,
                       got |-> words, flushed |-> n], conn[r], Tail(wire[r]))
          /\ disk' = IF n = m THEN disk
                     ELSE [disk EXCEPT ![p][f] = Flush(disk[p][f], m, words)]
    BY <1>3
  <1>4. f = req[r].file /\ k = req[r].left
    BY <1>5
  <1> DEFINE q == [at |-> "words", file |-> f, src |-> s, left |-> k - 1,
                   got |-> words, flushed |-> n]
  <1>7. k - 1 \in 0 .. UINT_RANGE - 1
    <2>1. k > 0 /\ UINT_RANGE \in Nat
      BY <1>1, <1>4, FileTransferAssumption
    <2>2. QED
      BY <2>1
  <1>8. q \in RequestStates
    <2> HIDE DEF words
    <2>1. n \in Nat
      BY <1>2, <1>5
    <2>2. QED
      BY <1>2, <1>7, <2>1 DEF RequestStates
  <1>9. Known' /\ StoreGrows /\ disk'[p][f] # Absent
    <2>1. UNCHANGED <<listed, holders>>
      BY DEF RecvWord, peerVars
    <2>2. CASE n = m
      <3>1. disk' = disk
        BY <1>5, <2>2
      <3>2. QED
        BY <1>2, <1>4, <2>1, <3>1 DEF TransferInv, Known, StoreGrows
    <2>3. CASE n # m
      <3>1. disk' = [disk EXCEPT ![p][f] = Flush(disk[p][f], m, words)]
        BY <1>5, <2>3
      <3> HIDE DEF words, p
      <3>2. Flush(disk[p][f], m, words) \in Text(f)
        BY <1>2, <1>4, FlushText
      <3>3. QED
        BY <1>2, <2>1, <3>1, <3>2, WriteKeeps
    <2>4. QED
      BY <2>2, <2>3
  <1>10. UNCHANGED <<up, port, line, filename, listed>>
    BY DEF RecvWord, peerVars, consoleVars
  <1>11. Moves(r, q, conn[r], Tail(wire[r]))
    BY <1>5
  <1>12. q.at = "words" /\ q.file = f /\ q.got = words
    OBVIOUS
  <1> HIDE DEF q, words
  <1>13. QED
    BY <1>1, <1>2, <1>4, <1>8, <1>9, <1>10, <1>11, <1>12, ReceiveKeeps

\* The last word.
LEMMA LastMoves ==
  ASSUME TransferInv, NEW r \in Requests, RecvLast(r)
  PROVE  LET p == Owner[r]
             words == Written(req[r].got, Head(wire[r]))
         IN  \E s \in Holder, k \in 0 .. UINT_RANGE - 1, t \in Texts, m \in Nat,
                f \in Files :
               /\ req[r] = [at |-> "words", file |-> f, src |-> s, left |-> k,
                            got |-> t, flushed |-> m]
               /\ Moves(r, [at |-> "list", file |-> f, src |-> s, left |-> k,
                            got |-> words, flushed |-> m], conn[r], Tail(wire[r]))
               /\ disk' = [disk EXCEPT ![p][f] = Flush(disk[p][f], m, words)]
  <1> DEFINE p == Owner[r]
             words == Written(req[r].got, Head(wire[r]))
  <1>1. req[r].at = "words" /\ wire[r] # << >>
    BY DEF RecvLast
  <1>2. req[r].file \in Files
    BY <1>1, NextWord
  <1>3. PICK s \in Holder, k \in 0 .. UINT_RANGE - 1, t \in Texts, m \in Nat :
          req[r] = [at |-> "words", file |-> req[r].file, src |-> s, left |-> k,
                    got |-> t, flushed |-> m]
    BY <1>1, NextWord
  <1>4. PICK f \in Files : f = req[r].file
    BY <1>2
  <1> DEFINE q == [at |-> "list", file |-> f, src |-> s, left |-> k, got |-> words,
                   flushed |-> m]
  <1>5. req' = [req EXCEPT ![r] = q]
    <2>1. req' = [req EXCEPT ![r] =
            [[req[r] EXCEPT !.at = "list"] EXCEPT !.got = words]]
      BY DEF RecvLast
    <2> HIDE DEF words
    <2>2. req[r] = [at |-> "words", file |-> f, src |-> s, left |-> k, got |-> t,
                    flushed |-> m]
      BY <1>3, <1>4
    <2>3. [req[r] EXCEPT !.at = "list"]
            = [at |-> "list", file |-> f, src |-> s, left |-> k, got |-> t,
               flushed |-> m]
      BY <2>2
    <2>4. [[at |-> "list", file |-> f, src |-> s, left |-> k, got |-> t,
            flushed |-> m] EXCEPT !.got = words] = q
      OBVIOUS
    <2> HIDE DEF q
    <2>5. QED
      BY <2>1, <2>3, <2>4
  <1>6. wire' = [wire EXCEPT ![r] = Tail(wire[r])] /\ conn' = conn
    BY DEF RecvLast
  <1>7. Moves(r, q, conn[r], Tail(wire[r]))
    <2> HIDE DEF q
    <2>1. [conn EXCEPT ![r] = conn[r]] = conn
      BY ThreadIs
    <2>2. QED
      BY <1>5, <1>6, <2>1 DEF Moves
  <1>8. disk' = [disk EXCEPT ![p][f] = Flush(disk[p][f], m, words)]
    <2>1. req[r].flushed = m /\ req[r].file = f
      BY <1>3, <1>4
    <2>2. QED
      BY <2>1 DEF RecvLast
  <1>9. req[r] = [at |-> "words", file |-> f, src |-> s, left |-> k, got |-> t,
                  flushed |-> m]
    BY <1>3, <1>4
  <1> HIDE DEF words
  <1>10. QED
    BY <1>7, <1>8, <1>9 DEF words

LEMMA RecvLastKeeps ==
  ASSUME TransferInv, NEW r \in Requests, RecvLast(r)
  PROVE  TransferInv'
  <1> DEFINE p == Owner[r]
             words == Written(req[r].got, Head(wire[r]))
  <1>1. req[r].at = "words" /\ wire[r] # << >>
    BY DEF RecvLast
  <1>2. /\ req[r].file \in Files /\ p \in Peers
        /\ words \in Text(req[r].file) /\ words \in Texts
        /\ disk[p][req[r].file] \in Text(req[r].file)
    BY <1>1, NextWord
  <1>3. PICK s \in Holder, k \in 0 .. UINT_RANGE - 1, t \in Texts, m \in Nat,
             f \in Files :
          /\ req[r] = [at |-> "words", file |-> f, src |-> s, left |-> k,
                       got |-> t, flushed |-> m]
          /\ Moves(r, [at |-> "list", file |-> f, src |-> s, left |-> k,
                       got |-> words, flushed |-> m], conn[r], Tail(wire[r]))
          /\ disk' = [disk EXCEPT ![p][f] = Flush(disk[p][f], m, words)]
    BY LastMoves
  <1>4. f = req[r].file
    BY <1>3
  <1> DEFINE q == [at |-> "list", file |-> f, src |-> s, left |-> k, got |-> words,
                   flushed |-> m]
  <1>6. q \in RequestStates
    <2> HIDE DEF words
    <2>1. QED
      BY <1>2 DEF RequestStates
  <1>7. Known' /\ StoreGrows /\ disk'[p][f] # Absent
    <2>1. UNCHANGED <<listed, holders>>
      BY DEF RecvLast, peerVars
    <2> HIDE DEF words, p
    <2>2. Flush(disk[p][f], m, words) \in Text(f)
      BY <1>2, <1>4, FlushText
    <2>3. QED
      BY <1>2, <1>3, <2>1, <2>2, WriteKeeps
  <1>8. UNCHANGED <<up, port, line, filename, listed>>
    BY DEF RecvLast, peerVars, consoleVars
  <1>9. Moves(r, q, conn[r], Tail(wire[r]))
    BY <1>3
  <1>10. q.at = "list" /\ q.file = f /\ q.got = words
    OBVIOUS
  <1> HIDE DEF q, words
  <1>11. QED
    BY <1>1, <1>2, <1>4, <1>6, <1>7, <1>8, <1>9, <1>10, ReceiveKeeps

LEMMA AddToListKeeps ==
  ASSUME TransferInv, NEW r \in Requests, AddToList(r)
  PROVE  TransferInv'
  <1> DEFINE p == Owner[r]
             f == req[r].file
  <1>1. req[r].at = "list" /\ p \in Peers /\ f \in Files /\ disk[p][f] # Absent
    <2>1. req[r].at = "list"
      BY DEF AddToList
    <2>2. QED
      BY <2>1, ThreadIs DEF Session, RequestStates
  <1>2. /\ listed' = [listed EXCEPT ![p] = @ \cup {f}] /\ Leave(r)
        /\ UNCHANGED <<up, port, line, filename, disk, holders>>
    BY DEF AddToList, peerVars, consoleVars
  <1> HIDE DEF p, f
  <1>3. /\ listed' \in [Peers -> SUBSET Files] /\ listed'[p] = listed[p] \cup {f}
        /\ \A q \in Peers : q # p => listed'[q] = listed[q]
    BY <1>1, <1>2 DEF TransferInv, Known
  <1>4. \A q \in Peers : listed[q] \subseteq listed'[q]
    BY <1>3
  <1>5. StoreGrows
    BY <1>2, <1>4 DEF StoreGrows
  <1>6. \A q \in Peers : \A g \in listed'[q] : disk'[q][g] # Absent
    BY <1>1, <1>2, <1>3 DEF TransferInv, Known
  <1>7. \A q \in Peers, g \in Files : \A i \in DOMAIN holders[q][g] :
          g \in listed'[holders[q][g][i].peer]
    <2>1. SUFFICES ASSUME NEW q \in Peers, NEW g \in Files, NEW i \in DOMAIN holders[q][g]
                   PROVE  g \in listed'[holders[q][g][i].peer]
      OBVIOUS
    <2>2. holders[q][g] \in Seq(Holder)
      BY DEF TransferInv, Known
    <2>3. holders[q][g][i] \in Holder
      BY <2>2
    <2>4. holders[q][g][i].peer \in Peers
      BY <2>3 DEF Holder
    <2>5. QED
      BY <1>4, <2>4 DEF TransferInv, Known
  <1>8. Known'
    BY <1>2, <1>3, <1>6, <1>7 DEF TransferInv, Known
  <1>9. QED
    BY <1>2, <1>5, <1>8, LeaveKeeps

-----------------------------------------------------------------------------
(* The consoles, the announcements and the processes                       *)

\* A step that no thread and no connection takes part in.
LEMMA QuietKeeps ==
  ASSUME TransferInv, Consoles', Known',
         UNCHANGED <<disk, listed, req, conn, wire>>
  PROVE  TransferInv'
  <1>1. Shapes'
    BY DEF TransferInv, Shapes
  <1>2. StoreGrows
    BY DEF StoreGrows
  <1>3. ASSUME NEW r \in Requests
        PROVE  Session(r, req[r], conn[r], wire[r])'
    <2>1. PICK q \in RequestStates, c \in ConnStates, w \in Seq(Nat) :
            q = req[r] /\ c = conn[r] /\ w = wire[r]
      BY DEF TransferInv, Shapes
    <2>2. Session(r, q, c, w)
      BY <2>1 DEF TransferInv, Sessions
    <2>3. Session(r, q, c, w)'
      BY <1>2, <2>2, SessionStays
    <2>4. req'[r] = q /\ conn'[r] = c /\ wire'[r] = w
      BY <2>1
    <2>5. QED
      BY <2>3, <2>4 DEF Session
  <1>4. QED
    BY <1>1, <1>3 DEF TransferInv, Sessions

LEMMA AnnounceKeeps ==
  ASSUME TransferInv, NEW p \in Peers, NEW q \in Peers,
         Announce(p, q)
  PROVE  TransferInv'
  <1> DEFINE h == [peer |-> p, port |-> port[p]]
  <1>1. /\ holders' = [holders EXCEPT ![q] = [f \in Files |->
                         IF f \in listed[p] THEN Inserted(holders[q][f], h)
                         ELSE holders[q][f]]]
        /\ UNCHANGED <<up, port, line, filename, disk, listed, req, conn, wire>>
    BY DEF Announce, storeVars, consoleVars, netVars
  <1>2. h \in Holder /\ h.peer = p
    BY DEF Holder, TransferInv, Shapes, Consoles
  <1> HIDE DEF h
  <1>3. /\ holders \in [Peers -> [Files -> Seq(Holder)]]
        /\ \A s \in Peers, f \in Files : \A i \in DOMAIN holders[s][f] :
             f \in listed[holders[s][f][i].peer]
    BY DEF TransferInv, Known
  <1>4. ASSUME NEW f \in Files
        PROVE  /\ Inserted(holders[q][f], h) \in Seq(Holder)
               /\ f \in listed[p] =>
                    \A i \in DOMAIN Inserted(holders[q][f], h) :
                      f \in listed[Inserted(holders[q][f], h)[i].peer]
    <2>1. holders[q][f] \in Seq(Holder)
      BY <1>3
    <2>2. PICK list \in Seq(Holder) : list = holders[q][f]
      BY <2>1
    <2>3. \A i \in DOMAIN list : f \in listed[list[i].peer]
      BY <1>3, <2>2
    <2>4. CASE Inserted(list, h) = list
      BY <2>2, <2>3, <2>4
    <2>5. CASE Inserted(list, h) = Append(list, h)
      <3>1. /\ Append(list, h) \in Seq(Holder)
            /\ Len(Append(list, h)) = Len(list) + 1
            /\ \A i \in 1..Len(list) : Append(list, h)[i] = list[i]
            /\ Append(list, h)[Len(list) + 1] = h
        BY <1>2, AppendProperties
      <3>2. Len(list) \in Nat /\ DOMAIN list = 1..Len(list)
            /\ DOMAIN Append(list, h) = 1..Len(list) + 1
        BY <3>1, LenProperties
      <3>3. ASSUME f \in listed[p], NEW i \in 1..Len(list) + 1
            PROVE  f \in listed[Append(list, h)[i].peer]
        <4>1. i \in 1..Len(list) \/ i = Len(list) + 1
          BY <3>2
        <4>2. CASE i \in 1..Len(list)
          BY <2>3, <3>1, <3>2, <4>2
        <4>3. CASE i = Len(list) + 1
          BY <1>2, <3>1, <3>3, <4>3
        <4>4. QED
          BY <4>1, <4>2, <4>3
      <3>4. QED
        BY <2>2, <2>5, <3>1, <3>2, <3>3
    <2>6. QED
      BY <2>2, <2>4, <2>5 DEF Inserted
  <1>5. holders' \in [Peers -> [Files -> Seq(Holder)]]
    BY <1>1, <1>3, <1>4
  <1>6. ASSUME NEW s \in Peers, NEW f \in Files, NEW i \in DOMAIN holders'[s][f]
        PROVE  f \in listed[holders'[s][f][i].peer]
    <2>1. CASE s = q /\ f \in listed[p]
      <3>1. holders'[s][f] = Inserted(holders[q][f], h)
        BY <1>1, <1>3, <2>1
      <3>2. QED
        BY <1>4, <2>1, <3>1
    <2>2. CASE ~(s = q /\ f \in listed[p])
      <3>1. holders'[s][f] = holders[s][f]
        BY <1>1, <1>3, <2>2
      <3>2. QED
        BY <1>3, <3>1
    <2>3. QED
      BY <2>1, <2>2
  <1>7. Known'
    BY <1>1, <1>5, <1>6 DEF TransferInv, Known
  <1>8. Consoles'
    BY <1>1 DEF TransferInv, Shapes, Consoles
  <1>9. QED
    BY <1>1, <1>7, <1>8, QuietKeeps

LEMMA ConsoleKeeps ==
  ASSUME TransferInv,
         \/ \E p \in Peers, f \in Files : TypeName(p, f)
         \/ \E p \in Peers : Restart(p)
  PROVE  TransferInv'
  <1>1. UNCHANGED <<disk, listed, req, conn, wire>>
    BY DEF TypeName, Restart, storeVars, netVars
  <1>2. CASE \E p \in Peers, f \in Files : TypeName(p, f)
    <2>1. PICK p \in Peers, f \in Files : TypeName(p, f)
      BY <1>2
    <2>2. Consoles'
      BY <2>1 DEF TypeName, peerVars, Names, TransferInv, Shapes, Consoles
    <2>3. Known'
      BY <1>1, <2>1 DEF TypeName, peerVars, TransferInv, Known
    <2>4. QED
      BY <1>1, <2>2, <2>3, QuietKeeps
  <1>3. CASE \E p \in Peers : Restart(p)
    <2>1. PICK p \in Peers : Restart(p)
      BY <1>3
    <2>2. Consoles'
      BY <2>1 DEF Restart, consoleVars, TransferInv, Shapes, Consoles
    <2>3. /\ holders' = [holders EXCEPT ![p] = [f \in Files |-> << >>]]
          /\ holders \in [Peers -> [Files -> Seq(Holder)]]
      BY <2>1 DEF Restart, TransferInv, Known
    <2>4. << >> \in Seq(Holder) /\ DOMAIN << >> = {}
      BY EmptySeq
    <2>5. holders' \in [Peers -> [Files -> Seq(Holder)]]
      BY <2>3, <2>4
    <2>6. ASSUME NEW s \in Peers, NEW f \in Files, NEW i \in DOMAIN holders'[s][f]
          PROVE  holders'[s][f] = holders[s][f]
      BY <2>3, <2>4
    <2>7. Known'
      BY <1>1, <2>5, <2>6 DEF TransferInv, Known
    <2>8. QED
      BY <1>1, <2>2, <2>7, QuietKeeps
  <1>4. QED
    BY <1>2, <1>3

LEMMA StartRequestKeeps ==
  ASSUME TransferInv, NEW r \in Requests, StartRequest(r)
  PROVE  TransferInv'
  <1> DEFINE p == Owner[r]
             q == [at |-> "born"]
  <1>1. /\ req[r] = NoRequest /\ conn[r] = NoConn
        /\ req' = [req EXCEPT ![r] = q]
        /\ filename' = [filename EXCEPT ![p] = line[p]]
        /\ line' = [line EXCEPT ![p] = NoName]
        /\ UNCHANGED <<up, port, holders, disk, listed, conn, wire>>
    BY DEF StartRequest, peerVars, storeVars, netVars
  <1>2. /\ conn[r] \in ConnStates /\ wire[r] \in Seq(Nat)
        /\ Session(r, req[r], conn[r], wire[r]) /\ p \in Peers
        /\ [conn EXCEPT ![r] = conn[r]] = conn /\ [wire EXCEPT ![r] = wire[r]] = wire
    BY ThreadIs
  <1>3. Consoles'
    BY <1>1, <1>2 DEF TransferInv, Shapes, Consoles, Names
  <1>4. Known' /\ StoreGrows
    BY <1>1 DEF TransferInv, Known, StoreGrows
  <1>5. q \in RequestStates /\ q.at = "born"
    BY DEF RequestStates
  <1> HIDE DEF q
  <1>6. conn[r].at = "none" /\ wire[r] = << >>
    BY <1>1, <1>2, NoneIs DEF Session
  <1>7. PICK a \in RequestStates, c \in ConnStates, w \in Seq(Nat) :
          a = q /\ c = conn[r] /\ w = wire[r]
    BY <1>2, <1>5
  <1>8. Session(r, a, c, w)'
    BY <1>5, <1>6, <1>7 DEF Session, Working
  <1>9. Moves(r, a, c, w)
    BY <1>1, <1>2, <1>7 DEF Moves
  <1>10. QED
    BY <1>3, <1>4, <1>8, <1>9, MoveKeeps

LEMMA RestIs ==
  ASSUME NEW c \in ConnStates
  PROVE  Rest(c) \in Nat
  <1>1. ASSUME NEW t \in Texts PROVE Len(t) \in Nat
    <2>1. PICK g \in Files : t \in Text(g)
      BY DEF Texts
    <2>2. t \in Seq(0..Size[g])
      BY <2>1, TextIs
    <2>3. QED
      BY <2>2, LenProperties
  <1>2. c.at = "send" => c.text \in Texts
    BY DEF ConnStates
  <1>3. QED
    BY <1>1, <1>2 DEF Rest

LEMMA LessLeft ==
  ASSUME NEW S, NEW T, NEW c \in ConnStates, NEW d, Rest(d) = 0,
         NEW w \in Seq(S), NEW got \in Seq(T), NEW f \in Files
  PROVE  /\ Len(w) + Rest(c) <= Size[f] + 1 => Len(w) + Rest(d) <= Size[f] + 1
         /\ Len(got) + Len(w) + Rest(c) <= Size[f]
              => Len(got) + Len(w) + Rest(d) <= Size[f]
  <1>1. Len(w) \in Nat /\ Len(got) \in Nat /\ Rest(c) \in Nat /\ Size[f] \in Nat
    BY LenProperties, RestIs, SizeIs
  <1>2. PICK a \in Nat, b \in Nat, k \in Nat, n \in Nat :
          a = Len(w) /\ b = Len(got) /\ k = Rest(c) /\ n = Size[f]
    BY <1>1
  <1>3. (a + k <= n + 1 => a + 0 <= n + 1) /\ (b + a + k <= n => b + a + 0 <= n)
    OBVIOUS
  <1>4. QED
    BY <1>2, <1>3

\* A connection that is reset carries what it carried.
LEMMA ResetIs ==
  ASSUME NEW r \in Requests, NEW q \in RequestStates,
         NEW c \in ConnStates, NEW d, NEW w, Session(r, q, c, w), q.at # "idle",
         c.at \in {"name", "rewind", "send"}, d.at = "reset", Rest(d) = 0, ~Working(d)
  PROVE  Session(r, q, d, w)
  <1>1. CASE q.at = "count"
    <2>1. /\ w \in Seq(0..Size[q.file]) /\ q.file \in Files
          /\ Len(w) + Rest(c) <= Size[q.file] + 1
      BY <1>1 DEF Session, RequestStates
    <2>2. PICK f \in Files : f = q.file
      BY <2>1
    <2>3. << >> \in Seq({})
      BY EmptySeq
    <2>4. Len(w) + Rest(d) <= Size[f] + 1
      BY <2>1, <2>2, <2>3, LessLeft
    <2>5. QED
      BY <1>1, <2>1, <2>2, <2>4 DEF Session
  <1>2. CASE q.at = "words"
    <2>1. /\ w \in Seq(0..Size[q.file]) /\ q.file \in Files
          /\ q.got \in Text(q.file) /\ disk[Owner[r]][q.file] # Absent
          /\ Len(q.got) + Len(w) + Rest(c) <= Size[q.file]
      BY <1>2 DEF Session, RequestStates
    <2>2. PICK f \in Files, got \in Text(q.file) : f = q.file /\ got = q.got
      BY <2>1
    <2>3. got \in Seq(0..Size[f])
      BY <2>1, <2>2, TextIs
    <2>4. PICK v \in Seq(0..Size[f]) : v = w
      BY <2>1, <2>2
    <2>5. Len(got) + Len(v) + Rest(c) <= Size[f]
      BY <2>1, <2>2, <2>4
    <2>6. Len(got) + Len(v) + Rest(d) <= Size[f]
      BY <2>3, <2>5, LessLeft
    <2>7. QED
      BY <1>2, <2>1, <2>2, <2>4, <2>6 DEF Session
  <1>3. CASE q.at \notin {"count", "words"}
    <2>1. q.at = "list"
      <3>1. q.at \in {"idle", "born", "check", "refused", "lookup", "connect", "count",
                      "words", "list"}
        BY DEF RequestStates
      <3>2. QED
        BY <1>3, <3>1 DEF Session
    <2>2. QED
      BY <2>1 DEF Session
  <1>4. QED
    BY <1>1, <1>2, <1>3

\* The end of process p, of all its threads and of its handlers.
LEMMA EndsKeeps ==
  ASSUME TransferInv, NEW p \in Peers, Ends(p)
  PROVE  TransferInv'
  <1> DEFINE served(r) ==
               conn[r].at \in {"name", "rewind", "send"} /\ conn[r].peer = p
             gone(r) == Owner[r] = p \/ req[r] = NoRequest
             c(r) == IF gone(r) /\ (served(r) \/ conn[r].at \in {"closed", "reset"})
                     THEN NoConn
                     ELSE IF served(r) THEN [at |-> "reset"] ELSE conn[r]
             q(r) == IF Owner[r] = p THEN NoRequest ELSE req[r]
             w(r) == IF Owner[r] = p THEN << >> ELSE wire[r]
  <1>1. /\ req' = [r \in Requests |-> q(r)] /\ conn' = [r \in Requests |-> c(r)]
        /\ wire' = [r \in Requests |-> w(r)]
        /\ UNCHANGED <<port, holders, disk, listed>>
    BY DEF Ends, storeVars
  <1>2. Consoles'
    BY DEF Ends, TransferInv, Shapes, Consoles, Names
  <1>3. Known' /\ StoreGrows
    BY <1>1 DEF TransferInv, Known, StoreGrows
  <1>4. ASSUME NEW r \in Requests
        PROVE  /\ q(r) \in RequestStates /\ c(r) \in ConnStates /\ w(r) \in Seq(Nat)
               /\ Session(r, q(r), c(r), w(r))
    <2>1. /\ req[r] \in RequestStates /\ conn[r] \in ConnStates
          /\ wire[r] \in Seq(Nat) /\ Session(r, req[r], conn[r], wire[r])
      BY ThreadIs
    <2>2. q(r) \in {NoRequest, req[r]} /\ q(r) \in RequestStates
      BY <2>1, NoneIs
    <2>3. w(r) \in Seq(Nat)
      BY <2>1, NoneIs
    <2>4. [at |-> "reset"] \in ConnStates
      BY DEF ConnStates
    <2>5. c(r) \in ConnStates
      BY <2>1, <2>4, NoneIs
    <2>6. /\ Working(c(r)) => c(r).file \in listed[c(r).peer]
          /\ c(r).at \in {"rewind", "send"} => c(r).text \in Text(c(r).file)
      <3>1. c(r) = NoConn \/ c(r) = [at |-> "reset"] \/ c(r) = conn[r]
        OBVIOUS
      <3> HIDE DEF c
      <3>2. CASE c(r) = NoConn
        BY <3>2, NoneIs DEF Working
      <3>3. CASE c(r) = [at |-> "reset"]
        BY <3>3 DEF Working
      <3>4. CASE c(r) = conn[r]
        BY <2>1, <3>4 DEF Session
      <3>5. QED
        BY <3>1, <3>2, <3>3, <3>4
    <2>7. PICK a \in RequestStates, b \in ConnStates, x \in Seq(Nat) :
            a = q(r) /\ b = c(r) /\ x = w(r)
      BY <2>2, <2>3, <2>5
    <2>8. /\ Working(b) => b.file \in listed[b.peer]
          /\ b.at \in {"rewind", "send"} => b.text \in Text(b.file)
      BY <2>6, <2>7
    <2>9. CASE Owner[r] = p \/ req[r].at = "idle"
      <3>1. a = NoRequest /\ x = << >> /\ gone(r)
        BY <2>1, <2>7, <2>9, NoneIs DEF Session
      <3>2. b.at \notin {"closed", "reset"}
        BY <2>7, <3>1, NoneIs
      <3>3. a.at = "idle"
        BY <3>1, NoneIs
      <3> HIDE DEF c, q, w, gone
      <3>4. Session(r, a, b, x)
        BY <2>8, <3>1, <3>2, <3>3 DEF Session
      <3>5. QED
        BY <2>7, <3>4
    <2>10. CASE ~(Owner[r] = p \/ req[r].at = "idle")
      <3>1. a = req[r] /\ x = wire[r] /\ ~gone(r)
        BY <2>1, <2>7, <2>10, NoneIs
      <3>2. Session(r, a, conn[r], x)
        BY <2>1, <3>1
      <3>3. CASE ~served(r)
        <4>1. b = conn[r]
          BY <2>7, <3>1, <3>3
        <4> HIDE DEF c, q, w, served, gone
        <4>2. QED
          BY <2>7, <3>2, <4>1
      <3>4. CASE served(r)
        <4>1. b = [at |-> "reset"] /\ conn[r].at \in {"name", "rewind", "send"}
          BY <2>7, <3>1, <3>4
        <4> HIDE DEF c, q, w, served, gone
        <4>2. b.at = "reset" /\ Rest(b) = 0 /\ ~Working(b)
          BY <4>1 DEF Rest, Working
        <4>3. Session(r, a, b, x)
          BY <2>1, <2>10, <3>1, <3>2, <4>1, <4>2, ResetIs
        <4>4. QED
          BY <2>7, <4>3
      <3>5. QED
        BY <3>3, <3>4
    <2>11. QED
      BY <2>2, <2>3, <2>5, <2>9, <2>10
  <1> HIDE DEF c, q, w
  <1>5. Shapes'
    <2>1. req' \in [Requests -> RequestStates] /\ conn' \in [Requests -> ConnStates]
          /\ wire' \in [Requests -> Seq(Nat)]
      BY <1>1, <1>4
    <2>2. QED
      BY <1>2, <2>1 DEF Shapes
  <1>6. ASSUME NEW r \in Requests
        PROVE  Session(r, req[r], conn[r], wire[r])'
    <2>1. PICK a \in RequestStates, b \in ConnStates, x \in Seq(Nat) :
            a = q(r) /\ b = c(r) /\ x = w(r)
      BY <1>4
    <2>2. Session(r, a, b, x)
      BY <1>4, <2>1
    <2>3. Session(r, a, b, x)'
      BY <1>3, <2>2, SessionStays
    <2>4. req'[r] = a /\ conn'[r] = b /\ wire'[r] = x
      BY <1>1, <2>1
    <2>5. QED
      BY <2>3, <2>4 DEF Session
  <1>7. QED
    BY <1>3, <1>5, <1>6 DEF TransferInv, Sessions

-----------------------------------------------------------------------------
LEMMA TransferInit ==
  ASSUME Init
  PROVE  TransferInv
  <1> USE DEF Init
  <1>1. Consoles
    BY DEF Consoles, Names
  <1>2. Shapes
    BY <1>1, NoneIs DEF Shapes
  <1>3. Known
    <2>1. \A p \in Peers : Origin[p] \subseteq Files
      BY FileTransferAssumption
    <2>2. \A f \in Files : Original(f) \in Text(f) /\ Original(f) # Absent
      BY OriginalIs, FileTransferAssumption
    <2>3. disk \in [Peers -> [Files -> Texts \cup {Absent}]]
      BY <2>2 DEF Texts
    <2>4. \A p \in Peers, f \in Files : disk[p][f] # Absent => disk[p][f] \in Text(f)
      BY <2>2
    <2>5. listed \in [Peers -> SUBSET Files]
      BY FileTransferAssumption
    <2>6. \A p \in Peers : \A f \in listed[p] : disk[p][f] # Absent
      BY <2>1, <2>2
    <2>7. << >> \in Seq(Holder) /\ DOMAIN << >> = {}
      BY EmptySeq
    <2>8. holders \in [Peers -> [Files -> Seq(Holder)]]
      BY <2>7
    <2>9. \A q \in Peers, f \in Files : holders[q][f] = << >>
      OBVIOUS
    <2>10. QED
      BY <2>3, <2>4, <2>5, <2>6, <2>7, <2>8, <2>9 DEF Known
  <1>4. Sessions
    BY NoneIs DEF Sessions, Session, Working
  <1>5. QED
    BY <1>2, <1>3, <1>4 DEF TransferInv

LEMMA TransferNext ==
  ASSUME TransferInv, [Next]_vars
  PROVE  TransferInv'
  <1>1. CASE UNCHANGED vars
    <2>1. UNCHANGED <<up, port, holders, disk, listed, line, filename, req, conn, wire>>
      BY <1>1 DEF vars, peerVars, storeVars, consoleVars, netVars
    <2>2. Consoles' /\ Known'
      BY <2>1 DEF TransferInv, Shapes, Consoles, Known
    <2>3. QED
      BY <2>1, <2>2, QuietKeeps
  <1>2. ASSUME NEW p \in Peers, NEW q \in Peers, Announce(p, q)
        PROVE  TransferInv'
    BY <1>2, AnnounceKeeps
  <1>3. ASSUME NEW p \in Peers, NEW f \in Files, TypeName(p, f)
        PROVE  TransferInv'
    BY <1>3, ConsoleKeeps
  <1>4. ASSUME NEW r \in Requests, RequestStep(r)
        PROVE  TransferInv'
    BY <1>4, AskKeeps, LeavingKeeps, RecvCountKeeps, RecvWordKeeps, RecvLastKeeps,
       AddToListKeeps DEF RequestStep
  <1>5. ASSUME NEW r \in Requests, StartRequest(r) \/ RecvFails(r)
        PROVE  TransferInv'
    BY <1>5, StartRequestKeeps, LeavingKeeps
  <1>6. ASSUME NEW r \in Requests, HandlerStep(r)
        PROVE  TransferInv'
    <2>1. CASE HandlerKilled(r)
      <3>1. conn[r] \in ConnStates /\ conn[r].at \in {"name", "send"}
            /\ Ends(conn[r].peer)
        BY <2>1, ThreadIs DEF HandlerKilled
      <3>2. conn[r].peer \in Peers
        BY <3>1 DEF ConnStates
      <3>3. PICK p \in Peers : p = conn[r].peer
        BY <3>2
      <3>4. Ends(p)
        BY <3>1, <3>3
      <3>5. QED
        BY <3>4, EndsKeeps
    <2>2. CASE ~HandlerKilled(r)
      BY <1>6, <2>2, CountKeeps, RewindKeeps, SendKeeps, CloseKeeps DEF HandlerStep
    <2>3. QED
      BY <2>1, <2>2
  <1>7. ASSUME NEW p \in Peers, Exit(p) PROVE TransferInv'
    BY <1>7, EndsKeeps DEF Exit
  <1>8. ASSUME NEW p \in Peers, Restart(p) PROVE TransferInv'
    BY <1>8, ConsoleKeeps
  <1>9. QED
    BY <1>1, <1>2, <1>3, <1>4, <1>5, <1>6, <1>7, <1>8 DEF Next

\* Every thread, connection, disk and list of FileTransfer keeps its shape, and
\* no connection carries more words than the file has (P2P.c:255-359, 560-608).
THEOREM TransferInvariant ==
  Spec => []TransferInv
  <1>1. Init => TransferInv
    BY TransferInit
  <1>2. TransferInv /\ [Next]_vars => TransferInv'
    BY TransferNext
  <1>3. QED
    BY <1>1, <1>2, PTL DEF Spec

\* The types of FileTransfer: what is on the disk and what has been received is
\* never longer than the file, also when two threads of a peer write it.
THEOREM TransferTypeCorrect ==
  Spec => []TypeOK
  <1>1. TransferInv => TypeOK
    <2> SUFFICES ASSUME TransferInv PROVE TypeOK
      OBVIOUS
    <2>1. \A p \in Peers, f \in Files :
            /\ disk[p][f] = Absent \/ disk[p][f] \in Text(f)
            /\ holders[p][f] \in Seq(Holder)
      BY DEF TransferInv, Known
    <2>2. ASSUME NEW r \in Requests
          PROVE  /\ req[r].at \in {"idle", "born", "check", "refused", "lookup",
                                   "connect", "count", "words", "list"}
                 /\ req[r].at \in {"words", "list"} =>
                      /\ req[r].got \in Text(req[r].file)
                      /\ req[r].left \in 0 .. UINT_RANGE - 1
                 /\ conn[r].at \in {"none", "name", "rewind", "send", "closed", "reset"}
                 /\ wire[r] \in Seq(Nat)
      <3>1. /\ req[r] \in RequestStates /\ conn[r] \in ConnStates
            /\ wire[r] \in Seq(Nat) /\ Session(r, req[r], conn[r], wire[r])
        BY ThreadIs
      <3>2. req[r].at \in {"idle", "born", "check", "refused", "lookup",
                           "connect", "count", "words", "list"}
            /\ (req[r].at \in {"words", "list"} => req[r].left \in 0 .. UINT_RANGE - 1)
        BY <3>1 DEF RequestStates
      <3>3. conn[r].at \in {"none", "name", "rewind", "send", "closed", "reset"}
        BY <3>1 DEF ConnStates
      <3>4. req[r].at \in {"words", "list"} => req[r].got \in Text(req[r].file)
        BY <3>1 DEF Session
      <3>5. QED
        BY <3>1, <3>2, <3>3, <3>4
    <2>3. listed \in [Peers -> SUBSET Files] /\ Consoles
      BY DEF TransferInv, Shapes, Known
    <2>4. QED
      BY <2>1, <2>2, <2>3 DEF TypeOK, Consoles
  <1>2. QED
    BY <1>1, TransferInvariant, PTL

\* No handler opens a file that is not there, whoever restarts, exits or fetches
\* the same file twice (P2P.c:255-359, 560-608).
THEOREM FilesAreThere ==
  Spec => []NoMissingFile
  <1>1. TransferInv => NoMissingFile
    <2> SUFFICES ASSUME TransferInv, NEW r \in Requests, conn[r].at = "name"
                 PROVE  disk[conn[r].peer][conn[r].file] # Absent
      BY DEF NoMissingFile
    <2>1. Working(conn[r])
      BY DEF Working
    <2>2. QED
      BY <2>1, SentTo
  <1>2. QED
    BY <1>1, TransferInvariant, PTL

-----------------------------------------------------------------------------
(* What is on its way, as long as nobody fetches a file twice at a time    *)

\* Thread r has a name that its peer had not listed, and fetches the file.
Fetching(r) == req[r].at \in {"lookup", "connect", "count", "words", "list"}

\* No two threads of a peer fetch the same file.  The code does not prevent it:
\* is_in_database is asked before the file is fetched (P2P.c:269, 359).
Apart ==
  \A r, s \in Requests :
    Fetching(r) /\ Fetching(s) /\ Owner[r] = Owner[s] /\ req[r].file = req[s].file
      => r = s

\* The items of file f that are sent after the first k words: the number of words
\* is number 0.
Item(f, n) == IF n = 0 THEN Size[f] ELSE n

\* Behind the k items that have been taken come those on the connection, and then
\* those that the handler has yet to send.
Flow(f, k, w, c) ==
  /\ \A i \in 1..Len(w) : w[i] = Item(f, k + i)
  /\ c.at = "send" =>
       /\ k + Len(w) + Len(c.text) = Size[f]
       /\ \A i \in 1..Len(c.text) : c.text[i] = k + Len(w) + i
  /\ c.at = "closed" => k + Len(w) = Size[f]

Taken(q) == IF q.at = "words" THEN Len(q.got) ELSE -1

\* What thread r has got is the beginning of the file, and what it has flushed of
\* it is on the disk.
Gotten(r, q) ==
  /\ q.got = Upto(Len(q.got)) /\ q.flushed <= Len(q.got)
  /\ disk[Owner[r]][q.file] = Upto(q.flushed)
  /\ Size[q.file] > 0 => q.left + Len(q.got) + 1 = Size[q.file]

Exact(r, q, c, w) ==
  /\ q.at \in {"lookup", "connect", "count", "words"} => q.file \notin listed[Owner[r]]
  /\ q.at \in {"count", "words"} => Flow(q.file, Taken(q), w, c)
  /\ q.at = "words" => Gotten(r, q)
  /\ q.at = "list" => disk[Owner[r]][q.file] = Original(q.file)
  /\ c.at = "rewind" => c.text = Original(c.file)

Whole == \A p \in Peers : \A f \in listed[p] : disk[p][f] = Original(f)

ExactInv == Whole /\ \A r \in Requests : Exact(r, req[r], conn[r], wire[r])

\* The next item is taken off the connection.
LEMMA FlowTake ==
  ASSUME NEW f \in Files, NEW k \in Int, NEW S, NEW w \in Seq(S), w # << >>,
         NEW c \in ConnStates, Flow(f, k, w, c)
  PROVE  Head(w) = Item(f, k + 1) /\ Flow(f, k + 1, Tail(w), c)
  <1>1. PICK n \in Nat : n = Len(Tail(w)) /\ Len(w) = n + 1
    BY TailWire
  <1>2. Head(w) = w[1] /\ \A i \in 1..n : Tail(w)[i] = w[i + 1]
    BY <1>1, TailWire
  <1>3. \A i \in 1 .. n + 1 : w[i] = Item(f, k + i)
    BY <1>1 DEF Flow
  <1>4. Head(w) = Item(f, k + 1)
    BY <1>2, <1>3
  <1>5. ASSUME NEW i \in 1..n
        PROVE  Tail(w)[i] = Item(f, (k + 1) + i)
    <2>1. i + 1 \in 1 .. n + 1 /\ k + (i + 1) = (k + 1) + i
      OBVIOUS
    <2>2. QED
      BY <1>2, <1>3, <2>1
  <1>6. c.at = "send" => /\ (k + 1) + n + Len(c.text) = Size[f]
                         /\ \A i \in 1..Len(c.text) : c.text[i] = (k + 1) + n + i
    <2>1. SUFFICES ASSUME c.at = "send"
                   PROVE  /\ (k + 1) + n + Len(c.text) = Size[f]
                          /\ \A i \in 1..Len(c.text) : c.text[i] = (k + 1) + n + i
      OBVIOUS
    <2>2. k + (n + 1) = (k + 1) + n
      OBVIOUS
    <2>3. k + (n + 1) + Len(c.text) = Size[f]
          /\ \A i \in 1..Len(c.text) : c.text[i] = k + (n + 1) + i
      BY <1>1, <2>1 DEF Flow
    <2>4. QED
      BY <2>2, <2>3
  <1>7. c.at = "closed" => (k + 1) + n = Size[f]
    <2>1. c.at = "closed" => k + (n + 1) = Size[f]
      BY <1>1 DEF Flow
    <2>2. k + (n + 1) = (k + 1) + n
      OBVIOUS
    <2>3. QED
      BY <2>1, <2>2
  <1>8. QED
    BY <1>1, <1>4, <1>5, <1>6, <1>7 DEF Flow

\* The handler sends the next word of its text.
LEMMA FlowSend ==
  ASSUME NEW f \in Files, NEW k \in Int, NEW S, NEW w \in Seq(S),
         NEW T, NEW text \in Seq(T), text # << >>, k + Len(w) >= 0,
         NEW c, c.at = "send", c.text = text, Flow(f, k, w, c),
         NEW d, d.at = "send", d.text = Tail(text)
  PROVE  Flow(f, k, Append(w, Head(text)), d)
  <1>1. PICK n \in Nat : n = Len(w)
    BY EmptyLen
  <1>2. PICK m \in Nat : m = Len(Tail(text)) /\ Len(text) = m + 1
    BY TailWire
  <1>3. Head(text) = text[1] /\ \A i \in 1..m : Tail(text)[i] = text[i + 1]
    BY <1>2, TailWire
  <1>4. k + n + (m + 1) = Size[f] /\ \A i \in 1 .. m + 1 : text[i] = k + n + i
    BY <1>1, <1>2 DEF Flow
  <1> DEFINE v == Append(w, Head(text))
  <1>5. Len(v) = n + 1 /\ v[n + 1] = Head(text) /\ \A i \in 1..n : v[i] = w[i]
    <2>1. PICK U : U = S \cup T
      OBVIOUS
    <2>2. w \in Seq(U) /\ Head(text) \in U
      <3>1. Head(text) \in T
        BY TailWire
      <3>2. w \in [1..n -> S] /\ S \subseteq U
        BY <1>1, <2>1, LenProperties
      <3>3. w \in [1..n -> U]
        BY <3>2
      <3>4. w \in Seq(U)
        BY <3>3, SeqDef
      <3>5. QED
        BY <2>1, <3>1, <3>4
    <2>3. QED
      BY <1>1, <2>2, AppendProperties
  <1> HIDE DEF v
  <1>6. ASSUME NEW i \in 1 .. n + 1
        PROVE  v[i] = Item(f, k + i)
    <2>1. CASE i = n + 1
      <3>1. text[1] = k + n + 1 /\ k + n >= 0
        BY <1>1, <1>2, <1>4
      <3>2. k + i = k + n + 1 /\ k + i # 0
        BY <2>1, <3>1
      <3>3. QED
        BY <1>3, <1>5, <2>1, <3>1, <3>2 DEF Item
    <2>2. CASE i # n + 1
      <3>1. i \in 1..n
        BY <2>2
      <3>2. w[i] = Item(f, k + i)
        BY <1>1, <3>1 DEF Flow
      <3>3. QED
        BY <1>5, <3>1, <3>2
    <2>3. QED
      BY <2>1, <2>2
  <1>7. k + (n + 1) + m = Size[f]
    BY <1>4
  <1>8. ASSUME NEW i \in 1..m
        PROVE  Tail(text)[i] = k + (n + 1) + i
    <2>1. i + 1 \in 1 .. m + 1 /\ k + n + (i + 1) = k + (n + 1) + i
      OBVIOUS
    <2>2. QED
      BY <1>3, <1>4, <2>1
  <1>9. QED
    BY <1>2, <1>5, <1>6, <1>7, <1>8 DEF Flow, v

\* The text is at its end, and the connection is closed.
LEMMA FlowClose ==
  ASSUME NEW f \in Files, NEW k \in Int, NEW S, NEW w \in Seq(S),
         NEW c, c.at = "send", c.text = << >>, Flow(f, k, w, c),
         NEW d, d.at = "closed"
  PROVE  Flow(f, k, w, d)
  <1>1. PICK n \in Nat : n = Len(w)
    BY EmptyLen
  <1>2. Len(c.text) = 0
    BY EmptySeq
  <1>3. k + n + 0 = Size[f]
    BY <1>1, <1>2 DEF Flow
  <1>4. k + n = Size[f]
    BY <1>3
  <1>5. QED
    BY <1>1, <1>4 DEF Flow

\* The second pass finds the words that the first has counted.
LEMMA FlowRewind ==
  ASSUME NEW f \in Files, NEW k \in Int, NEW w, Len(w) \in Nat, k + Len(w) = 0,
         NEW c, Flow(f, k, w, c),
         NEW d, d.at = "send", d.text = Original(f)
  PROVE  Flow(f, k, w, d)
  <1>1. PICK n \in Nat : n = Len(w) /\ k + n = 0
    OBVIOUS
  <1>2. PICK N \in Nat : N = Size[f]
    BY SizeIs
  <1>3. Len(d.text) = N /\ \A i \in 1..N : d.text[i] = i
    <2>1. d.text = Upto(N)
      BY <1>2, OriginalIs
    <2>2. Len(Upto(N)) = N /\ \A i \in 1..N : Upto(N)[i] = i
      BY UptoIs
    <2>3. QED
      BY <2>1, <2>2
  <1>4. k + n + N = N /\ \A i \in 1..N : k + n + i = i
    <2>1. \A i \in Nat : 0 + i = i
      OBVIOUS
    <2>2. 1..N \subseteq Nat
      OBVIOUS
    <2>3. QED
      BY <1>1, <2>1, <2>2
  <1>5. QED
    BY <1>1, <1>2, <1>3, <1>4 DEF Flow

\* The number of words is sent.
LEMMA FlowCount ==
  ASSUME NEW f \in Files, NEW d, d.at = "rewind"
  PROVE  Flow(f, -1, Append(<< >>, Size[f]), d)
  <1>1. Append(<< >>, Size[f]) = << Size[f] >>
    OBVIOUS
  <1>2. Len(<< Size[f] >>) = 1 /\ << Size[f] >>[1] = Size[f] /\ -1 + 1 = 0
    OBVIOUS
  <1>3. ASSUME NEW i \in 1..1 PROVE << Size[f] >>[i] = Item(f, -1 + i)
    BY <1>2 DEF Item
  <1>4. QED
    BY <1>1, <1>2, <1>3 DEF Flow

\* A connection whose handler is gone.
LEMMA FlowReset ==
  ASSUME NEW f, NEW k, NEW w, NEW c, Flow(f, k, w, c),
         NEW d, d.at \notin {"send", "closed"}
  PROVE  Flow(f, k, w, d)
  BY DEF Flow

LEMMA UptoNext ==
  ASSUME NEW n \in Nat
  PROVE  Append(Upto(n), n + 1) = Upto(n + 1)
  <1>1. Upto(n) \in Seq(Nat) /\ Len(Upto(n)) = n /\ \A i \in 1..n : Upto(n)[i] = i
    BY UptoIs
  <1>2. Upto(n + 1) \in Seq(Nat) /\ Len(Upto(n + 1)) = n + 1
        /\ \A i \in 1 .. n + 1 : Upto(n + 1)[i] = i
    BY UptoIs
  <1> DEFINE v == Append(Upto(n), n + 1)
  <1>3. /\ v \in Seq(Nat) /\ Len(v) = n + 1 /\ v[n + 1] = n + 1
        /\ \A i \in 1..n : v[i] = Upto(n)[i]
    BY <1>1, AppendProperties
  <1> HIDE DEF v
  <1>4. \A i \in 1 .. n + 1 : v[i] = Upto(n + 1)[i]
    <2>1. SUFFICES ASSUME NEW i \in 1 .. n + 1 PROVE v[i] = i
      BY <1>2
    <2>2. i \in 1..n \/ i = n + 1
      OBVIOUS
    <2>3. QED
      BY <1>1, <1>3, <2>2
  <1>5. v = Upto(n + 1)
    BY <1>2, <1>3, <1>4, SeqEqual
  <1>6. QED
    BY <1>5 DEF v

\* A stream whose flushed words are on the disk puts the others behind them.
LEMMA FlushUpto ==
  ASSUME NEW n \in Nat, NEW m \in Nat, m <= n
  PROVE  Flush(Upto(m), m, Upto(n)) = Upto(n)
  <1>1. Len(Upto(n)) = n /\ Len(Upto(m)) = m
        /\ (\A i \in 1..n : Upto(n)[i] = i) /\ \A i \in 1..m : Upto(m)[i] = i
    BY UptoIs
  <1>2. (IF n > m /\ n > m THEN n ELSE m) = n
    OBVIOUS
  <1>3. Flush(Upto(m), m, Upto(n)) =
          [i \in 1..n |-> IF i \in m + 1 .. n THEN Upto(n)[i]
                          ELSE IF i <= m THEN Upto(m)[i] ELSE Hole]
    BY <1>1, <1>2, Zenon DEF Flush
  <1>4. ASSUME NEW i \in 1..n
        PROVE  (IF i \in m + 1 .. n THEN Upto(n)[i]
                ELSE IF i <= m THEN Upto(m)[i] ELSE Hole) = i
    BY <1>1
  <1>5. QED
    BY <1>3, <1>4 DEF Upto

LEMMA SmallMod ==
  ASSUME NEW a \in Nat, NEW b \in Nat \ {0}, a < b
  PROVE  a % b = a
  OBVIOUS

\* Thread s holds no file that another thread has written or listed meanwhile.
Undisturbed(s) ==
  /\ req[s].at \in {"lookup", "connect", "count", "words"}
       /\ req[s].file \in listed'[Owner[s]] => req[s].file \in listed[Owner[s]]
  /\ req[s].at \in {"words", "list"} =>
       disk'[Owner[s]][req[s].file] = disk[Owner[s]][req[s].file]

LEMMA ExactStays ==
  ASSUME NEW s \in Requests, NEW q, NEW c, NEW w, q = req[s], Exact(s, q, c, w),
         Undisturbed(s)
  PROVE  Exact(s, q, c, w)'
  <1>1. q.at \in {"lookup", "connect", "count", "words"} => q.file \notin listed'[Owner[s]]
    BY DEF Exact, Undisturbed
  <1>2. q.at \in {"words", "list"} =>
          disk'[Owner[s]][q.file] = disk[Owner[s]][q.file]
    BY DEF Undisturbed
  <1>3. q.at = "words" => Gotten(s, q)'
    BY <1>2 DEF Exact, Gotten
  <1>4. q.at = "list" => disk'[Owner[s]][q.file] = Original(q.file)
    BY <1>2 DEF Exact
  <1>5. q.at \in {"count", "words"} => Flow(q.file, Taken(q), w, c)
    BY DEF Exact
  <1>6. c.at = "rewind" => c.text = Original(c.file)
    BY DEF Exact
  <1>7. QED
    BY <1>1, <1>3, <1>4, <1>5, <1>6 DEF Exact

LEMMA MoveExact ==
  ASSUME TransferInv, ExactInv, Whole', NEW r \in Requests,
         NEW q, NEW c, NEW w, Moves(r, q, c, w), Exact(r, q, c, w)',
         \A s \in Requests : s # r => Undisturbed(s)
  PROVE  ExactInv'
  <1>1. req'[r] = q /\ \A s \in Requests : s # r => req'[s] = req[s]
    BY DEF TransferInv, Shapes, Moves
  <1>2. conn'[r] = c /\ \A s \in Requests : s # r => conn'[s] = conn[s]
    BY DEF TransferInv, Shapes, Moves
  <1>3. wire'[r] = w /\ \A s \in Requests : s # r => wire'[s] = wire[s]
    BY DEF TransferInv, Shapes, Moves
  <1>4. ASSUME NEW s \in Requests
        PROVE  Exact(s, req[s], conn[s], wire[s])'
    <2>1. CASE s = r
      BY <1>1, <1>2, <1>3, <2>1 DEF Exact, Gotten
    <2>2. CASE s # r
      <3>1. PICK a, b, x : a = req[s] /\ b = conn[s] /\ x = wire[s]
        OBVIOUS
      <3>2. Exact(s, a, b, x)
        BY <3>1 DEF ExactInv
      <3>3. Exact(s, a, b, x)'
        BY <2>2, <3>1, <3>2, ExactStays
      <3>4. req'[s] = a /\ conn'[s] = b /\ wire'[s] = x
        BY <1>1, <1>2, <1>3, <2>2, <3>1
      <3>5. QED
        BY <3>3, <3>4 DEF Exact, Gotten
    <2>3. QED
      BY <2>1, <2>2
  <1>5. QED
    BY <1>4 DEF ExactInv

\* The same, when the disks and the lists stay as they are.
LEMMA MoveOnlyExact ==
  ASSUME TransferInv, ExactInv, UNCHANGED <<disk, listed>>, NEW r \in Requests,
         NEW q, NEW c, NEW w, Moves(r, q, c, w), Exact(r, q, c, w)
  PROVE  ExactInv'
  <1>1. Whole'
    BY DEF ExactInv, Whole
  <1>2. Exact(r, q, c, w)'
    BY DEF Exact, Gotten
  <1>3. \A s \in Requests : Undisturbed(s)
    BY DEF Undisturbed
  <1>4. QED
    BY <1>1, <1>2, <1>3, MoveExact

LEMMA LeaveExact ==
  ASSUME TransferInv, ExactInv, NEW r \in Requests, Leave(r), Whole',
         \A s \in Requests : s # r => Undisturbed(s)
  PROVE  ExactInv'
  <1> DEFINE d == IF conn[r].at \in {"closed", "reset"} THEN NoConn ELSE conn[r]
  <1>1. PICK q, c, w : q = NoRequest /\ c = d /\ w = << >>
    OBVIOUS
  <1>2. Moves(r, q, c, w)
    BY <1>1 DEF Leave, Moves
  <1>3. q.at = "idle"
    BY <1>1, NoneIs
  <1>4. c.at = "rewind" => c.text = Original(c.file)
    <2>1. CASE c = conn[r]
      BY <2>1 DEF ExactInv, Exact
    <2>2. CASE c = NoConn
      BY <2>2, NoneIs
    <2>3. QED
      BY <1>1, <2>1, <2>2
  <1>5. Exact(r, q, c, w)'
    BY <1>3, <1>4 DEF Exact
  <1>6. QED
    BY <1>2, <1>5, MoveExact

LEMMA AskExact ==
  ASSUME TransferInv, ExactInv, NEW r \in Requests,
         CopyName(r) \/ Check(r) \/ Lookup(r) \/ Connect(r)
  PROVE  ExactInv'
  <1> USE DEF peerVars, storeVars, consoleVars, netVars
  <1>1. /\ req[r] \in RequestStates /\ Session(r, req[r], conn[r], wire[r])
        /\ Exact(r, req[r], conn[r], wire[r])
        /\ [conn EXCEPT ![r] = conn[r]] = conn /\ [wire EXCEPT ![r] = wire[r]] = wire
    BY ThreadIs DEF ExactInv
  <1>2. conn[r].at = "rewind" => conn[r].text = Original(conn[r].file)
    BY <1>1 DEF Exact
  <1>3. CASE CopyName(r)
    <2> DEFINE q == [at |-> "check", file |-> filename[Owner[r]]]
    <2>1. Moves(r, q, conn[r], wire[r]) /\ UNCHANGED <<disk, listed>>
      BY <1>1, <1>3 DEF CopyName, Moves
    <2>2. Exact(r, q, conn[r], wire[r])
      BY <1>2 DEF Exact
    <2> HIDE DEF q
    <2>3. QED
      BY <2>1, <2>2, MoveOnlyExact
  <1>4. CASE Check(r)
    <2>1. req[r] = [at |-> "check", file |-> req[r].file]
      BY <1>1, <1>4 DEF Check, RequestStates
    <2>2. PICK x \in {"refused", "lookup"} :
            /\ req' = [req EXCEPT ![r].at = x]
            /\ x = "lookup" => ~Matches(Owner[r], req[r].file)
      BY <1>4 DEF Check
    <2> DEFINE q == [at |-> x, file |-> req[r].file]
    <2>3. [req[r] EXCEPT !.at = x] = q
      BY <2>1
    <2>4. Moves(r, q, conn[r], wire[r]) /\ UNCHANGED <<disk, listed>>
      BY <1>1, <1>4, <2>2, <2>3 DEF Check, Moves
    <2>5. x = "lookup" => req[r].file \notin listed[Owner[r]]
      BY <2>2 DEF Matches
    <2>6. Exact(r, q, conn[r], wire[r])
      BY <1>2, <2>5 DEF Exact
    <2> HIDE DEF q
    <2>7. QED
      BY <2>4, <2>6, MoveOnlyExact
  <1>5. CASE Lookup(r)
    <2>1. PICK s : req' = [req EXCEPT ![r] =
                     [at |-> "connect", file |-> req[r].file, src |-> s]]
      BY <1>5 DEF Lookup
    <2> DEFINE q == [at |-> "connect", file |-> req[r].file, src |-> s]
    <2>2. Moves(r, q, conn[r], wire[r]) /\ UNCHANGED <<disk, listed>>
      BY <1>1, <1>5, <2>1 DEF Lookup, Moves
    <2>3. req[r].file \notin listed[Owner[r]]
      BY <1>1, <1>5 DEF Lookup, Exact
    <2>4. Exact(r, q, conn[r], wire[r])
      BY <1>2, <2>3 DEF Exact
    <2> HIDE DEF q
    <2>5. QED
      BY <2>2, <2>4, MoveOnlyExact
  <1>6. CASE Connect(r)
    <2>1. req[r] = [at |-> "connect", file |-> req[r].file, src |-> req[r].src]
          /\ wire[r] = << >>
      BY <1>1, <1>6 DEF Connect, RequestStates, Session
    <2> DEFINE q == [at |-> "count", file |-> req[r].file, src |-> req[r].src]
               c == [at |-> "name", peer |-> req[r].src.peer, file |-> req[r].file]
    <2>2. [req[r] EXCEPT !.at = "count"] = q
      BY <2>1
    <2>3. Moves(r, q, c, wire[r]) /\ UNCHANGED <<disk, listed>>
      BY <1>1, <1>6, <2>2 DEF Connect, Moves
    <2>4. req[r].file \notin listed[Owner[r]]
      BY <1>1, <1>6 DEF Connect, Exact
    <2>5. Len(wire[r]) = 0
      BY <2>1
    <2>6. Flow(q.file, -1, wire[r], c)
      BY <2>5 DEF Flow
    <2>7. Exact(r, q, c, wire[r])
      BY <2>4, <2>6 DEF Exact, Taken
    <2> HIDE DEF q, c
    <2>8. QED
      BY <2>3, <2>7, MoveOnlyExact
  <1>7. QED
    BY <1>3, <1>4, <1>5, <1>6

LEMMA LeavingExact ==
  ASSUME TransferInv, ExactInv, NEW r \in Requests,
         Refuse(r) \/ NotFound(r) \/ ConnectFails(r) \/ RecvEnd(r)
           \/ RecvFails(r)
  PROVE  ExactInv'
  <1>1. Leave(r) /\ UNCHANGED <<disk, listed>>
    BY DEF Refuse, NotFound, ConnectFails, RecvEnd, RecvFails, storeVars
  <1>2. Whole' /\ \A s \in Requests : Undisturbed(s)
    BY <1>1 DEF ExactInv, Whole, Undisturbed
  <1>3. QED
    BY <1>1, <1>2, LeaveExact

-----------------------------------------------------------------------------
(* The handler                                                             *)

\* What the handler serves is listed, and so has every word of the file.
LEMMA ServedIsWhole ==
  ASSUME TransferInv, ExactInv, NEW r \in Requests, Working(conn[r])
  PROVE  /\ conn[r].peer \in Peers /\ conn[r].file \in Files
         /\ Words(disk[conn[r].peer][conn[r].file]) = Original(conn[r].file)
         /\ Len(Words(disk[conn[r].peer][conn[r].file])) = Size[conn[r].file]
  <1>1. PICK p \in Peers, f \in Files : p = conn[r].peer /\ f = conn[r].file
    BY SentTo
  <1>2. f \in listed[p]
    BY <1>1, ThreadIs DEF Session
  <1>3. disk[p][f] = Original(f)
    BY <1>2 DEF ExactInv, Whole
  <1>4. QED
    BY <1>1, <1>3, OriginalIs

LEMMA CountExact ==
  ASSUME TransferInv, ExactInv, NEW r \in Requests, HandlerCount(r)
  PROVE  ExactInv'
  <1> DEFINE f == conn[r].file
             p == conn[r].peer
             text == Words(disk[p][f])
             c == [at |-> "rewind", peer |-> p, file |-> f, text |-> text]
             w == IF Gone(r) THEN wire[r] ELSE Append(wire[r], Len(text))
  <1>1. conn[r].at = "name" /\ Working(conn[r])
    BY DEF HandlerCount, Working
  <1>2. text = Original(f) /\ Len(text) = Size[f] /\ f \in Files
    BY <1>1, ServedIsWhole
  <1>3. wire = [s \in Requests |-> wire[s]] /\ [req EXCEPT ![r] = req[r]] = req
    BY ThreadIs DEF TransferInv, Shapes
  <1>4. conn' = [conn EXCEPT ![r] = c] /\ req' = req /\ Send(r, Len(text))
        /\ UNCHANGED <<disk, listed>>
    BY DEF HandlerCount, storeVars
  <1>5. Moves(r, req[r], c, w)
    <2> HIDE DEF c, text
    <2>1. wire' = [wire EXCEPT ![r] = w]
      BY <1>3, <1>4, SendIs
    <2>2. QED
      BY <1>3, <1>4, <2>1 DEF Moves
  <1>6. Exact(r, req[r], conn[r], wire[r]) /\ Session(r, req[r], conn[r], wire[r])
    BY ThreadIs DEF ExactInv
  <1>7. c.at = "rewind" /\ c.text = Original(c.file)
    BY <1>2
  <1> HIDE DEF c, w, text
  <1>8. req[r].at # "words"
    BY <1>1, <1>6 DEF Session
  <1>9. req[r].at = "count" => Flow(req[r].file, Taken(req[r]), w, c)
    <2>1. SUFFICES ASSUME req[r].at = "count" PROVE Flow(req[r].file, Taken(req[r]), w, c)
      OBVIOUS
    <2>2. wire[r] = << >> /\ req[r].file = f /\ ~Gone(r)
      BY <1>1, <1>6, <2>1, SentTo DEF Session, Gone
    <2>3. w = Append(<< >>, Size[f])
      BY <1>2, <2>2 DEF w
    <2>4. Flow(f, -1, w, c)
      BY <1>2, <1>7, <2>3, FlowCount
    <2>5. QED
      BY <2>1, <2>2, <2>4 DEF Taken
  <1>10. Exact(r, req[r], c, w)
    BY <1>6, <1>7, <1>8, <1>9 DEF Exact
  <1>11. QED
    BY <1>4, <1>5, <1>10, MoveOnlyExact

LEMMA RewindExact ==
  ASSUME TransferInv, ExactInv, NEW r \in Requests, HandlerRewind(r)
  PROVE  ExactInv'
  <1> DEFINE f == conn[r].file
  <1>1. conn[r].at = "rewind" /\ Working(conn[r])
    BY DEF HandlerRewind, Working
  <1>2. PICK text \in {conn[r].text, Words(disk[conn[r].peer][f])} :
          Moves(r, req[r], [at |-> "send", peer |-> conn[r].peer, file |-> f,
                            text |-> text], wire[r])
    BY RewindMoves
  <1> DEFINE c == [at |-> "send", peer |-> conn[r].peer, file |-> f, text |-> text]
  <1>3. Exact(r, req[r], conn[r], wire[r]) /\ Session(r, req[r], conn[r], wire[r])
        /\ wire[r] \in Seq(Nat)
    BY ThreadIs DEF ExactInv
  <1>4. text = Original(f) /\ f \in Files
    BY <1>1, <1>3, ServedIsWhole DEF Exact
  <1>5. c.at = "send" /\ c.text = Original(f)
    BY <1>4
  <1>6. Moves(r, req[r], c, wire[r]) /\ UNCHANGED <<disk, listed>>
    BY <1>2 DEF HandlerRewind, storeVars
  <1> HIDE DEF c
  <1>7. ASSUME req[r].at \in {"count", "words"}
        PROVE  Flow(req[r].file, Taken(req[r]), wire[r], c)
    <2>1. req[r].file = f
      BY <1>1, <1>7, SentTo
    <2>2. PICK k \in Int, n \in Nat : k = Taken(req[r]) /\ n = Len(wire[r]) /\ k + n = 0
      <3>1. CASE req[r].at = "count"
        <4>1. Len(wire[r]) = 1 /\ Taken(req[r]) = -1
          BY <1>1, <1>3, <3>1 DEF Session, Taken
        <4>2. QED
          BY <4>1
      <3>2. CASE req[r].at = "words"
        <4>1. wire[r] = << >> /\ req[r].got = << >> /\ Taken(req[r]) = Len(req[r].got)
          BY <1>1, <1>3, <3>2 DEF Session, Taken
        <4>2. Len(wire[r]) = 0 /\ Taken(req[r]) = 0
          BY <4>1
        <4>3. QED
          BY <4>2
      <3>3. QED
        BY <1>7, <3>1, <3>2
    <2>3. Flow(f, k, wire[r], conn[r])
      BY <1>3, <1>7, <2>1, <2>2 DEF Exact
    <2>4. Flow(f, k, wire[r], c)
      BY <1>4, <1>5, <2>2, <2>3, FlowRewind
    <2>5. QED
      BY <2>1, <2>2, <2>4
  <1>8. Exact(r, req[r], c, wire[r])
    BY <1>3, <1>5, <1>7 DEF Exact
  <1>9. QED
    BY <1>6, <1>8, MoveOnlyExact

\* A thread that is still there, and what it has taken.
LEMMA TakenIs ==
  ASSUME TransferInv, NEW r \in Requests, req[r].at \in {"count", "words"}
  PROVE  Taken(req[r]) \in Int /\ req[r].file \in Files /\ ~Gone(r)
  <1>1. req[r] \in RequestStates /\ Session(r, req[r], conn[r], wire[r])
    BY ThreadIs
  <1>2. req[r].file \in Files /\ ~Gone(r)
    BY <1>1, NoneIs DEF RequestStates, Gone
  <1>3. CASE req[r].at = "words"
    <2>1. req[r].got \in Seq(0..Size[req[r].file])
      BY <1>1, <1>2, <1>3, TextIs DEF Session
    <2>2. Len(req[r].got) \in Int
      BY <2>1
    <2>3. QED
      BY <1>2, <1>3, <2>2 DEF Taken
  <1>4. CASE req[r].at = "count"
    BY <1>2, <1>4 DEF Taken
  <1>5. QED
    BY <1>3, <1>4

LEMMA SendExact ==
  ASSUME TransferInv, ExactInv, NEW r \in Requests, HandlerSend(r)
  PROVE  ExactInv'
  <1>1. PICK p \in Peers, f \in Files, text \in Texts :
          /\ conn[r] = [at |-> "send", peer |-> p, file |-> f, text |-> text]
          /\ Moves(r, req[r],
                   [at |-> "send", peer |-> p, file |-> f, text |-> Tail(text)],
                   IF Gone(r) THEN wire[r] ELSE Append(wire[r], Head(text)))
    BY SendMoves
  <1> DEFINE d == [at |-> "send", peer |-> p, file |-> f, text |-> Tail(text)]
             v == IF Gone(r) THEN wire[r] ELSE Append(wire[r], Head(text))
  <1>2. conn[r].at = "send" /\ conn[r].text = text /\ conn[r].file = f
        /\ Working(conn[r])
    BY <1>1 DEF Working
  <1>3. text # << >> /\ UNCHANGED <<disk, listed>>
    BY <1>2 DEF HandlerSend, storeVars
  <1>4. PICK T : text \in Seq(T)
    <2>1. PICK g \in Files : text \in Text(g)
      BY DEF Texts
    <2>2. QED
      BY <2>1, TextIs
  <1>5. Exact(r, req[r], conn[r], wire[r]) /\ Session(r, req[r], conn[r], wire[r])
        /\ wire[r] \in Seq(Nat)
    BY ThreadIs DEF ExactInv
  <1>6. d.at = "send" /\ d.text = Tail(text) /\ d.at # "rewind"
    OBVIOUS
  <1>7. Moves(r, req[r], d, v)
    BY <1>1
  <1> HIDE DEF d, v
  <1>8. ASSUME req[r].at \in {"count", "words"}
        PROVE  Flow(req[r].file, Taken(req[r]), v, d)
    <2>1. req[r].file = f /\ ~Gone(r) /\ Taken(req[r]) \in Int
      BY <1>2, <1>8, SentTo, TakenIs
    <2>2. PICK k \in Int, n \in Nat : k = Taken(req[r]) /\ n = Len(wire[r])
      BY <1>5, <2>1, EmptyLen
    <2>3. k + n >= 0
      <3>1. CASE req[r].at = "count"
        <4>1. k = -1 /\ n # 0
          BY <1>2, <1>5, <2>2, <3>1, EmptyLen DEF Session, Taken
        <4>2. QED
          BY <4>1
      <3>2. CASE req[r].at = "words"
        <4>1. k = Len(req[r].got) /\ req[r].got \in Text(f)
          BY <1>5, <2>1, <2>2, <3>2 DEF Session, Taken
        <4>2. k \in Nat
          BY <4>1, TextIs, EmptyLen
        <4>3. QED
          BY <4>2
      <3>3. QED
        BY <1>8, <3>1, <3>2
    <2>4. Flow(f, k, wire[r], conn[r])
      BY <1>5, <1>8, <2>1, <2>2 DEF Exact
    <2>5. Flow(f, k, Append(wire[r], Head(text)), d)
      BY <1>2, <1>3, <1>4, <1>5, <1>6, <2>2, <2>3, <2>4, FlowSend
    <2>6. v = Append(wire[r], Head(text))
      BY <2>1 DEF v
    <2>7. QED
      BY <2>1, <2>2, <2>5, <2>6
  <1>9. Exact(r, req[r], d, v)
    BY <1>5, <1>6, <1>8 DEF Exact
  <1>10. QED
    BY <1>3, <1>7, <1>9, MoveOnlyExact

LEMMA CloseExact ==
  ASSUME TransferInv, ExactInv, NEW r \in Requests,
         HandlerClose(r) \/ HandlerFails(r)
  PROVE  ExactInv'
  <1>1. /\ Exact(r, req[r], conn[r], wire[r]) /\ wire[r] \in Seq(Nat)
        /\ [req EXCEPT ![r] = req[r]] = req /\ [wire EXCEPT ![r] = wire[r]] = wire
    BY ThreadIs DEF ExactInv
  <1>2. UNCHANGED <<disk, listed, req, wire>>
    BY DEF HandlerClose, HandlerFails, storeVars
  <1>3. PICK d : /\ conn' = [conn EXCEPT ![r] = d]
                 /\ d = IF Gone(r) THEN NoConn ELSE [at |-> "closed"]
                 /\ ~Gone(r) => conn[r].at = "send" /\ conn[r].text = << >>
    BY DEF HandlerClose, HandlerFails
  <1>4. Moves(r, req[r], d, wire[r])
    BY <1>1, <1>2, <1>3 DEF Moves
  <1>5. d.at # "rewind" /\ (~Gone(r) => d.at = "closed")
    BY <1>3, NoneIs
  <1>6. ASSUME req[r].at \in {"count", "words"}
        PROVE  Flow(req[r].file, Taken(req[r]), wire[r], d)
    <2>1. Taken(req[r]) \in Int /\ req[r].file \in Files /\ ~Gone(r)
      BY <1>6, TakenIs
    <2>2. Flow(req[r].file, Taken(req[r]), wire[r], conn[r])
      BY <1>1, <1>6 DEF Exact
    <2>3. QED
      BY <1>1, <1>3, <1>5, <2>1, <2>2, FlowClose
  <1>7. Exact(r, req[r], d, wire[r])
    BY <1>1, <1>5, <1>6 DEF Exact
  <1>8. QED
    BY <1>2, <1>4, <1>7, MoveOnlyExact

-----------------------------------------------------------------------------
(* The request thread receives                                             *)

\* Only thread r writes its file: what others hold, and what is listed, stays.
LEMMA WriteExact ==
  ASSUME TransferInv, ExactInv, Apart, UNCHANGED listed,
         NEW r \in Requests, req[r].at \in {"count", "words"},
         \A p \in Peers, g \in Files :
           p # Owner[r] \/ g # req[r].file => disk'[p][g] = disk[p][g]
  PROVE  Whole' /\ \A s \in Requests : s # r => Undisturbed(s)
  <1>1. req[r].file \notin listed[Owner[r]]
    BY DEF ExactInv, Exact
  <1>2. ASSUME NEW p \in Peers, NEW g \in listed[p]
        PROVE  disk'[p][g] = Original(g)
    <2>1. g \in Files /\ disk[p][g] = Original(g)
      BY DEF TransferInv, Known, ExactInv, Whole
    <2>2. QED
      BY <1>1, <2>1
  <1>3. Whole'
    BY <1>2 DEF Whole
  <1>4. ASSUME NEW s \in Requests, s # r, req[s].at \in {"words", "list"}
        PROVE  disk'[Owner[s]][req[s].file] = disk[Owner[s]][req[s].file]
    <2>1. req[s].file \in Files /\ Owner[s] \in Peers
      BY <1>4, ThreadIs DEF RequestStates
    <2>2. Owner[s] # Owner[r] \/ req[s].file # req[r].file
      BY <1>4 DEF Apart, Fetching
    <2>3. QED
      BY <2>1, <2>2
  <1>5. QED
    BY <1>3, <1>4 DEF Undisturbed

LEMMA RecvCountExact ==
  ASSUME TransferInv, ExactInv, Apart, NEW r \in Requests, RecvCount(r)
  PROVE  ExactInv'
  <1> DEFINE p == Owner[r]
             f == req[r].file
             left == (Head(wire[r]) - 1) % UINT_RANGE
             q == [at |-> "words", file |-> f, src |-> req[r].src, left |-> left,
                   got |-> << >>, flushed |-> 0]
  <1>1. req[r].at = "count" /\ wire[r] # << >>
    BY DEF RecvCount
  <1>2. f \in Files /\ p \in Peers
    BY <1>1, Receiver
  <1>3. /\ conn[r] \in ConnStates /\ wire[r] \in Seq(Nat)
        /\ [conn EXCEPT ![r] = conn[r]] = conn /\ Exact(r, req[r], conn[r], wire[r])
    BY ThreadIs DEF ExactInv
  <1>4. /\ disk' = [disk EXCEPT ![p][f] = << >>] /\ UNCHANGED listed
        /\ Moves(r, q, conn[r], Tail(wire[r]))
    BY <1>3 DEF RecvCount, Moves
  <1>5. q.at = "words" /\ q.file = f /\ q.left = left /\ q.got = << >> /\ q.flushed = 0
    OBVIOUS
  <1> HIDE DEF p, f, left, q
  <1>6. /\ disk'[p][f] = << >>
        /\ \A x \in Peers, g \in Files : x # p \/ g # f => disk'[x][g] = disk[x][g]
    BY <1>2, <1>4 DEF TransferInv, Known
  <1>7. Whole' /\ \A s \in Requests : s # r => Undisturbed(s)
    BY <1>1, <1>4, <1>6, WriteExact DEF p, f
  <1>8. Head(wire[r]) = Size[f] /\ Flow(f, 0, Tail(wire[r]), conn[r])
    <2>1. Flow(f, -1, wire[r], conn[r])
      BY <1>1, <1>3 DEF Exact, Taken, f
    <2>2. PICK k \in Int, w \in Seq(Nat), c \in ConnStates :
            k = -1 /\ w = wire[r] /\ c = conn[r]
      BY <1>3
    <2>3. w # << >> /\ Flow(f, k, w, c)
      BY <1>1, <2>1, <2>2
    <2>4. Head(w) = Item(f, k + 1) /\ Flow(f, k + 1, Tail(w), c)
      BY <1>2, <2>3, FlowTake
    <2>5. k + 1 = 0
      BY <2>2
    <2>6. Head(wire[r]) = Item(f, 0) /\ Flow(f, 0, Tail(wire[r]), conn[r])
      BY <2>2, <2>4, <2>5
    <2>7. QED
      BY <2>6 DEF Item
  <1>9. Size[f] > 0 => left + 0 + 1 = Size[f]
    <2>1. SUFFICES ASSUME Size[f] > 0 PROVE left + 0 + 1 = Size[f]
      OBVIOUS
    <2>2. Size[f] - 1 \in Nat /\ Size[f] - 1 < UINT_RANGE /\ UINT_RANGE \in Nat \ {0}
      BY <1>2, <2>1, SizeIs
    <2>3. PICK n \in Nat, m \in Nat \ {0} : n = Size[f] - 1 /\ m = UINT_RANGE /\ n < m
      BY <2>2
    <2>4. left = n % m
      BY <1>8, <2>3 DEF left
    <2>5. left = n
      BY <2>3, <2>4, SmallMod
    <2>6. n + 1 = Size[f]
      BY <1>2, <2>3, SizeIs
    <2>7. QED
      BY <2>3, <2>5, <2>6
  <1>10. Upto(0) = << >> /\ Len(<< >>) = 0
    BY DEF Upto
  <1>11. PICK a, b, x : a = q /\ b = conn[r] /\ x = Tail(wire[r])
    OBVIOUS
  <1>12. /\ a.at = "words" /\ a.file = f /\ a.got = << >> /\ a.flushed = 0
         /\ Size[a.file] > 0 => a.left + 0 + 1 = Size[a.file]
    BY <1>5, <1>9, <1>11
  <1>13. Gotten(r, a)'
    <2>1. a.flushed <= Len(a.got)
      BY <1>10, <1>12
    <2>2. disk'[Owner[r]][a.file] = Upto(a.flushed)
      BY <1>6, <1>10, <1>12 DEF p
    <2>3. QED
      BY <1>10, <1>12, <2>1, <2>2 DEF Gotten
  <1>14. Flow(a.file, Taken(a), x, b)
    BY <1>8, <1>10, <1>11, <1>12 DEF Taken
  <1>15. a.file \notin listed'[Owner[r]]
    BY <1>1, <1>3, <1>4, <1>12 DEF Exact, f
  <1>16. b.at = "rewind" => b.text = Original(b.file)
    BY <1>3, <1>11 DEF Exact
  <1>17. Exact(r, a, b, x)'
    BY <1>12, <1>13, <1>14, <1>15, <1>16 DEF Exact
  <1>18. QED
    BY <1>4, <1>7, <1>11, <1>17, MoveExact

\* The next word in the loop, or behind it, is the one that the file has next.
LEMMA NextExact ==
  ASSUME TransferInv, ExactInv, NEW r \in Requests,
         req[r].at = "words", wire[r] # << >>
  PROVE  LET f == req[r].file
         IN  \E a \in Nat :
               /\ Len(req[r].got) = a
               /\ Written(req[r].got, Head(wire[r])) = Upto(a + 1)
               /\ Flow(f, a + 1, Tail(wire[r]), conn[r])
               /\ req[r].left + a + 1 = Size[f] /\ Size[f] \in Nat
               /\ req[r].flushed \in Nat /\ req[r].flushed <= a
               /\ disk[Owner[r]][f] = Upto(req[r].flushed)
               /\ f \in Files /\ Owner[r] \in Peers /\ f \notin listed[Owner[r]]
  <1> DEFINE f == req[r].file
  <1>1. /\ conn[r] \in ConnStates /\ wire[r] \in Seq(Nat) /\ Owner[r] \in Peers
        /\ Exact(r, req[r], conn[r], wire[r]) /\ Session(r, req[r], conn[r], wire[r])
        /\ req[r] \in RequestStates
    BY ThreadIs DEF ExactInv
  <1>2. f \in Files /\ req[r].flushed \in Nat /\ Size[f] \in Nat
    BY <1>1, SizeIs DEF RequestStates
  <1>3. req[r].got \in Seq(0..Size[f])
    BY <1>1, <1>2, TextIs DEF Session
  <1>4. PICK a \in Nat : a = Len(req[r].got)
    BY <1>3
  <1>5. /\ req[r].got = Upto(a) /\ req[r].flushed <= a
        /\ disk[Owner[r]][f] = Upto(req[r].flushed)
        /\ Size[f] > 0 => req[r].left + a + 1 = Size[f]
        /\ Flow(f, a, wire[r], conn[r])
        /\ f \notin listed[Owner[r]]
    BY <1>1, <1>4 DEF Exact, Gotten, Taken
  <1>6. Head(wire[r]) = Item(f, a + 1) /\ Flow(f, a + 1, Tail(wire[r]), conn[r])
    BY <1>1, <1>2, <1>5, FlowTake
  <1>7. Head(wire[r]) = a + 1 /\ a + 1 # 0
    BY <1>6 DEF Item
  <1>8. Written(req[r].got, Head(wire[r])) = Upto(a + 1)
    BY <1>5, <1>7, UptoNext DEF Written, Hole
  <1>9. Size[f] > 0
    <2>1. a + Len(wire[r]) + Rest(conn[r]) <= Size[f]
      BY <1>1, <1>4 DEF Session
    <2>2. PICK n \in Nat, m \in Nat, k \in Nat :
            n = Len(wire[r]) /\ n # 0 /\ m = Rest(conn[r]) /\ k = Size[f]
      BY <1>1, <1>2, EmptyLen, RestIs
    <2>3. a + n + m <= k
      BY <2>1, <2>2
    <2>4. k > 0
      BY <2>2, <2>3
    <2>5. QED
      BY <2>2, <2>4
  <1>10. QED
    BY <1>1, <1>2, <1>4, <1>5, <1>6, <1>8, <1>9

LEMMA RecvWordExact ==
  ASSUME TransferInv, ExactInv, Apart, NEW r \in Requests, RecvWord(r)
  PROVE  ExactInv'
  <1> DEFINE p == Owner[r]
             words == Written(req[r].got, Head(wire[r]))
  <1>1. req[r].at = "words" /\ wire[r] # << >> /\ UNCHANGED listed
    BY DEF RecvWord
  <1>2. PICK s \in Holder, k \in 0 .. UINT_RANGE - 1, t \in Texts, m \in Nat,
             f \in Files : \E n \in {m, Len(words)} :
          /\ req[r] = [at |-> "words", file |-> f, src |-> s, left |-> k,
                       got |-> t, flushed |-> m]
          /\ Moves(r, [at |-> "words", file |-> f, src |-> s, left |-> k - 1,
                       got |-> words, flushed |-> n], conn[r], Tail(wire[r]))
          /\ disk' = IF n = m THEN disk
                     ELSE [disk EXCEPT ![p][f] = Flush(disk[p][f], m, words)]
    BY WordMoves
  <1>3. PICK n \in {m, Len(words)} :
          /\ Moves(r, [at |-> "words", file |-> f, src |-> s, left |-> k - 1,
                       got |-> words, flushed |-> n], conn[r], Tail(wire[r]))
          /\ disk' = IF n = m THEN disk
                     ELSE [disk EXCEPT ![p][f] = Flush(disk[p][f], m, words)]
    BY <1>2
  <1>4. req[r].file = f /\ req[r].left = k /\ req[r].got = t /\ req[r].flushed = m
    BY <1>2
  <1> HIDE DEF p, words
  <1>5. PICK a \in Nat :
          /\ words = Upto(a + 1) /\ Flow(f, a + 1, Tail(wire[r]), conn[r])
          /\ k + a + 1 = Size[f] /\ m <= a /\ disk[p][f] = Upto(m)
          /\ p \in Peers /\ f \notin listed[p]
    BY <1>1, <1>4, NextExact DEF p, words
  <1>6. Len(words) = a + 1
    <2>1. a + 1 \in Nat
      OBVIOUS
    <2>2. QED
      BY <1>5, <2>1, UptoIs
  <1>7. n \in {m, a + 1} /\ n <= a + 1
    BY <1>3, <1>5, <1>6
  <1>8. /\ disk'[p][f] = Upto(n)
        /\ \A x \in Peers, g \in Files : x # p \/ g # f => disk'[x][g] = disk[x][g]
    <2>1. CASE n = m
      BY <1>3, <1>5, <2>1
    <2>2. CASE n # m
      <3>1. disk' = [disk EXCEPT ![p][f] = Flush(Upto(m), m, Upto(a + 1))]
        BY <1>3, <1>5, <2>2
      <3>2. Flush(Upto(m), m, Upto(a + 1)) = Upto(a + 1) /\ n = a + 1
        BY <1>5, <1>7, <2>2, FlushUpto
      <3>3. QED
        BY <1>5, <3>1, <3>2 DEF TransferInv, Known
    <2>3. QED
      BY <2>1, <2>2
  <1>9. Whole' /\ \A x \in Requests : x # r => Undisturbed(x)
    BY <1>1, <1>4, <1>8, WriteExact DEF p
  <1>10. PICK q, c, w :
           /\ q = [at |-> "words", file |-> f, src |-> s, left |-> k - 1,
                   got |-> words, flushed |-> n]
           /\ c = conn[r] /\ w = Tail(wire[r])
    OBVIOUS
  <1>11. /\ q.at = "words" /\ q.file = f /\ q.left = k - 1 /\ q.got = Upto(a + 1)
         /\ q.flushed = n
    BY <1>5, <1>10
  <1>12. Len(q.got) = a + 1 /\ q.left + (a + 1) + 1 = Size[f]
    <2>1. (k - 1) + (a + 1) + 1 = k + a + 1
      OBVIOUS
    <2>2. QED
      BY <1>5, <1>6, <1>11, <2>1
  <1>13. Gotten(r, q)'
    BY <1>7, <1>8, <1>11, <1>12 DEF Gotten, p
  <1>14. Flow(q.file, Taken(q), w, c)
    BY <1>5, <1>10, <1>11, <1>12 DEF Taken
  <1>15. q.file \notin listed'[Owner[r]]
    BY <1>1, <1>5, <1>11 DEF p
  <1>16. c.at = "rewind" => c.text = Original(c.file)
    BY <1>10 DEF ExactInv, Exact
  <1>17. Exact(r, q, c, w)'
    BY <1>11, <1>13, <1>14, <1>15, <1>16 DEF Exact
  <1>18. QED
    BY <1>3, <1>9, <1>10, <1>17, MoveExact

LEMMA RecvLastExact ==
  ASSUME TransferInv, ExactInv, Apart, NEW r \in Requests, RecvLast(r)
  PROVE  ExactInv'
  <1> DEFINE p == Owner[r]
             words == Written(req[r].got, Head(wire[r]))
  <1>1. req[r].at = "words" /\ req[r].left = 0 /\ wire[r] # << >> /\ UNCHANGED listed
    BY DEF RecvLast
  <1>2. PICK s \in Holder, k \in 0 .. UINT_RANGE - 1, t \in Texts, m \in Nat,
             f \in Files :
          /\ req[r] = [at |-> "words", file |-> f, src |-> s, left |-> k,
                       got |-> t, flushed |-> m]
          /\ Moves(r, [at |-> "list", file |-> f, src |-> s, left |-> k,
                       got |-> words, flushed |-> m], conn[r], Tail(wire[r]))
          /\ disk' = [disk EXCEPT ![p][f] = Flush(disk[p][f], m, words)]
    BY LastMoves
  <1>3. req[r].file = f /\ req[r].got = t /\ req[r].flushed = m
    BY <1>2
  <1> HIDE DEF p, words
  <1>4. PICK a \in Nat :
          /\ words = Upto(a + 1) /\ 0 + a + 1 = Size[f] /\ m <= a
          /\ disk[p][f] = Upto(m) /\ p \in Peers
    BY <1>1, <1>3, NextExact DEF p, words
  <1>5. Flush(disk[p][f], m, words) = Original(f)
    <2>1. m <= a + 1 /\ a + 1 = Size[f] /\ a + 1 \in Nat
      BY <1>4
    <2>2. Flush(Upto(m), m, Upto(a + 1)) = Upto(a + 1)
      BY <2>1, FlushUpto
    <2>3. QED
      BY <1>4, <2>1, <2>2, OriginalIs
  <1>6. /\ disk'[p][f] = Original(f)
        /\ \A x \in Peers, g \in Files : x # p \/ g # f => disk'[x][g] = disk[x][g]
    BY <1>2, <1>4, <1>5 DEF TransferInv, Known
  <1>7. Whole' /\ \A x \in Requests : x # r => Undisturbed(x)
    BY <1>1, <1>3, <1>6, WriteExact DEF p
  <1>8. PICK q, c, w :
          /\ q = [at |-> "list", file |-> f, src |-> s, left |-> k, got |-> words,
                  flushed |-> m]
          /\ c = conn[r] /\ w = Tail(wire[r])
    OBVIOUS
  <1>9. q.at = "list" /\ q.file = f
    BY <1>8
  <1>10. c.at = "rewind" => c.text = Original(c.file)
    BY <1>8 DEF ExactInv, Exact
  <1>11. Exact(r, q, c, w)'
    BY <1>6, <1>9, <1>10 DEF Exact, p
  <1>12. QED
    BY <1>2, <1>7, <1>8, <1>11, MoveExact

\* What is listed now is on the disk, and nobody else fetches it.
LEMMA AddToListExact ==
  ASSUME TransferInv, ExactInv, Apart, NEW r \in Requests, AddToList(r)
  PROVE  ExactInv'
  <1> DEFINE p == Owner[r]
             f == req[r].file
  <1>1. req[r].at = "list" /\ p \in Peers /\ disk[p][f] = Original(f)
    BY ThreadIs DEF AddToList, ExactInv, Exact
  <1>2. /\ listed' = [listed EXCEPT ![p] = @ \cup {f}] /\ Leave(r) /\ UNCHANGED disk
    BY DEF AddToList
  <1> HIDE DEF p, f
  <1>3. /\ listed'[p] = listed[p] \cup {f}
        /\ \A x \in Peers : x # p => listed'[x] = listed[x]
    BY <1>1, <1>2 DEF TransferInv, Known
  <1>4. Whole'
    BY <1>1, <1>2, <1>3 DEF ExactInv, Whole
  <1>5. ASSUME NEW s \in Requests, s # r,
               req[s].at \in {"lookup", "connect", "count", "words"},
               req[s].file \in listed'[Owner[s]]
        PROVE  req[s].file \in listed[Owner[s]]
    <2>1. Owner[s] \in Peers
      BY ThreadIs
    <2>2. Owner[s] # p \/ req[s].file # f
      BY <1>1, <1>5 DEF Apart, Fetching, p, f
    <2>3. QED
      BY <1>3, <1>5, <2>1, <2>2
  <1>6. \A s \in Requests : s # r => Undisturbed(s)
    BY <1>2, <1>5 DEF Undisturbed
  <1>7. QED
    BY <1>2, <1>4, <1>6, LeaveExact

-----------------------------------------------------------------------------
\* The end of process p: what its threads had and sent is gone, or is reset.
LEMMA EndsExact ==
  ASSUME TransferInv, ExactInv, NEW p \in Peers, Ends(p)
  PROVE  ExactInv'
  <1>1. UNCHANGED <<disk, listed>>
    BY DEF Ends, storeVars
  <1>2. Whole'
    BY <1>1 DEF ExactInv, Whole
  <1>3. ASSUME NEW r \in Requests
        PROVE  Exact(r, req[r], conn[r], wire[r])'
    <2>1. PICK q, c, w : q = req'[r] /\ c = conn'[r] /\ w = wire'[r]
      OBVIOUS
    <2>2. /\ q = NoRequest \/ (q = req[r] /\ w = wire[r])
          /\ c \in {NoConn, [at |-> "reset"], conn[r]}
      <3>1. CASE Owner[r] = p
        BY <2>1, <3>1 DEF Ends
      <3>2. CASE Owner[r] # p
        BY <2>1, <3>2 DEF Ends
      <3>3. QED
        BY <3>1, <3>2
    <2>3. c = conn[r] \/ c.at \notin {"rewind", "send", "closed"}
      <3>1. CASE c = NoConn
        BY <3>1, NoneIs
      <3>2. CASE c = [at |-> "reset"]
        BY <3>2
      <3>3. QED
        BY <2>2, <3>1, <3>2
    <2>4. Exact(r, req[r], conn[r], wire[r])
      BY DEF ExactInv
    <2>5. c.at = "rewind" => c.text = Original(c.file)
      BY <2>3, <2>4 DEF Exact
    <2>6. CASE q = NoRequest
      <3>1. q.at = "idle"
        BY <2>6, NoneIs
      <3>2. Exact(r, q, c, w)'
        BY <2>5, <3>1 DEF Exact
      <3>3. QED
        BY <2>1, <3>2 DEF Exact, Gotten
    <2>7. CASE q = req[r] /\ w = wire[r]
      <3>1. q.at \in {"count", "words"} => Flow(q.file, Taken(q), w, conn[r])
        BY <2>4, <2>7 DEF Exact
      <3>2. q.at \in {"count", "words"} => Flow(q.file, Taken(q), w, c)
        BY <2>3, <3>1, FlowReset
      <3>3. Exact(r, q, c, w)
        BY <2>4, <2>5, <2>7, <3>2 DEF Exact, Gotten
      <3>4. Exact(r, q, c, w)'
        BY <1>1, <3>3 DEF Exact, Gotten
      <3>5. QED
        BY <2>1, <3>4 DEF Exact, Gotten
    <2>8. QED
      BY <2>2, <2>6, <2>7
  <1>4. QED
    BY <1>2, <1>3 DEF ExactInv

\* A step that no request thread in the middle of its work takes part in.
LEMMA QuietExact ==
  ASSUME TransferInv, ExactInv, UNCHANGED <<disk, listed, req, conn, wire>>
  PROVE  ExactInv'
  BY DEF ExactInv, Whole, Exact, Gotten

LEMMA StartRequestExact ==
  ASSUME TransferInv, ExactInv, NEW r \in Requests, StartRequest(r)
  PROVE  ExactInv'
  <1> DEFINE q == [at |-> "born"]
  <1>1. [conn EXCEPT ![r] = conn[r]] = conn /\ [wire EXCEPT ![r] = wire[r]] = wire
        /\ Exact(r, req[r], conn[r], wire[r])
    BY ThreadIs DEF ExactInv
  <1>2. Moves(r, q, conn[r], wire[r]) /\ UNCHANGED <<disk, listed>>
    BY <1>1 DEF StartRequest, Moves, netVars, storeVars
  <1>3. Exact(r, q, conn[r], wire[r])
    BY <1>1 DEF Exact
  <1> HIDE DEF q
  <1>4. QED
    BY <1>2, <1>3, MoveOnlyExact

LEMMA ExactInit ==
  ASSUME Init
  PROVE  ExactInv
  <1>1. Whole
    <2>1. \A p \in Peers : Origin[p] \subseteq Files
      BY FileTransferAssumption
    <2>2. QED
      BY <2>1 DEF Init, Whole
  <1>2. \A r \in Requests : req[r] = NoRequest /\ conn[r] = NoConn
    BY DEF Init
  <1>3. ASSUME NEW r \in Requests
        PROVE  Exact(r, req[r], conn[r], wire[r])
    BY <1>2, NoneIs DEF Exact
  <1>4. QED
    BY <1>1, <1>3 DEF ExactInv

LEMMA ExactNext ==
  ASSUME TransferInv, ExactInv, Apart, [Next]_vars
  PROVE  ExactInv'
  <1>1. CASE UNCHANGED vars
    BY <1>1, QuietExact DEF vars, storeVars, netVars
  <1>2. ASSUME NEW p \in Peers, NEW q \in Peers, Announce(p, q)
        PROVE  ExactInv'
    BY <1>2, QuietExact DEF Announce, storeVars, netVars
  <1>3. ASSUME NEW p \in Peers, NEW f \in Files, TypeName(p, f)
        PROVE  ExactInv'
    BY <1>3, QuietExact DEF TypeName, storeVars, netVars
  <1>4. ASSUME NEW r \in Requests, RequestStep(r)
        PROVE  ExactInv'
    BY <1>4, AskExact, LeavingExact, RecvCountExact, RecvWordExact, RecvLastExact,
       AddToListExact DEF RequestStep
  <1>5. ASSUME NEW r \in Requests, StartRequest(r) \/ RecvFails(r)
        PROVE  ExactInv'
    BY <1>5, StartRequestExact, LeavingExact
  <1>6. ASSUME NEW r \in Requests, HandlerStep(r)
        PROVE  ExactInv'
    <2>1. CASE HandlerKilled(r)
      <3>1. conn[r].peer \in Peers /\ Ends(conn[r].peer)
        BY <2>1, SentTo DEF HandlerKilled, Working
      <3>2. QED
        BY <3>1, EndsExact
    <2>2. CASE ~HandlerKilled(r)
      BY <1>6, <2>2, CountExact, RewindExact, SendExact, CloseExact DEF HandlerStep
    <2>3. QED
      BY <2>1, <2>2
  <1>7. ASSUME NEW p \in Peers, Exit(p) PROVE ExactInv'
    BY <1>7, EndsExact DEF Exit
  <1>8. ASSUME NEW p \in Peers, Restart(p) PROVE ExactInv'
    BY <1>8, QuietExact DEF Restart, storeVars, netVars
  <1>9. QED
    BY <1>1, <1>2, <1>3, <1>4, <1>5, <1>6, <1>7, <1>8 DEF Next

LEMMA ExactInvariant ==
  Spec /\ []Apart => []ExactInv
  <1>1. Init => ExactInv
    BY ExactInit
  <1>2. TransferInv /\ ExactInv /\ Apart /\ [Next]_vars => ExactInv'
    BY ExactNext
  <1>3. QED
    BY <1>1, <1>2, TransferInvariant, PTL DEF Spec

\* As long as no two threads of a peer fetch the same file, what a peer lists it
\* has in full, whoever exits, restarts or breaks off meanwhile: an interrupted
\* file is never listed, and a listed one never overwritten (P2P.c:255-359).
THEOREM ListedIsWhole ==
  Spec /\ []Apart => []ListedIsComplete
  <1>1. TransferInv /\ ExactInv => ListedIsComplete
    <2> SUFFICES ASSUME TransferInv, ExactInv, NEW p \in Peers, NEW f \in listed[p]
                 PROVE  disk[p][f] # Absent /\ Words(disk[p][f]) = Original(f)
      BY DEF ListedIsComplete
    <2>1. f \in Files /\ disk[p][f] # Absent
      BY DEF TransferInv, Known
    <2>2. disk[p][f] = Original(f)
      BY DEF ExactInv, Whole
    <2>3. QED
      BY <2>1, <2>2, OriginalIs
  <1>2. QED
    BY <1>1, TransferInvariant, ExactInvariant, PTL

\* Under the same condition the handler has sent exactly what the receiver still
\* waits for when it reports the file as sent (P2P.c:560-608, 335-356).
THEOREM AllSentIsReceived ==
  Spec /\ []Apart => []SentIsReceived
  <1>1. TransferInv /\ ExactInv => SentIsReceived
    <2> SUFFICES ASSUME TransferInv, ExactInv, NEW r \in Requests,
                        conn[r].at = "closed", req[r].at \in {"count", "words"},
                        Size[req[r].file] > 0
                 PROVE  /\ req[r].at = "count" =>
                             wire[r] # << >> /\ Len(wire[r]) = Head(wire[r]) + 1
                        /\ req[r].at = "words" => Len(wire[r]) = req[r].left + 1
      BY DEF SentIsReceived
    <2>1. Exact(r, req[r], conn[r], wire[r]) /\ wire[r] \in Seq(Nat)
          /\ req[r] \in RequestStates /\ Session(r, req[r], conn[r], wire[r])
      BY ThreadIs DEF ExactInv
    <2>2. PICK f \in Files, n \in Nat : f = req[r].file /\ n = Len(wire[r])
      BY <2>1, TakenIs
    <2>3. PICK N \in Nat : N = Size[f] /\ N > 0
      BY <2>2, SizeIs
    <2>4. Flow(f, Taken(req[r]), wire[r], conn[r])
      BY <2>1, <2>2 DEF Exact
    <2>5. CASE req[r].at = "count"
      <3>1. Flow(f, -1, wire[r], conn[r])
        BY <2>4, <2>5 DEF Taken
      <3>2. -1 + n = N
        BY <2>2, <2>3, <3>1 DEF Flow
      <3>3. n = N + 1 /\ n # 0 /\ 1 \in 1..n /\ -1 + 1 = 0
        BY <3>2
      <3>4. wire[r] # << >> /\ Head(wire[r]) = wire[r][1]
        <4>1. wire[r] # << >>
          BY <2>1, <2>2, <3>3, EmptyLen
        <4>2. QED
          BY <2>1, <4>1, TailWire
      <3>5. wire[r][1] = Item(f, -1 + 1)
        BY <2>2, <3>1, <3>3 DEF Flow
      <3>6. Head(wire[r]) = N
        BY <2>3, <3>3, <3>4, <3>5 DEF Item
      <3>7. QED
        BY <2>2, <2>5, <3>3, <3>4, <3>6
    <2>6. CASE req[r].at = "words"
      <3>1. req[r].got \in Seq(0..Size[f])
        BY <2>1, <2>2, <2>6, TextIs DEF Session
      <3>2. PICK a \in Nat, k \in Nat : a = Len(req[r].got) /\ k = req[r].left
        <4>1. req[r].left \in 0 .. UINT_RANGE - 1
          BY <2>1, <2>6 DEF RequestStates
        <4>2. QED
          BY <3>1, <4>1
      <3>3. Flow(f, a, wire[r], conn[r])
        BY <2>4, <2>6, <3>2 DEF Taken
      <3>4. a + n = N
        BY <2>2, <2>3, <3>3 DEF Flow
      <3>5. k + a + 1 = N
        BY <2>1, <2>2, <2>3, <2>6, <3>2 DEF Exact, Gotten
      <3>6. n = k + 1
        BY <3>4, <3>5
      <3>7. QED
        BY <2>2, <2>6, <3>2, <3>6
    <2>7. QED
      BY <2>5, <2>6
  <1>2. QED
    BY <1>1, TransferInvariant, ExactInvariant, PTL

\* So it is when no peer runs two request threads: the condition holds by itself.
THEOREM OneThreadPerPeer ==
  ASSUME \A r, s \in Requests : Owner[r] = Owner[s] => r = s
  PROVE  Spec => [](ListedIsComplete /\ SentIsReceived)
  <1>1. Apart
    BY DEF Apart
  <1>2. QED
    BY <1>1, ListedIsWhole, AllSentIsReceived, PTL
=============================================================================
